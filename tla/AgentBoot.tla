------------------------------ MODULE AgentBoot ------------------------------
(***************************************************************************)
(* The boot of an agent image (bin/main.rs and ota.rs): the hardware       *)
(* watchdog is armed, IOBEWI OTA reports the boot disposition, the         *)
(* application decides whether this image is fit to stay, an unconfirmed   *)
(* image is confirmed or rejected, and the lifecycle ends in Production.   *)
(*                                                                         *)
(* "frozen" is an agent that panicked or hangs while the watchdog is       *)
(* armed; "hung" is one that panicked after the watchdog was released, as  *)
(* it must be on every boot that goes on to serve.                         *)
(***************************************************************************)
EXTENDS DeviceState

RunningImage == flash[running]

\* Mutants of Accounted: any record of this slot; a record of any slot.
AccountedIfStaged == staged.stage # "none" /\ staged.slot = running
AccountedAnySlot == staged.stage = "activating"

\* The staged record accounts for the image that runs unconfirmed.
Accounted == staged.stage = "activating" /\ staged.slot = running

\* agent_can_run_active_workload: the Dual-OTA guard.
CanRunActiveWorkload == workload = NoWorkload \/ workload \in Runs[RunningImage]

\* The lifecycles in which bin/main.rs lets an agent stay.
LifecycleAllowsAgent == lifecycle \in {"ready_for_agent", "production"}

\* What follows the promotion: Production is written once.
AfterConfirmation == IF lifecycle = "ready_for_agent" THEN "production" ELSE "serve"

\* The agent panics or hangs under the watchdog: before on_boot has decided,
\* reading the lifecycle, or in the self-check of an unconfirmed image.
Freezes ==
  \/ pc = "on_boot"
  \/ pc = "policy" /\ Unconfirmed
  \/ pc = "confirm"

\* A faulty image freezes by itself.
FaultyFreezes ==
  /\ Freezes
  /\ Kind[RunningImage] = "faulty"
  /\ GoTo("frozen")
  /\ UNCHANGED <<durable, agentState>>
  /\ NoFault

\* Mutant of BootPanics: the watchdog is not armed yet.
BootPanicsUnwatched ==
  /\ Freezes
  /\ GoTo("hung")
  /\ UNCHANGED <<durable, agentState>>
  /\ Fault

\* "NVS config backend unavailable", "runtime config unavailable", ...
BootPanics ==
  /\ Freezes
  /\ GoTo("frozen")
  /\ UNCHANGED <<durable, agentState>>
  /\ Fault

-----------------------------------------------------------------------------
(* ota::on_boot                                                            *)

OnBootPendingVerify ==
  /\ pc = "on_boot"
  /\ Unconfirmed
  /\ Accounted
  /\ agentState' = "pending_verify"
  /\ GoTo("policy")
  /\ UNCHANGED durable
  /\ NoFault

\* Not accounted for by the staged record: reset for rollback.
OnBootRollback ==
  /\ pc = "on_boot"
  /\ Unconfirmed
  /\ ~Accounted
  /\ Reset
  /\ UNCHANGED durable
  /\ NoFault

\* A confirmed image whose promotion was interrupted: it is completed here.
OnBootPromotes ==
  /\ pc = "on_boot"
  /\ ~Unconfirmed
  /\ Accounted
  /\ active' = staged.image
  /\ staged' = NothingStaged
  /\ agentState' = "running"
  /\ GoTo("policy")
  /\ UNCHANGED <<entry, newest, flash, lifecycle, config, workload>>
  /\ NoFault

\* Mutant of OnBootDegraded: the record is dropped with the failed promotion.
OnBootDegradedDrops ==
  /\ pc = "on_boot"
  /\ ~Unconfirmed
  /\ Accounted
  /\ staged' = NothingStaged
  /\ agentState' = "degraded"
  /\ GoTo("policy")
  /\ UNCHANGED <<entry, newest, flash, active, lifecycle, config, workload>>
  /\ Fault

\* The promotion fails again: the record is kept for the next boot.
OnBootDegraded ==
  /\ pc = "on_boot"
  /\ ~Unconfirmed
  /\ Accounted
  /\ agentState' = "degraded"
  /\ GoTo("policy")
  /\ UNCHANGED durable
  /\ Fault

\* A record that names the other slot is a rolled back or never completed
\* activation; whether it is kept is IOBEWI OTA's choice.
OnBootStable ==
  /\ pc = "on_boot"
  /\ ~Unconfirmed
  /\ ~Accounted
  /\ staged' \in IF staged.stage = "activating" THEN {staged, NothingStaged}
                                                ELSE {staged}
  /\ agentState' = "running"
  /\ GoTo("policy")
  /\ UNCHANGED <<entry, newest, flash, active, lifecycle, config, workload>>
  /\ NoFault

-----------------------------------------------------------------------------
(* The application policy of bin/main.rs                                   *)

\* Mutant of FitToStay: no Dual-OTA guard.
FitWithoutWorkload == PrerequisitesOk /\ LifecycleAllowsAgent

FitToStay == PrerequisitesOk /\ CanRunActiveWorkload /\ LifecycleAllowsAgent

\* Mutant of RejectPending: the image is armed for one more try.
RejectPendingRetries ==
  /\ entry' = [entry EXCEPT ![running] = "new"]
  /\ Reset
  /\ UNCHANGED <<newest, flash, staged, active, lifecycle, config, workload>>

\* Mutant of RejectPending: the slot to return to is the one marked.
RejectPendingMarksOther ==
  /\ entry' = [s \in Slots |-> IF s = running THEN entry[s] ELSE "invalid"]
  /\ Reset
  /\ UNCHANGED <<newest, flash, staged, active, lifecycle, config, workload>>

\* reject_pending ignores whether the entry could be marked, then resets.
RejectPending ==
  /\ entry' \in {entry, [entry EXCEPT ![running] = "invalid"]}
  /\ Reset
  /\ UNCHANGED <<newest, flash, staged, active, lifecycle, config, workload>>

PolicyRejects ==
  /\ pc = "policy"
  /\ Unconfirmed
  /\ ~FitToStay
  /\ RejectPending
  /\ NoFault

\* Workload metadata that cannot be read are no active Workload to the guard
\* (workload.rs:107-109).
PolicyAcceptsUnreadWorkload ==
  /\ pc = "policy"
  /\ Unconfirmed
  /\ PrerequisitesOk /\ LifecycleAllowsAgent /\ ~CanRunActiveWorkload
  /\ GoTo("confirm")
  /\ faults < MaxFaults
  /\ faults' = faults + 1
  /\ unguarded' = TRUE
  /\ UNCHANGED <<durable, agentState, cuts>>

\* A prerequisite that cannot be read counts as missing: an unconfirmed
\* image is rejected for it, a confirmed one panics for good.  It panics as
\* well, without the state "failed", when the lifecycle cannot be read.
PolicyRejectsOnReadFailure ==
  /\ pc = "policy"
  /\ Unconfirmed
  /\ RejectPending
  /\ Fault

PolicyPanicsOnReadFailure ==
  /\ pc = "policy"
  /\ ~Unconfirmed
  /\ agentState' \in {agentState, "failed"}
  /\ GoTo("hung")
  /\ UNCHANGED durable
  /\ Fault

\* Mutant of PolicyAccepts: Production is entered before the confirmation.
PolicyAcceptsEarly ==
  /\ pc = "policy"
  /\ IF Unconfirmed THEN FitToStay ELSE PrerequisitesOk /\ LifecycleAllowsAgent
  /\ lifecycle' = "production"
  /\ GoTo(IF Unconfirmed THEN "confirm" ELSE "serve")
  /\ UNCHANGED <<entry, newest, flash, staged, active, config, workload, agentState>>
  /\ NoFault

\* The image may stay: confirm it, finish the lifecycle, or serve.  A
\* confirmed image is not asked again whether it runs the active Workload.
PolicyAccepts ==
  /\ pc = "policy"
  /\ IF Unconfirmed THEN FitToStay ELSE PrerequisitesOk /\ LifecycleAllowsAgent
  /\ GoTo(IF Unconfirmed THEN "confirm" ELSE AfterConfirmation)
  /\ UNCHANGED <<durable, agentState>>
  /\ NoFault

-----------------------------------------------------------------------------
(* ota::confirm_pending                                                    *)

\* PendingCheckAction::Reject.
SelfCheckRejects ==
  /\ pc = "confirm"
  /\ Kind[RunningImage] = "faulty"
  /\ RejectPending
  /\ NoFault

\* PendingCheckAction::Reset (the deadline), or Confirmation::ResetRequired.
SelfCheckResets ==
  /\ pc = "confirm"
  /\ Reset
  /\ UNCHANGED durable
  /\ Fault

\* Mutant of ConfirmEntry: the self-check is not waited for.
ConfirmUnchecked ==
  /\ pc = "confirm"
  /\ entry' = [entry EXCEPT ![running] = "valid"]
  /\ GoTo("promote")
  /\ UNCHANGED <<newest, flash, staged, active, lifecycle, config, workload,
                 agentState>>
  /\ NoFault

\* PendingCheckAction::Confirm: the entry becomes Valid first ...
ConfirmEntry ==
  /\ pc = "confirm"
  /\ Kind[RunningImage] # "faulty"
  /\ entry' = [entry EXCEPT ![running] = "valid"]
  /\ GoTo("promote")
  /\ UNCHANGED <<newest, flash, staged, active, lifecycle, config,
                 workload, agentState>>
  /\ NoFault

\* ... then the record is promoted (Confirmation::Valid).
Promote ==
  /\ pc = "promote"
  /\ active' = staged.image
  /\ staged' = NothingStaged
  /\ agentState' = "running"
  /\ GoTo(AfterConfirmation)
  /\ UNCHANGED <<entry, newest, flash, lifecycle, config, workload>>
  /\ NoFault

\* Confirmation::Degraded: the record is kept, the image stays.
PromoteFails ==
  /\ pc = "promote"
  /\ agentState' = "degraded"
  /\ GoTo(AfterConfirmation)
  /\ UNCHANGED durable
  /\ Fault

\* ota::production.
EnterProduction ==
  /\ pc = "production"
  /\ lifecycle' = "production"
  /\ GoTo("serve")
  /\ UNCHANGED <<entry, newest, flash, staged, active, config, workload,
                 agentState>>
  /\ NoFault

EnterProductionFails ==
  /\ pc = "production"
  /\ GoTo("hung")
  /\ UNCHANGED <<durable, agentState>>
  /\ Fault

\* The hardware watchdog armed at the start of the boot.
WatchdogReset ==
  /\ pc = "frozen"
  /\ Reset
  /\ UNCHANGED durable
  /\ NoFault

AgentStep ==
  \/ FaultyFreezes \/ WatchdogReset
  \/ OnBootPendingVerify \/ OnBootRollback \/ OnBootPromotes \/ OnBootStable
  \/ PolicyRejects \/ PolicyAccepts
  \/ SelfCheckRejects \/ ConfirmEntry \/ Promote \/ EnterProduction

AgentFault ==
  \/ BootPanics \/ OnBootDegraded
  \/ PolicyRejectsOnReadFailure \/ PolicyPanicsOnReadFailure
  \/ PolicyAcceptsUnreadWorkload
  \/ SelfCheckResets \/ PromoteFails \/ EnterProductionFails
==============================================================================
