------------------------------ MODULE OtaService ------------------------------
(***************************************************************************)
(* The firmware update service of the running agent (composition/ota.rs    *)
(* over http/api.rs): an upload session into the slot that is not running, *)
(* the staged record it publishes, the activation of that record, and the  *)
(* one-shot delayed reboot (esp_reboot.rs).  One connection is served at a *)
(* time, so a request runs to its end before the next one; the reboot task *)
(* and a power cut may strike between any two durable writes of it.        *)
(*                                                                         *)
(* The portable services (upload::begin/chunk/finish, activate_staged) are *)
(* outside this repository: each is modelled by the durable writes its     *)
(* callers and scripts/test-api.sh rely on.                                *)
(***************************************************************************)
EXTENDS DeviceState

\* shared_flash::write_target: never the slot that is running.
WriteTarget == OtherSlot(running)

\* Mutant of Begin: the record of the slot about to change is left standing.
BeginKeepsRecord(image) ==
  /\ pc = "serve"
  /\ session' = [state |-> "open", image |-> image]
  /\ UNCHANGED <<durable, pc, running, agentState, todo, reboot>>
  /\ NoFault

\* A begin supersedes the staged record before a byte of the slot changes
\* (scripts/test-api.sh:152-158), then opens a session for the new image.
Begin(image) ==
  /\ pc = "serve"
  /\ staged' = NothingStaged
  /\ session' = [state |-> "open", image |-> image]
  /\ UNCHANGED <<entry, newest, flash, active, lifecycle, config,
                 workload, pc, running, agentState, todo, reboot>>
  /\ NoFault

\* A chunk that is not the last: the slot now holds neither image.
Chunk ==
  /\ pc = "serve"
  /\ session.state = "open"
  /\ flash' = [flash EXCEPT ![WriteTarget] = Torn]
  /\ session' = [session EXCEPT !.state = "writing"]
  /\ UNCHANGED <<entry, newest, staged, active, lifecycle, config,
                 workload, pc, running, agentState, todo, reboot>>
  /\ NoFault

\* The last chunk of the announced image.
LastChunk ==
  /\ pc = "serve"
  /\ session.state = "writing"
  /\ flash' = [flash EXCEPT ![WriteTarget] = session.image]
  /\ session' = [session EXCEPT !.state = "complete"]
  /\ UNCHANGED <<entry, newest, staged, active, lifecycle, config,
                 workload, pc, running, agentState, todo, reboot>>
  /\ NoFault

\* The digest read back is the announced one: the record is published.
Finish ==
  /\ pc = "serve"
  /\ session.state = "complete"
  /\ staged' = [stage |-> "written", slot |-> WriteTarget, image |-> session.image]
  /\ session' = NoSession
  /\ UNCHANGED <<entry, newest, flash, active, lifecycle, config,
                 workload, pc, running, agentState, todo, reboot>>
  /\ NoFault

\* DigestMismatch, or the flash backend fails: the session ends, unpublished.
FinishRefused ==
  /\ pc = "serve"
  /\ session.state = "writing"
  /\ session' = NoSession
  /\ UNCHANGED <<durable, pc, running, agentState, todo, reboot>>
  /\ NoFault

\* The image is whole but the record cannot be written (FinishError::Storage).
FinishStorageFails ==
  /\ pc = "serve"
  /\ session.state = "complete"
  /\ session' = NoSession
  /\ UNCHANGED <<durable, pc, running, agentState, todo, reboot>>
  /\ Fault

-----------------------------------------------------------------------------
(* activate_staged, called by the agent's POST /ota/activate and by the    *)
(* provisioning form.  It makes two durable writes: the record becomes     *)
(* "activating" and the entry of the staged slot becomes New.  Their order *)
(* is not visible in this repository, so both are allowed.                 *)

\* Mutant of CanActivate: neither guard.
CanActivateAnything(image) == image \in Images

\* NotStaged and DeploymentMismatch are the guards; both leave the state.
CanActivate(image) == staged.stage = "written" /\ staged.image = image

StartActivation ==
  /\ pc' = "activate"
  /\ todo' = {"record", "entry"}
  /\ UNCHANGED <<running, agentState, session, reboot>>

Activate(image) ==
  /\ pc = "serve"
  /\ CanActivate(image)
  /\ StartActivation
  /\ UNCHANGED durable
  /\ NoFault

MarkActivating ==
  /\ pc = "activate"
  /\ "record" \in todo
  /\ staged' = [staged EXCEPT !.stage = "activating"]
  /\ todo' = todo \ {"record"}
  /\ UNCHANGED <<entry, newest, flash, active, lifecycle, config,
                 workload, pc, running, agentState, session, reboot>>
  /\ NoFault

ArmEntry ==
  /\ pc = "activate"
  /\ "entry" \in todo
  /\ entry' = [entry EXCEPT ![staged.slot] = "new"]
  /\ newest' = staged.slot
  /\ todo' = todo \ {"entry"}
  /\ UNCHANGED <<flash, staged, active, lifecycle, config, workload, pc, running,
                 agentState, session, reboot>>
  /\ NoFault

\* Where the request returns to: the agent's API or the provisioning page.
Idle == IF flash[running] = InitImage THEN "provision" ELSE "serve"

\* ActivateFailure::Storage: no reboot is scheduled.
ActivateFails ==
  /\ pc = "activate"
  /\ todo # {}
  /\ pc' = Idle
  /\ todo' = {}
  /\ UNCHANGED <<durable, running, agentState, session, reboot>>
  /\ Fault

\* Both writes are done: schedule_reboot, a no-op if it was called before.
ActivateDone ==
  /\ pc = "activate"
  /\ todo = {}
  /\ pc' = Idle
  /\ reboot' = TRUE
  /\ UNCHANGED <<durable, running, agentState, session, todo>>
  /\ NoFault

\* POST /v1alpha1/reboot.
RequestReboot ==
  /\ pc = "serve"
  /\ ~reboot
  /\ reboot' = TRUE
  /\ UNCHANGED <<durable, pc, running, agentState, session, todo>>
  /\ NoFault

\* The Workload OTA service activates only what the running agent's runtime
\* API satisfies; its own transaction is external and not modelled here.
ActivateWorkload(w) ==
  /\ pc = "serve"
  /\ w \in Runs[flash[running]]
  /\ workload # w
  /\ workload' = w
  /\ UNCHANGED <<entry, newest, flash, staged, active, lifecycle, config, volatile>>
  /\ NoFault

\* reboot_after_delay: 500 ms later the RTC watchdog resets the chip,
\* whatever the request being served has already written.
DelayedReboot ==
  /\ reboot
  /\ Reset
  /\ UNCHANGED durable
  /\ NoFault

\* What an operator or the Core sends; nothing obliges them to.
OtaRequest ==
  \/ \E image \in Images : Begin(image) \/ Activate(image)
  \/ Chunk \/ LastChunk \/ Finish \/ FinishRefused
  \/ RequestReboot
  \/ \E w \in Workloads : ActivateWorkload(w)

\* What the device does on its own.
OtaStep == MarkActivating \/ ArmEntry \/ ActivateDone \/ DelayedReboot

OtaFault == FinishStorageFails \/ ActivateFails
===============================================================================
