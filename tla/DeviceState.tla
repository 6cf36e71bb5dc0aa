----------------------------- MODULE DeviceState -----------------------------
(***************************************************************************)
(* The state shared by every part of an Embewi device: two firmware slots, *)
(* the boot entries that choose between them, the NVS objects of the       *)
(* agent, and the volatile control state of the one image that runs.       *)
(*                                                                         *)
(* The modules that extend this one add the steps: Bootloader (external),  *)
(* InitBoot (bin/init.rs and the provisioning page), AgentBoot             *)
(* (bin/main.rs and ota.rs), OtaService (the running agent).               *)
(***************************************************************************)
EXTENDS Naturals

CONSTANTS
  Images,       \* the agent images an operator may upload
  FactoryAgent, \* the agent image flashed in ota_1 at the factory
  InitImage,    \* the provisioning image flashed in ota_0 at the factory
  Kind,         \* what an image does when the device runs it
  Workloads,    \* the Workloads an operator may activate
  NoWorkload,   \* the absence of an active Workload
  Runs,         \* the Workloads each image's runtime API satisfies
  NoImage,      \* the absence of an image
  Torn,         \* the content of a slot that is partly overwritten
  NoSlot,       \* the absence of a slot
  MaxFaults,    \* bound: transient failures (NVS, flash, self-check)
  MaxPowerCuts  \* bound: power cuts

\* "good": starts and passes its self-check. "faulty": starts, then freezes
\* or fails its self-check. "unbootable": refused by the bootloader.
Kinds == {"good", "faulty", "unbootable"}

ASSUME ImagesAssumption ==
  /\ FactoryAgent \in Images
  /\ InitImage \notin Images
  /\ NoImage \notin Images \cup {InitImage}
  /\ Torn \notin Images \cup {InitImage}
  /\ Kind \in [Images -> Kinds]
  /\ NoWorkload \notin Workloads
  /\ Runs \in [Images -> SUBSET Workloads]

ASSUME BoundsAssumption == MaxFaults \in Nat /\ MaxPowerCuts \in Nat

Slots == {"ota_0", "ota_1"}
OtherSlot(s) == IF s = "ota_0" THEN "ota_1" ELSE "ota_0"

ASSUME SlotAssumption == NoSlot \notin Slots

VARIABLES
  \* durable
  entry,      \* the otadata entry of each slot
  newest,     \* the slot of the entry with the highest sequence number
  flash,      \* what each slot holds
  staged,     \* the staged record of the OTA metadata object
  active,     \* the image whose digest the OTA metadata names as active
  lifecycle,  \* the bootstrap lifecycle object
  config,     \* the prerequisites that are durably configured
  workload,   \* the active Workload (OTM2 metadata)
  \* volatile
  pc,         \* where the running code is
  running,    \* the slot the bootloader jumped to
  agentState, \* agent::STATE
  session,    \* the upload session (OTA_UPLOAD)
  todo,       \* the durable writes an activation has still to do
  reboot,     \* whether reboot_after_delay has been spawned
  \* environment, and a history variable: the Dual-OTA guard once answered
  \* for Workload metadata it could not read
  faults, cuts, unguarded

durable == <<entry, newest, flash, staged, active, lifecycle, config,
             workload>>
volatile == <<pc, running, agentState, session, todo, reboot>>
vars == <<entry, newest, flash, staged, active, lifecycle, config,
          workload, pc, running, agentState, session, todo, reboot,
          faults, cuts, unguarded>>

EntryStates == {"blank", "new", "pending", "valid", "invalid", "aborted"}
Lifecycles == {"factory", "provisioning", "ready_for_agent", "production"}
Prerequisites == {"wifi", "tls", "hardware", "identity"}
AgentStates ==
  {"booting", "pending_verify", "running", "degraded", "rollback", "failed"}

StagedRecords ==
  [stage : {"none", "written", "activating"},
   slot  : Slots \cup {NoSlot},
   image : Images \cup {NoImage}]

NothingStaged == [stage |-> "none", slot |-> NoSlot, image |-> NoImage]

Sessions ==
  [state : {"none", "open", "writing", "complete"},
   image : Images \cup {NoImage}]

NoSession == [state |-> "none", image |-> NoImage]

\* The steps of bin/main.rs before the agent serves.
AgentBootSteps == {"on_boot", "policy", "confirm", "promote", "production"}
\* The steps of bin/init.rs before Improv is served, and of its HTTP form.
InitSteps == {"init_lifecycle", "init_tls"}
FormSteps ==
  {"form_hardware", "form_identity", "form_stage", "form_ready", "form_activate"}

Steps ==
  {"bootloader"} \cup AgentBootSteps \cup InitSteps \cup FormSteps
  \cup {"provision", "serve", "activate", "frozen", "hung"}

DurableTypeOK ==
  /\ entry \in [Slots -> EntryStates]
  /\ newest \in Slots
  /\ flash \in [Slots -> Images \cup {InitImage, Torn}]
  /\ staged \in StagedRecords
  /\ active \in Images \cup {NoImage}
  /\ lifecycle \in Lifecycles
  /\ config \in SUBSET Prerequisites
  /\ workload \in Workloads \cup {NoWorkload}

VolatileTypeOK ==
  /\ pc \in Steps
  /\ running \in Slots \cup {NoSlot}
  /\ agentState \in AgentStates
  /\ session \in Sessions
  /\ todo \in SUBSET {"record", "entry"}
  /\ reboot \in BOOLEAN

MishapTypeOK ==
  /\ faults \in 0..MaxFaults
  /\ cuts \in 0..MaxPowerCuts
  /\ unguarded \in BOOLEAN

TypeOK == DurableTypeOK /\ VolatileTypeOK /\ MishapTypeOK

-----------------------------------------------------------------------------
(* What the steps share.                                                   *)

Bootable(content) ==
  content = InitImage \/ (content \in Images /\ Kind[content] # "unbootable")

\* bin/main.rs:308-312, "prerequisites_ok".
PrerequisitesOk == config = Prerequisites

\* The running image has not been confirmed yet (BootDisposition::PendingVerify).
Unconfirmed == entry[running] = "pending"

\* The running code goes on to its next step.
GoTo(step) ==
  /\ pc' = step
  /\ UNCHANGED <<running, session, todo, reboot>>

\* A reset: every volatile variable returns to its start-up value.
Reset ==
  /\ pc' = "bootloader"
  /\ running' = NoSlot
  /\ agentState' = "booting"
  /\ session' = NoSession
  /\ todo' = {}
  /\ reboot' = FALSE

\* A transient failure happens in this step.
Fault ==
  /\ faults < MaxFaults
  /\ faults' = faults + 1
  /\ UNCHANGED <<cuts, unguarded>>

NoFault == UNCHANGED <<faults, cuts, unguarded>>
==============================================================================
