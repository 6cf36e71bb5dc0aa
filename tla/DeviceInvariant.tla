--------------------------- MODULE DeviceInvariant ---------------------------
(***************************************************************************)
(* The inductive invariant of Device, as a conjunction of named parts: why *)
(* the safety properties of Device hold.  DeviceProofs proves it for every *)
(* value of the constants.                                                 *)
(***************************************************************************)
EXTENDS Device

InitImageSteps == InitSteps \cup FormSteps \cup {"provision"}
AgentImageSteps == AgentBootSteps \cup {"serve", "frozen"}

\* A record that is present names a slot and an image.
RecordsAreWhole ==
  /\ staged.stage # "none" => staged.slot \in Slots /\ staged.image \in Images
  /\ session.state # "none" => session.image \in Images

\* An open session is alone: nothing is staged while the slot it writes
\* changes, and it has verified what that slot holds before it publishes it.
SessionOwnsTarget ==
  session.state # "none" =>
    /\ pc = "serve"
    /\ staged.stage = "none"
    /\ session.state = "complete" => flash[WriteTarget] = session.image

\* An activation under way works on a published record.
ActivationIsStaged ==
  /\ pc = "activate" => staged.stage \in {"written", "activating"}
  /\ "record" \in todo => pc = "activate" /\ staged.stage = "written"

\* The boot entries always leave an image to fall back to ...
FallbackIsTrusted ==
  \/ Trusted(FallbackSlot)
  \/ BlankOtaData /\ newest = "ota_1" /\ flash["ota_0"] = InitImage

\* ... which the image that runs is, unless it is the newest, unconfirmed;
\* only the first steps of an agent's boot may run unconfirmed.
RunningIsKnown ==
  IF pc = "bootloader" THEN running = NoSlot
  ELSE /\ running \in Slots
       /\ Bootable(flash[running])
       /\ \/ running = FallbackSlot /\ entry[running] = "valid"
          \/ /\ running = newest /\ entry[running] = "pending"
             /\ pc \in {"on_boot", "policy", "confirm", "frozen"}

\* Only the newest entry is tried, and it is pending only while its image runs
\* or until the bootloader gives it up.
OnlyNewestIsTried ==
  \A s \in Slots :
    /\ entry[s] \in {"new", "pending"} => s = newest
    /\ entry[s] = "pending" => pc = "bootloader" \/ running = s

\* The slot that is written and published is never the one to fall back to.
FallbackIsNotStaged ==
  /\ staged.stage = "written" => staged.slot # FallbackSlot
  /\ pc = "activate" => staged.slot # FallbackSlot

\* The init image is neither armed nor confirmed, and only it provisions.
InitImageIsApart ==
  /\ \A s \in Slots : entry[s] \in {"new", "pending"} => flash[s] # InitImage
  /\ pc \in InitImageSteps => flash[running] = InitImage
  /\ pc \in AgentImageSteps => flash[running] # InitImage
  /\ lifecycle = "production" => flash[FallbackSlot] # InitImage

\* The image to fall back to starts and passes its self-check.
FallbackIsSound ==
  flash[FallbackSlot] # InitImage => Kind[flash[FallbackSlot]] = "good"

\* Only a running service schedules a reboot, and nothing survives it.
RebootIsScheduled ==
  reboot => pc \in {"serve", "provision", "activate"} \cup FormSteps

\* What each step of a boot relies on.
BootProgress ==
  /\ pc = "policy" =>
       IF Unconfirmed THEN Accounted ELSE agentState \in {"running", "degraded"}
  /\ pc = "confirm" =>
       /\ Unconfirmed /\ Accounted
       /\ PrerequisitesOk /\ (CanRunActiveWorkload \/ unguarded)
  /\ pc = "promote" => Accounted
  /\ pc \in {"confirm", "promote", "production"} => LifecycleAllowsAgent
  /\ pc = "production" => lifecycle = "ready_for_agent"
  /\ pc \in {"production", "serve", "activate", "hung"} =>
       agentState \notin {"pending_verify", "rollback"}
  /\ (pc = "bootloader" \/ flash[running] = InitImage) => agentState = "booting"

\* What each step of the provisioning form has already saved.
FormProgress ==
  /\ (pc # "bootloader" /\ flash[running] = InitImage) =>
       pc \in InitSteps \cup {"hung"} \/ "tls" \in config
  /\ pc \in FormSteps => "wifi" \in config
  /\ pc \in FormSteps \ {"form_hardware"} => "hardware" \in config
  /\ pc \in FormSteps \ {"form_hardware", "form_identity"} => "identity" \in config
  /\ pc \in {"form_ready", "form_activate"} => CanActivate(FactoryAgent)

\* An agent is the image to fall back to only once the lifecycle allows one.
FallbackIsAllowed == flash[FallbackSlot] # InitImage => LifecycleAllowsAgent

\* The image to fall back to runs the active Workload.
FallbackRunsWorkload ==
  unguarded \/ workload = NoWorkload \/ workload \in Runs[flash[FallbackSlot]]

\* The inductive invariant: updates, then boots, then commissioning.
UpdateInvariant ==
  /\ RecordsAreWhole
  /\ SessionOwnsTarget
  /\ ActivationIsStaged
  /\ StagedIsIntact

BootInvariant ==
  /\ FallbackIsTrusted
  /\ RunningIsKnown
  /\ OnlyNewestIsTried
  /\ FallbackIsNotStaged
  /\ InitImageIsApart
  /\ FallbackIsSound
  /\ RebootIsScheduled

LifecycleInvariant ==
  /\ BootProgress
  /\ FormProgress
  /\ ReadyIsProvisioned
  /\ FallbackIsAllowed
  /\ FallbackRunsWorkload

DeviceInv == TypeOK /\ UpdateInvariant /\ BootInvariant /\ LifecycleInvariant
===============================================================================
