-------------------------------- MODULE Device --------------------------------
(***************************************************************************)
(* A whole Embewi device, from the factory to a fleet of firmware updates: *)
(* the bootloader, the init image, the agent's boot and its update         *)
(* service, with power cuts and transient failures at every step.          *)
(***************************************************************************)
EXTENDS Bootloader, InitBoot, AgentBoot

\* As flashed at the factory: otadata is blank, the init image is in ota_0
\* and the first agent is preloaded in ota_1, or was not preloaded properly
\* (newest means nothing yet).
Init ==
  /\ entry = [s \in Slots |-> "blank"]
  /\ newest = "ota_1"
  /\ \E preloaded \in {FactoryAgent, Torn} :
       flash = [s \in Slots |-> IF s = "ota_0" THEN InitImage ELSE preloaded]
  /\ staged = NothingStaged
  /\ active = NoImage
  /\ lifecycle = "factory"
  /\ config = {}
  /\ workload = NoWorkload
  /\ pc = "bootloader"
  /\ running = NoSlot
  /\ agentState = "booting"
  /\ session = NoSession
  /\ todo = {}
  /\ reboot = FALSE
  /\ faults = 0
  /\ cuts = 0
  /\ unguarded = FALSE

\* The power may fail between any two durable writes.
PowerCut ==
  /\ cuts < MaxPowerCuts
  /\ cuts' = cuts + 1
  /\ pc # "bootloader"
  /\ Reset
  /\ UNCHANGED <<durable, faults, unguarded>>

\* The slots whose otadata entry is being rewritten at this point.
EntryBeingWritten ==
  CASE pc = "bootloader" /\ entry[newest] \in {"new", "pending"} -> {newest}
    [] pc \in {"policy", "confirm"} /\ Unconfirmed -> {running}
    [] pc = "activate" /\ "entry" \in todo -> {staged.slot}
    [] OTHER -> {}

\* A power cut in such a write leaves an entry without its commit word,
\* which the bootloader ignores as if it were blank.
PowerCutTearsEntry ==
  /\ cuts < MaxPowerCuts
  /\ cuts' = cuts + 1
  /\ \E s \in EntryBeingWritten : entry' = [entry EXCEPT ![s] = "blank"]
  /\ Reset
  /\ UNCHANGED <<newest, flash, staged, active, lifecycle, config,
                 workload, faults,
                 unguarded>>

\* An operator power-cycles a device that hangs.
PowerCycle ==
  /\ pc = "hung"
  /\ Reset
  /\ UNCHANGED durable
  /\ NoFault

DeviceStep == BootloaderStep \/ InitStep \/ AgentStep \/ OtaStep
Request == InitRequest \/ OtaRequest \/ PowerCycle
Mishap == InitFault \/ AgentFault \/ OtaFault \/ PowerCut \/ PowerCutTearsEntry

Next == DeviceStep \/ Request \/ Mishap

Spec == Init /\ [][Next]_vars

\* The code that runs keeps running, and the RTC watchdog that DelayedReboot
\* arms fires whatever the code does.  Operators and mishaps are not fair.
Fairness == WF_vars(DeviceStep) /\ WF_vars(DelayedReboot)

FairSpec == Spec /\ Fairness

-----------------------------------------------------------------------------
(* What must never happen.                                                 *)

\* The staged record never names an image the slot does not hold intact:
\* a candidate is superseded before a byte of its slot changes
\* (scripts/test-api.sh:152-158), through crashes, retries and rollbacks.
StagedIsIntact == staged.stage # "none" => flash[staged.slot] = staged.image

\* Whatever is interrupted, some slot can be booted without confirmation.
NeverBricked ==
  \/ \E s \in Slots : Trusted(s)
  \/ BlankOtaData /\ flash["ota_0"] = InitImage

\* bin/init.rs:139: the init image never runs in Production, even when an
\* update is rolled back or an entry is lost.
InitNeverInProduction ==
  pc \in InitSteps \cup FormSteps \cup {"provision"} => lifecycle # "production"

\* An agent past ReadyForAgent finds its four prerequisites, so it never
\* panics for one that is really missing.
ReadyIsProvisioned ==
  lifecycle \in {"ready_for_agent", "production"} => PrerequisitesOk

\* An unconfirmed image neither serves, whatever /info and the heartbeat
\* would say of it, nor hangs for good: the watchdog covers all of its boot.
OnlyConfirmedStays ==
  pc \in {"serve", "activate", "hung"} =>
    entry[running] = "valid" /\ agentState \notin {"pending_verify", "rollback"}

\* Dual OTA: the agent that serves runs the active Workload, over any
\* sequence of updates and rollbacks of either, unless the guard once
\* answered for metadata it could not read.
AgentRunsItsWorkload ==
  (pc = "serve" /\ ~unguarded) => CanRunActiveWorkload

\* An image becomes trusted only when it runs, its digest was verified for
\* an activation that names it, it can run the active Workload, its
\* self-check passed and the device is provisioned.
TrustedOnlyWhenFit ==
  [][\A s \in Slots :
       (entry[s] = "pending" /\ entry'[s] = "valid") =>
          /\ running = s
          /\ staged = [stage |-> "activating", slot |-> s, image |-> flash[s]]
          /\ Kind[flash[s]] = "good"
          /\ CanRunActiveWorkload \/ unguarded
          /\ PrerequisitesOk
          /\ LifecycleAllowsAgent]_vars

\* main.rs:322-323: "a new Agent that cannot satisfy the Workload that is
\* active must not be confirmed".  It may be: the guard answers true when it
\* cannot read which Workload is active (workload.rs:107-109).
NewAgentRunsWorkload ==
  [][\A s \in Slots :
       (entry[s] = "pending" /\ entry'[s] = "valid") =>
          CanRunActiveWorkload]_vars

\* The active digest changes only to that of the confirmed running image.
ActiveIsConfirmed ==
  [][active' # active =>
       /\ entry[running] = "valid"
       /\ active' = flash[running]]_vars

\* ota.rs:146-150: the promotion a confirmed image is owed is kept until it
\* is done, unless a new upload supersedes it.
PromotionIsKept ==
  [][\A s \in Slots :
       (/\ staged.stage = "activating" /\ staged.slot = s
        /\ entry[s] = "valid" /\ newest = s
        /\ staged' # staged) =>
          active' = staged.image \/ session'.state = "open"]_vars

\* The device implements AtomicUpdate: what it falls back to is always an
\* intact image, and changes only when a staged, sound image is confirmed.
Update == INSTANCE AtomicUpdate WITH
  Firmware  <- Images \cup {InitImage},
  Sound     <- {image \in Images : Kind[image] = "good"},
  NoOffer   <- NoImage,
  installed <- flash[FallbackSlot],
  offered   <- staged.image

UpdatesAreAtomic == Update!Spec

-----------------------------------------------------------------------------
(* What must eventually happen.                                            *)

\* No image stays unconfirmed: it is confirmed or given up.
PendingIsResolved ==
  \A s \in Slots : entry[s] = "pending" ~> entry[s] # "pending"

\* Every boot ends: the device serves, awaits its operator, or hangs on a
\* confirmed image; a rejected update does not leave it in a reboot loop.
BootSettles == pc = "bootloader" ~> pc \in {"serve", "provision", "hung"}

\* A form whose reboot is scheduled ends in Production, if the factory agent
\* is good: unless something fails, or the form is posted again and the
\* scheduled reboot cuts that second post short after it staged the image.
CommissioningCompletes ==
  (reboot /\ pc = "provision" /\ Kind[FactoryAgent] = "good") ~>
     \/ lifecycle = "production"
     \/ faults + cuts > 0
     \/ pc = "bootloader" /\ staged.stage = "written"

===============================================================================
