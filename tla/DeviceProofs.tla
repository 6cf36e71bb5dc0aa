----------------------------- MODULE DeviceProofs -----------------------------
(***************************************************************************)
(* Safety of Device for every set of images and Workloads, every runtime   *)
(* compatibility between them, and any number of power cuts and transient  *)
(* failures.  DeviceInv (DeviceInvariant.tla) is inductive: one lemma per  *)
(* layer says that no step disturbs it, the layers above being assumed.    *)
(***************************************************************************)
EXTENDS DeviceInvariant, TLAPS

USE ImagesAssumption, BoundsAssumption, SlotAssumption
USE DEF Slots, OtherSlot, EntryStates, Lifecycles, Prerequisites, AgentStates,
        StagedRecords, NothingStaged, Sessions, NoSession, AgentBootSteps,
        InitSteps, FormSteps, Steps, vars, durable, volatile, GoTo, Fault,
        NoFault, TypeOK

\* A reset gives every volatile variable a value of its type.
LEMMA ResetTyped == Reset => VolatileTypeOK'
<1> SUFFICES ASSUME Reset PROVE VolatileTypeOK'
  OBVIOUS
<1>1. (session \in Sessions)'
  BY DEF Reset
<1>2. (todo \in SUBSET {"record", "entry"})'
  BY DEF Reset
<1> QED
  BY <1>1, <1>2 DEF Reset, VolatileTypeOK

\* A staged record is determined by its three fields.
LEMMA StagedRecord ==
  ASSUME staged \in StagedRecords
  PROVE  staged = [stage |-> staged.stage, slot |-> staged.slot,
                   image |-> staged.image]
OBVIOUS

\* A configuration with the four prerequisites is complete.
LEMMA AllPrerequisites ==
  ASSUME config \in SUBSET Prerequisites,
         "wifi" \in config, "tls" \in config, "hardware" \in config,
         "identity" \in config
  PROVE  PrerequisitesOk
BY DEF PrerequisitesOk

\* A torn write concerns an entry of the device.
LEMMA EntryBeingWrittenTyped ==
  ASSUME TypeOK, UpdateInvariant, RunningIsKnown
  PROVE  EntryBeingWritten \subseteq Slots
BY DEF EntryBeingWritten, DurableTypeOK, VolatileTypeOK, UpdateInvariant,
       RecordsAreWhole, ActivationIsStaged, RunningIsKnown, Bootable,
       FallbackSlot

-----------------------------------------------------------------------------
(* The four layers of the invariant.                                       *)

\* Every step of the device keeps its variables in their types.
LEMMA TypeStep ==
  ASSUME DeviceInv, Next
  PROVE  TypeOK'
<1> USE DEF DurableTypeOK, VolatileTypeOK, MishapTypeOK, DeviceInv, WriteTarget,
            UpdateInvariant, RecordsAreWhole, ActivationIsStaged, BootInvariant
<1>1. CASE BootloaderStep
  <2>1. CASE BootBlank
    BY <2>1 DEF BootBlank, Jump
  <2>2. CASE BootNew
    BY <2>2 DEF BootNew, Jump
  <2>3. CASE RefuseNew
    BY <2>3 DEF RefuseNew
  <2>4. CASE AbortPending
    BY <2>4 DEF AbortPending
  <2>5. CASE BootTrusted
    BY <2>5 DEF BootTrusted, Jump, FallbackSlot
  <2> QED
    BY <1>1, <2>1, <2>2, <2>3, <2>4, <2>5 DEF BootloaderStep
<1>2. CASE InitStep
  <2>1. CASE InitLifecycle
    BY <2>1 DEF InitLifecycle
  <2>2. CASE InitTlsIdentity
    BY <2>2 DEF InitTlsIdentity
  <2>3. CASE SaveHardware
    BY <2>3 DEF SaveHardware
  <2>4. CASE SaveIdentity
    BY <2>4 DEF SaveIdentity
  <2>5. CASE StagePreloaded
    BY <2>5 DEF StagePreloaded
  <2>6. CASE StagePreloadedRefused
    BY <2>6 DEF StagePreloadedRefused
  <2>7. CASE ReadyForAgent
    BY <2>7 DEF ReadyForAgent
  <2>8. CASE FormActivate
    BY <2>8 DEF FormActivate, CanActivate, StartActivation
  <2> QED
    BY <1>2, <2>1, <2>2, <2>3, <2>4, <2>5, <2>6, <2>7, <2>8 DEF InitStep
<1>3. CASE InitRequest
  <2>1. CASE ImprovWifi
    BY <2>1 DEF ImprovWifi
  <2>2. CASE PostForm
    BY <2>2 DEF PostForm
  <2> QED
    BY <1>3, <2>1, <2>2 DEF InitRequest
<1>4. CASE InitFault
  <2>1. CASE InitPanics
    BY <2>1 DEF InitPanics
  <2>2. CASE FormFails
    BY <2>2 DEF FormFails
  <2> QED
    BY <1>4, <2>1, <2>2 DEF InitFault
<1>5. CASE AgentStep
  <2>1. CASE FaultyFreezes
    BY <2>1 DEF FaultyFreezes, Freezes
  <2>2. CASE WatchdogReset
    BY <2>2, ResetTyped DEF WatchdogReset
  <2>3. CASE OnBootPendingVerify
    BY <2>3 DEF OnBootPendingVerify
  <2>4. CASE OnBootRollback
    BY <2>4, ResetTyped DEF OnBootRollback
  <2>5. CASE OnBootPromotes
    BY <2>5 DEF OnBootPromotes
  <2>6. CASE OnBootStable
    BY <2>6 DEF OnBootStable
  <2>7. CASE PolicyRejects
    BY <2>7, ResetTyped DEF PolicyRejects, RejectPending
  <2>8. CASE PolicyAccepts
    BY <2>8 DEF PolicyAccepts, AfterConfirmation
  <2>9. CASE SelfCheckRejects
    BY <2>9, ResetTyped DEF SelfCheckRejects, RejectPending
  <2>10. CASE ConfirmEntry
    <3>1. DurableTypeOK'
      BY <2>10 DEF ConfirmEntry
    <3>2. VolatileTypeOK' /\ MishapTypeOK'
      BY <2>10 DEF ConfirmEntry
    <3> QED
      BY <3>1, <3>2
  <2>11. CASE Promote
    BY <2>11 DEF Promote, AfterConfirmation
  <2>12. CASE EnterProduction
    BY <2>12 DEF EnterProduction
  <2> QED
    BY <1>5, <2>1, <2>2, <2>3, <2>4, <2>5, <2>6, <2>7, <2>8, <2>9, <2>10, <2>11,
       <2>12 DEF AgentStep
<1>6. CASE AgentFault
  <2>1. CASE BootPanics
    BY <2>1 DEF BootPanics, Freezes
  <2>2. CASE OnBootDegraded
    BY <2>2 DEF OnBootDegraded
  <2>3. CASE PolicyRejectsOnReadFailure
    BY <2>3, ResetTyped DEF PolicyRejectsOnReadFailure, RejectPending
  <2>4. CASE PolicyPanicsOnReadFailure
    BY <2>4 DEF PolicyPanicsOnReadFailure
  <2>5. CASE PolicyAcceptsUnreadWorkload
    BY <2>5 DEF PolicyAcceptsUnreadWorkload
  <2>6. CASE SelfCheckResets
    BY <2>6, ResetTyped DEF SelfCheckResets
  <2>7. CASE PromoteFails
    BY <2>7 DEF PromoteFails, AfterConfirmation
  <2>8. CASE EnterProductionFails
    BY <2>8 DEF EnterProductionFails
  <2> QED
    BY <1>6, <2>1, <2>2, <2>3, <2>4, <2>5, <2>6, <2>7, <2>8 DEF AgentFault
<1>7. CASE OtaRequest
  <2>1. CASE \E image \in Images : Begin(image)
    BY <2>1 DEF Begin
  <2>2. CASE \E image \in Images : Activate(image)
    BY <2>2 DEF Activate, CanActivate, StartActivation
  <2>3. CASE Chunk
    BY <2>3 DEF Chunk
  <2>4. CASE LastChunk
    BY <2>4 DEF LastChunk
  <2>5. CASE Finish
    BY <2>5 DEF Finish
  <2>6. CASE FinishRefused
    BY <2>6 DEF FinishRefused
  <2>7. CASE RequestReboot
    BY <2>7 DEF RequestReboot
  <2>8. CASE \E w \in Workloads : ActivateWorkload(w)
    BY <2>8 DEF ActivateWorkload
  <2> QED
    BY <1>7, <2>1, <2>2, <2>3, <2>4, <2>5, <2>6, <2>7, <2>8 DEF OtaRequest
<1>8. CASE OtaStep
  <2>1. CASE MarkActivating
    BY <2>1 DEF MarkActivating
  <2>2. CASE ArmEntry
    BY <2>2 DEF ArmEntry
  <2>3. CASE ActivateDone
    BY <2>3 DEF ActivateDone, Idle
  <2>4. CASE DelayedReboot
    BY <2>4, ResetTyped DEF DelayedReboot
  <2> QED
    BY <1>8, <2>1, <2>2, <2>3, <2>4 DEF OtaStep
<1>9. CASE OtaFault
  <2>1. CASE FinishStorageFails
    BY <2>1 DEF FinishStorageFails
  <2>2. CASE ActivateFails
    BY <2>2 DEF ActivateFails, Idle
  <2> QED
    BY <1>9, <2>1, <2>2 DEF OtaFault
<1>10. CASE PowerCut
  BY <1>10, ResetTyped DEF PowerCut
<1>11. CASE PowerCutTearsEntry
  <2>1. PICK s \in Slots : entry' = [entry EXCEPT ![s] = "blank"]
    BY <1>11, EntryBeingWrittenTyped DEF PowerCutTearsEntry
  <2>2. DurableTypeOK'
    BY <1>11, <2>1 DEF PowerCutTearsEntry
  <2>3. VolatileTypeOK' /\ MishapTypeOK'
    BY <1>11, ResetTyped DEF PowerCutTearsEntry
  <2> QED
    BY <2>2, <2>3
<1>12. CASE PowerCycle
  BY <1>12, ResetTyped DEF PowerCycle
<1> QED
  BY <1>1, <1>2, <1>3, <1>4, <1>5, <1>6, <1>7, <1>8, <1>9, <1>10, <1>11, <1>12
  DEF Next, DeviceStep, Request, Mishap

\* Every step keeps the staged record and the upload session consistent with
\* each other and with the flash.
LEMMA UpdateStep ==
  ASSUME DeviceInv, Next
  PROVE  UpdateInvariant'
<1> USE DEF DeviceInv, DurableTypeOK, VolatileTypeOK, UpdateInvariant,
            RecordsAreWhole, SessionOwnsTarget, ActivationIsStaged,
            StagedIsIntact, WriteTarget, Reset
<1>1. CASE BootloaderStep
  BY <1>1 DEF BootloaderStep, BootBlank, Jump, BootNew, RefuseNew, AbortPending,
     BootTrusted, FallbackSlot
<1>2. CASE InitStep
  BY <1>2 DEF InitStep, InitLifecycle, InitTlsIdentity, SaveHardware,
     SaveIdentity, StagePreloaded, StagePreloadedRefused, ReadyForAgent,
     FormActivate, CanActivate, StartActivation
<1>3. CASE InitRequest
  BY <1>3 DEF InitRequest, ImprovWifi, PostForm
<1>4. CASE InitFault
  BY <1>4 DEF InitFault, InitPanics, FormFails
<1>5. CASE AgentStep
  BY <1>5 DEF AgentStep, FaultyFreezes, Freezes, WatchdogReset,
     OnBootPendingVerify, OnBootRollback, OnBootPromotes, OnBootStable,
     PolicyRejects, RejectPending, PolicyAccepts, AfterConfirmation,
     SelfCheckRejects, ConfirmEntry, Promote, EnterProduction
<1>6. CASE AgentFault
  BY <1>6 DEF AgentFault, BootPanics, Freezes, OnBootDegraded,
     PolicyRejectsOnReadFailure, RejectPending, PolicyPanicsOnReadFailure,
     PolicyAcceptsUnreadWorkload, SelfCheckResets, PromoteFails,
     AfterConfirmation, EnterProductionFails
<1>7. CASE OtaRequest
  BY <1>7 DEF OtaRequest, Begin, Activate, CanActivate, StartActivation, Chunk,
     LastChunk, Finish, FinishRefused, RequestReboot, ActivateWorkload
<1>8. CASE OtaStep
  BY <1>8 DEF OtaStep, MarkActivating, ArmEntry, ActivateDone, Idle,
     DelayedReboot
<1>9. CASE OtaFault
  BY <1>9 DEF OtaFault, FinishStorageFails, ActivateFails, Idle
<1>10. CASE PowerCut \/ PowerCycle
  BY <1>10 DEF PowerCut, PowerCycle
<1>11. CASE PowerCutTearsEntry
  BY <1>11 DEF PowerCutTearsEntry
<1> QED
  BY <1>1, <1>2, <1>3, <1>4, <1>5, <1>6, <1>7, <1>8, <1>9, <1>10, <1>11
  DEF Next, DeviceStep, Request, Mishap

\* Every step keeps an image to fall back to, and the image that runs known.
LEMMA BootStep ==
  ASSUME DeviceInv, Next
  PROVE  BootInvariant'
<1> USE DEF DeviceInv, DurableTypeOK, VolatileTypeOK, UpdateInvariant,
            RecordsAreWhole, SessionOwnsTarget, ActivationIsStaged,
            StagedIsIntact, WriteTarget, BootInvariant, FallbackIsTrusted,
            RunningIsKnown, FallbackIsNotStaged, InitImageIsApart,
            FallbackSlot, Trusted, Bootable, BlankOtaData, Kinds,
            InitImageSteps, AgentImageSteps, Unconfirmed, LifecycleInvariant,
            BootProgress, FormProgress, ReadyIsProvisioned, Accounted,
            FitToStay, LifecycleAllowsAgent, RunningImage, Reset,
            FallbackIsSound, RebootIsScheduled, OnlyNewestIsTried
<1>1. CASE BootloaderStep
  BY <1>1 DEF BootloaderStep, BootBlank, Jump, BootNew, RefuseNew, AbortPending,
     BootTrusted, FallbackSlot
<1>2. CASE InitStep
  BY <1>2 DEF InitStep, InitLifecycle, InitTlsIdentity, SaveHardware,
     SaveIdentity, StagePreloaded, StagePreloadedRefused, ReadyForAgent,
     FormActivate, CanActivate, StartActivation
<1>3. CASE InitRequest
  BY <1>3 DEF InitRequest, ImprovWifi, PostForm
<1>4. CASE InitFault
  BY <1>4 DEF InitFault, InitPanics, FormFails
<1>5. CASE AgentStep
  BY <1>5 DEF AgentStep, FaultyFreezes, Freezes, WatchdogReset,
     OnBootPendingVerify, OnBootRollback, OnBootPromotes, OnBootStable,
     PolicyRejects, RejectPending, PolicyAccepts, AfterConfirmation,
     SelfCheckRejects, ConfirmEntry, Promote, EnterProduction
<1>6. CASE AgentFault
  BY <1>6 DEF AgentFault, BootPanics, Freezes, OnBootDegraded,
     PolicyRejectsOnReadFailure, RejectPending, PolicyPanicsOnReadFailure,
     PolicyAcceptsUnreadWorkload, SelfCheckResets, PromoteFails,
     AfterConfirmation, EnterProductionFails
<1>7. CASE OtaRequest
  BY <1>7 DEF OtaRequest, Begin, Activate, CanActivate, StartActivation, Chunk,
     LastChunk, Finish, FinishRefused, RequestReboot, ActivateWorkload
<1>8. CASE OtaStep
  BY <1>8 DEF OtaStep, MarkActivating, ArmEntry, ActivateDone, Idle,
     DelayedReboot
<1>9. CASE OtaFault
  BY <1>9 DEF OtaFault, FinishStorageFails, ActivateFails, Idle
<1>10. CASE PowerCut \/ PowerCycle
  BY <1>10 DEF PowerCut, PowerCycle
<1>11. CASE PowerCutTearsEntry
  <2>1. PICK s \in EntryBeingWritten : entry' = [entry EXCEPT ![s] = "blank"]
    BY <1>11 DEF PowerCutTearsEntry
  <2> QED
    BY <1>11, <2>1 DEF PowerCutTearsEntry, EntryBeingWritten
<1> QED
  BY <1>1, <1>2, <1>3, <1>4, <1>5, <1>6, <1>7, <1>8, <1>9, <1>10, <1>11
  DEF Next, DeviceStep, Request, Mishap

\* Every step keeps what the next steps of a boot or of the form rely on.
LEMMA LifecycleStep ==
  ASSUME DeviceInv, Next
  PROVE  LifecycleInvariant'
<1> USE DEF DeviceInv, DurableTypeOK, VolatileTypeOK, UpdateInvariant,
            RecordsAreWhole, SessionOwnsTarget, ActivationIsStaged,
            StagedIsIntact, WriteTarget, BootInvariant, FallbackIsTrusted, RunningIsKnown, FallbackIsNotStaged,
            InitImageIsApart, FallbackSlot, Trusted, Bootable, BlankOtaData,
            Kinds, InitImageSteps, AgentImageSteps, Unconfirmed,
            LifecycleInvariant, BootProgress, FormProgress,
            ReadyIsProvisioned, Accounted, FitToStay, PrerequisitesOk,
            LifecycleAllowsAgent, CanRunActiveWorkload, RunningImage, Reset,
            FallbackRunsWorkload, FallbackIsAllowed, CanActivate
<1>1. CASE BootloaderStep
  BY <1>1 DEF BootloaderStep, BootBlank, Jump, BootNew, RefuseNew, AbortPending,
     BootTrusted, FallbackSlot
<1>2. CASE InitStep
  <2>1. CASE ReadyForAgent
    <3>1. PrerequisitesOk
      BY <2>1, AllPrerequisites DEF ReadyForAgent
    <3>2. BootProgress'
      BY <2>1 DEF ReadyForAgent
    <3>3. FormProgress'
      BY <2>1 DEF ReadyForAgent
    <3> QED
      BY <2>1, <3>1, <3>2, <3>3 DEF ReadyForAgent
  <2>2. CASE InitStep /\ ~ReadyForAgent
    BY <2>2 DEF InitStep, InitLifecycle, InitTlsIdentity, SaveHardware,
       SaveIdentity, StagePreloaded, StagePreloadedRefused, FormActivate,
       CanActivate, StartActivation
  <2> QED
    BY <1>2, <2>1, <2>2
<1>3. CASE InitRequest
  BY <1>3 DEF InitRequest, ImprovWifi, PostForm
<1>4. CASE InitFault
  BY <1>4 DEF InitFault, InitPanics, FormFails
<1>5. CASE AgentStep
  BY <1>5 DEF AgentStep, FaultyFreezes, Freezes, WatchdogReset,
     OnBootPendingVerify, OnBootRollback, OnBootPromotes, OnBootStable,
     PolicyRejects, RejectPending, PolicyAccepts, AfterConfirmation,
     SelfCheckRejects, ConfirmEntry, Promote, EnterProduction
<1>6. CASE AgentFault
  BY <1>6 DEF AgentFault, BootPanics, Freezes, OnBootDegraded,
     PolicyRejectsOnReadFailure, RejectPending, PolicyPanicsOnReadFailure,
     PolicyAcceptsUnreadWorkload, SelfCheckResets, PromoteFails,
     AfterConfirmation, EnterProductionFails
<1>7. CASE OtaRequest
  BY <1>7 DEF OtaRequest, Begin, Activate, CanActivate, StartActivation, Chunk,
     LastChunk, Finish, FinishRefused, RequestReboot, ActivateWorkload
<1>8. CASE OtaStep
  BY <1>8 DEF OtaStep, MarkActivating, ArmEntry, ActivateDone, Idle,
     DelayedReboot
<1>9. CASE OtaFault
  BY <1>9 DEF OtaFault, FinishStorageFails, ActivateFails, Idle
<1>10. CASE PowerCut \/ PowerCycle
  BY <1>10 DEF PowerCut, PowerCycle
<1>11. CASE PowerCutTearsEntry
  <2>1. PICK s \in EntryBeingWritten : entry' = [entry EXCEPT ![s] = "blank"]
    BY <1>11 DEF PowerCutTearsEntry
  <2> QED
    BY <1>11, <2>1 DEF PowerCutTearsEntry, EntryBeingWritten
<1> QED
  BY <1>1, <1>2, <1>3, <1>4, <1>5, <1>6, <1>7, <1>8, <1>9, <1>10, <1>11
  DEF Next, DeviceStep, Request, Mishap

-----------------------------------------------------------------------------
(* The theorems.                                                           *)

\* The factory state satisfies the invariant.
LEMMA InitInv == Init => DeviceInv
<1> SUFFICES ASSUME Init PROVE DeviceInv
  OBVIOUS
<1>1. DurableTypeOK
  BY DEF Init, DurableTypeOK
<1>2. VolatileTypeOK
  BY DEF Init, VolatileTypeOK
<1>3. MishapTypeOK
  <2>1. faults \in 0..MaxFaults /\ cuts \in 0..MaxPowerCuts
    BY DEF Init
  <2>2. unguarded \in BOOLEAN
    BY DEF Init
  <2> QED
    BY <2>1, <2>2 DEF MishapTypeOK
<1>4. UpdateInvariant
  BY DEF Init, UpdateInvariant, RecordsAreWhole, SessionOwnsTarget,
         ActivationIsStaged, StagedIsIntact
<1>5. BootInvariant
  BY DEF Init, BootInvariant, FallbackIsTrusted, RunningIsKnown,
         FallbackIsNotStaged, InitImageIsApart, BlankOtaData, InitImageSteps,
         AgentImageSteps, FallbackIsSound, RebootIsScheduled, OnlyNewestIsTried, FallbackSlot
<1>6. LifecycleInvariant
  BY DEF Init, LifecycleInvariant, BootProgress, FormProgress,
         ReadyIsProvisioned, InitImageSteps, FallbackRunsWorkload,
         FallbackIsAllowed, FallbackSlot
<1> QED
  BY <1>1, <1>2, <1>3, <1>4, <1>5, <1>6 DEF DeviceInv

\* A stuttering step changes nothing the invariant is about.
LEMMA StutterInv == DeviceInv /\ UNCHANGED vars => DeviceInv'
BY DEF DeviceInv, DurableTypeOK, VolatileTypeOK, MishapTypeOK, UpdateInvariant,
       RecordsAreWhole, SessionOwnsTarget, ActivationIsStaged, StagedIsIntact,
       WriteTarget, BootInvariant, FallbackIsTrusted, RunningIsKnown,
       FallbackIsNotStaged, InitImageIsApart, FallbackSlot, Trusted, Bootable,
       BlankOtaData, InitImageSteps, AgentImageSteps, Unconfirmed,
       LifecycleInvariant, BootProgress, FormProgress, ReadyIsProvisioned,
       Accounted, PrerequisitesOk, LifecycleAllowsAgent, CanRunActiveWorkload,
       RunningImage, FallbackRunsWorkload, FallbackIsSound, RebootIsScheduled, OnlyNewestIsTried,
       FallbackIsAllowed, CanActivate

\* The invariant holds of every device at all times.
THEOREM DeviceInvariance == Spec => []DeviceInv
<1>1. DeviceInv /\ [Next]_vars => DeviceInv'
  BY TypeStep, UpdateStep, BootStep, LifecycleStep, StutterInv DEF DeviceInv
<1> QED
  BY <1>1, InitInv, PTL DEF Spec

\* Type correctness.
THEOREM TypeCorrect == Spec => []TypeOK
<1>1. DeviceInv => TypeOK
  BY DEF DeviceInv
<1> QED
  BY <1>1, DeviceInvariance, PTL

\* The staged record never names an image its slot does not hold intact.
THEOREM StagedAlwaysIntact == Spec => []StagedIsIntact
<1>1. DeviceInv => StagedIsIntact
  BY DEF DeviceInv, UpdateInvariant
<1> QED
  BY <1>1, DeviceInvariance, PTL

\* Some slot can always be booted without confirmation.
THEOREM DeviceNeverBricked == Spec => []NeverBricked
<1>1. DeviceInv => NeverBricked
  BY DEF DeviceInv, DurableTypeOK, BootInvariant, FallbackIsTrusted,
         NeverBricked, FallbackSlot
<1> QED
  BY <1>1, DeviceInvariance, PTL

\* The init image never runs in the Production lifecycle.
THEOREM InitIsNeverInProduction == Spec => []InitNeverInProduction
<1>1. DeviceInv => InitNeverInProduction
  BY DEF DeviceInv, BootInvariant, RunningIsKnown, InitImageIsApart,
         InitNeverInProduction, InitImageSteps
<1> QED
  BY <1>1, DeviceInvariance, PTL

\* A device past ReadyForAgent has its four prerequisites.
THEOREM ReadyIsAlwaysProvisioned == Spec => []ReadyIsProvisioned
<1>1. DeviceInv => ReadyIsProvisioned
  BY DEF DeviceInv, LifecycleInvariant
<1> QED
  BY <1>1, DeviceInvariance, PTL

\* Only a confirmed image serves or is left hanging.
THEOREM OnlyConfirmedImagesStay == Spec => []OnlyConfirmedStays
<1>1. DeviceInv => OnlyConfirmedStays
  BY DEF DeviceInv, BootInvariant, RunningIsKnown, LifecycleInvariant,
         BootProgress, OnlyConfirmedStays
<1> QED
  BY <1>1, DeviceInvariance, PTL

\* The agent that serves runs the active Workload, unless the Dual-OTA guard
\* once answered for metadata it could not read.
THEOREM AgentAlwaysRunsItsWorkload == Spec => []AgentRunsItsWorkload
<1>1. DeviceInv => AgentRunsItsWorkload
  BY DEF DeviceInv, BootInvariant, RunningIsKnown, LifecycleInvariant,
         FallbackRunsWorkload, AgentRunsItsWorkload, CanRunActiveWorkload,
         RunningImage
<1> QED
  BY <1>1, DeviceInvariance, PTL

-----------------------------------------------------------------------------
(* Action properties: they hold of every step from a state of DeviceInv.   *)

\* The active digest changes only to that of the confirmed running image.
THEOREM ActiveIsAlwaysConfirmed == Spec => ActiveIsConfirmed
<1> DEFINE Confirmed == active' # active =>
                          entry[running] = "valid" /\ active' = flash[running]
<1>1. ASSUME DeviceInv, [Next]_vars
      PROVE  Confirmed
  <2> USE <1>1 DEF DeviceInv, DurableTypeOK, UpdateInvariant, RecordsAreWhole,
                   StagedIsIntact, BootInvariant, RunningIsKnown,
                   LifecycleInvariant, BootProgress, Accounted, Unconfirmed
  <2>1. CASE BootloaderStep
    BY <2>1 DEF BootloaderStep, BootBlank, Jump, BootNew, RefuseNew,
       AbortPending, BootTrusted, FallbackSlot
  <2>2. CASE InitStep
    BY <2>2 DEF InitStep, InitLifecycle, InitTlsIdentity, SaveHardware,
       SaveIdentity, StagePreloaded, StagePreloadedRefused, ReadyForAgent,
       FormActivate, CanActivate, StartActivation
  <2>3. CASE InitRequest
    BY <2>3 DEF InitRequest, ImprovWifi, PostForm
  <2>4. CASE InitFault
    BY <2>4 DEF InitFault, InitPanics, FormFails
  <2>5. CASE AgentStep
    BY <2>5 DEF AgentStep, FaultyFreezes, Freezes, WatchdogReset,
       OnBootPendingVerify, OnBootRollback, OnBootPromotes, OnBootStable,
       PolicyRejects, RejectPending, PolicyAccepts, AfterConfirmation,
       SelfCheckRejects, ConfirmEntry, Promote, EnterProduction
  <2>6. CASE AgentFault
    BY <2>6 DEF AgentFault, BootPanics, Freezes, OnBootDegraded,
       PolicyRejectsOnReadFailure, RejectPending, PolicyPanicsOnReadFailure,
       PolicyAcceptsUnreadWorkload, SelfCheckResets, PromoteFails,
       AfterConfirmation, EnterProductionFails
  <2>7. CASE OtaRequest
    BY <2>7 DEF OtaRequest, Begin, Activate, CanActivate, StartActivation,
       Chunk, LastChunk, Finish, FinishRefused, RequestReboot, ActivateWorkload
  <2>8. CASE OtaStep
    BY <2>8 DEF OtaStep, MarkActivating, ArmEntry, ActivateDone, Idle,
       DelayedReboot
  <2>9. CASE OtaFault
    BY <2>9 DEF OtaFault, FinishStorageFails, ActivateFails, Idle
  <2>10. CASE PowerCut \/ PowerCutTearsEntry \/ PowerCycle
    BY <2>10 DEF PowerCut, PowerCutTearsEntry, PowerCycle
  <2> QED
    BY <2>1, <2>2, <2>3, <2>4, <2>5, <2>6, <2>7, <2>8, <2>9, <2>10
    DEF Next, DeviceStep, Request, Mishap
<1> QED
  BY <1>1, DeviceInvariance, PTL DEF Spec, ActiveIsConfirmed

\* A slot becomes trusted only while it runs, staged, sound, able to run the
\* active Workload, on a provisioned device.
THEOREM TrustedAlwaysWhenFit == Spec => TrustedOnlyWhenFit
<1> DEFINE Fit == 
         \A s \in Slots :
           (entry[s] = "pending" /\ entry'[s] = "valid") =>
              /\ running = s
              /\ staged = [stage |-> "activating", slot |-> s,
                           image |-> flash[s]]
              /\ Kind[flash[s]] = "good"
              /\ CanRunActiveWorkload \/ unguarded
              /\ PrerequisitesOk
              /\ LifecycleAllowsAgent
<1>1. ASSUME DeviceInv, [Next]_vars
      PROVE  Fit
  <2> USE <1>1 DEF DeviceInv, DurableTypeOK, VolatileTypeOK, UpdateInvariant,
              RecordsAreWhole, SessionOwnsTarget, ActivationIsStaged,
              StagedIsIntact, BootInvariant, FallbackIsTrusted,
              RunningIsKnown, FallbackIsNotStaged, InitImageIsApart, Trusted,
              FallbackSlot, InitImageSteps, AgentImageSteps,
              LifecycleInvariant, BootProgress, Accounted, Unconfirmed,
              WriteTarget, Reset, BlankOtaData, Bootable, Kinds
  <2>1. CASE BootloaderStep
    <3>1. CASE BootBlank
      BY <3>1 DEF BootBlank, Jump
    <3>2. CASE BootNew
      BY <3>2 DEF BootNew, Jump
    <3>3. CASE RefuseNew
      BY <3>3 DEF RefuseNew
    <3>4. CASE AbortPending
      BY <3>4 DEF AbortPending
    <3>5. CASE BootTrusted
      BY <3>5 DEF BootTrusted, Jump, FallbackSlot
    <3> QED
      BY <2>1, <3>1, <3>2, <3>3, <3>4, <3>5 DEF BootloaderStep
  <2>2. CASE InitStep
    BY <2>2 DEF InitStep, InitLifecycle, InitTlsIdentity, SaveHardware,
       SaveIdentity, StagePreloaded, StagePreloadedRefused, ReadyForAgent,
       FormActivate, CanActivate, StartActivation
  <2>3. CASE InitRequest
    BY <2>3 DEF InitRequest, ImprovWifi, PostForm
  <2>4. CASE InitFault
    BY <2>4 DEF InitFault, InitPanics, FormFails
  <2>5. CASE AgentStep
    <3>1. CASE FaultyFreezes
      BY <3>1 DEF FaultyFreezes, Freezes
    <3>2. CASE WatchdogReset
      BY <3>2 DEF WatchdogReset
    <3>3. CASE OnBootPendingVerify
      BY <3>3 DEF OnBootPendingVerify
    <3>4. CASE OnBootRollback
      BY <3>4 DEF OnBootRollback
    <3>5. CASE OnBootPromotes
      BY <3>5 DEF OnBootPromotes
    <3>6. CASE OnBootStable
      BY <3>6 DEF OnBootStable
    <3>7. CASE PolicyRejects
      BY <3>7 DEF PolicyRejects, RejectPending
    <3>8. CASE PolicyAccepts
      BY <3>8 DEF PolicyAccepts, AfterConfirmation
    <3>9. CASE SelfCheckRejects
      BY <3>9 DEF SelfCheckRejects, RejectPending
    <3>10. CASE ConfirmEntry
      <4>1. staged = [stage |-> "activating", slot |-> running,
                      image |-> flash[running]]
        BY <3>10, StagedRecord DEF ConfirmEntry
      <4>2. flash[running] \in Images /\ Kind[flash[running]] \in Kinds
        BY <3>10 DEF ConfirmEntry
      <4>3. Kind[flash[running]] = "good"
        BY <3>10, <4>2 DEF ConfirmEntry, RunningImage
      <4>4. \A s \in Slots :
              (entry[s] = "pending" /\ entry'[s] = "valid") => s = running
        BY <3>10 DEF ConfirmEntry
      <4> QED
        BY <3>10, <4>1, <4>3, <4>4 DEF ConfirmEntry
    <3>11. CASE Promote
      BY <3>11 DEF Promote, AfterConfirmation
    <3>12. CASE EnterProduction
      BY <3>12 DEF EnterProduction
    <3> QED
      BY <2>5, <3>1, <3>2, <3>3, <3>4, <3>5, <3>6, <3>7, <3>8, <3>9, <3>10,
         <3>11, <3>12 DEF AgentStep
  <2>6. CASE AgentFault
    BY <2>6 DEF AgentFault, BootPanics, Freezes, OnBootDegraded,
       PolicyRejectsOnReadFailure, RejectPending, PolicyPanicsOnReadFailure,
       PolicyAcceptsUnreadWorkload, SelfCheckResets, PromoteFails,
       AfterConfirmation, EnterProductionFails
  <2>7. CASE OtaRequest
    BY <2>7 DEF OtaRequest, Begin, Activate, CanActivate, StartActivation,
       Chunk, LastChunk, Finish, FinishRefused, RequestReboot, ActivateWorkload
  <2>8. CASE OtaStep
    BY <2>8 DEF OtaStep, MarkActivating, ArmEntry, ActivateDone, Idle,
       DelayedReboot
  <2>9. CASE OtaFault
    BY <2>9 DEF OtaFault, FinishStorageFails, ActivateFails, Idle
  <2>10. CASE PowerCut \/ PowerCutTearsEntry \/ PowerCycle
    BY <2>10 DEF PowerCut, PowerCutTearsEntry, PowerCycle
  <2> QED
    BY <2>1, <2>2, <2>3, <2>4, <2>5, <2>6, <2>7, <2>8, <2>9, <2>10
    DEF Next, DeviceStep, Request, Mishap
<1> QED
  BY <1>1, DeviceInvariance, PTL DEF Spec, TrustedOnlyWhenFit

\* The promotion owed to a confirmed image is kept until it is done, or a new
\* upload supersedes it.
THEOREM PromotionIsAlwaysKept == Spec => PromotionIsKept
<1> DEFINE Kept == 
         \A s \in Slots :
           (/\ staged.stage = "activating" /\ staged.slot = s
            /\ entry[s] = "valid" /\ newest = s
            /\ staged' # staged) =>
              active' = staged.image \/ session'.state = "open"
<1>1. ASSUME DeviceInv, [Next]_vars
      PROVE  Kept
  <2> USE <1>1 DEF DeviceInv, DurableTypeOK, VolatileTypeOK, UpdateInvariant,
              RecordsAreWhole, SessionOwnsTarget, ActivationIsStaged,
              StagedIsIntact, BootInvariant, FallbackIsTrusted,
              RunningIsKnown, FallbackIsNotStaged, InitImageIsApart, Trusted,
              FallbackSlot, InitImageSteps, AgentImageSteps,
              LifecycleInvariant, BootProgress, Accounted, Unconfirmed,
              WriteTarget, Reset, BlankOtaData
  <2>1. CASE BootloaderStep
    BY <2>1 DEF BootloaderStep, BootBlank, Jump, BootNew, RefuseNew,
       AbortPending, BootTrusted, FallbackSlot
  <2>2. CASE InitStep
    BY <2>2 DEF InitStep, InitLifecycle, InitTlsIdentity, SaveHardware,
       SaveIdentity, StagePreloaded, StagePreloadedRefused, ReadyForAgent,
       FormActivate, CanActivate, StartActivation
  <2>3. CASE InitRequest
    BY <2>3 DEF InitRequest, ImprovWifi, PostForm
  <2>4. CASE InitFault
    BY <2>4 DEF InitFault, InitPanics, FormFails
  <2>5. CASE AgentStep
    BY <2>5 DEF AgentStep, FaultyFreezes, Freezes, WatchdogReset,
       OnBootPendingVerify, OnBootRollback, OnBootPromotes, OnBootStable,
       PolicyRejects, RejectPending, PolicyAccepts, AfterConfirmation,
       SelfCheckRejects, ConfirmEntry, Promote, EnterProduction
  <2>6. CASE AgentFault
    BY <2>6 DEF AgentFault, BootPanics, Freezes, OnBootDegraded,
       PolicyRejectsOnReadFailure, RejectPending, PolicyPanicsOnReadFailure,
       PolicyAcceptsUnreadWorkload, SelfCheckResets, PromoteFails,
       AfterConfirmation, EnterProductionFails
  <2>7. CASE OtaRequest
    BY <2>7 DEF OtaRequest, Begin, Activate, CanActivate, StartActivation,
       Chunk, LastChunk, Finish, FinishRefused, RequestReboot, ActivateWorkload
  <2>8. CASE OtaStep
    BY <2>8 DEF OtaStep, MarkActivating, ArmEntry, ActivateDone, Idle,
       DelayedReboot
  <2>9. CASE OtaFault
    BY <2>9 DEF OtaFault, FinishStorageFails, ActivateFails, Idle
  <2>10. CASE PowerCut \/ PowerCutTearsEntry \/ PowerCycle
    BY <2>10 DEF PowerCut, PowerCutTearsEntry, PowerCycle
  <2> QED
    BY <2>1, <2>2, <2>3, <2>4, <2>5, <2>6, <2>7, <2>8, <2>9, <2>10
    DEF Next, DeviceStep, Request, Mishap
<1> QED
  BY <1>1, DeviceInvariance, PTL DEF Spec, PromotionIsKept

-----------------------------------------------------------------------------
(* The device implements AtomicUpdate.                                     *)

\* The initial states map to initial states, every step to a step or a stutter.
THEOREM UpdatesAreAlwaysAtomic == Spec => UpdatesAreAtomic
<1>1. Init => Update!Init
  BY DEF Init, Update!Init, FallbackSlot
<1>2. ASSUME DeviceInv, [Next]_vars
      PROVE  [Update!Next]_<<flash[FallbackSlot], staged.image>>
  <2> USE <1>2 DEF DeviceInv, DurableTypeOK, VolatileTypeOK, UpdateInvariant,
              RecordsAreWhole, SessionOwnsTarget, ActivationIsStaged,
              StagedIsIntact, BootInvariant, FallbackIsTrusted,
              RunningIsKnown, FallbackIsNotStaged, InitImageIsApart, Trusted,
              FallbackSlot, InitImageSteps, AgentImageSteps,
              LifecycleInvariant, BootProgress, Accounted, Unconfirmed,
              WriteTarget, Reset, BlankOtaData, Bootable, Kinds,
              Update!Next, Update!Offer, Update!Withdraw, Update!Install
  <2>1. CASE BootloaderStep
    <3>1. CASE BootBlank
      BY <3>1 DEF BootBlank, Jump
    <3>2. CASE BootNew
      BY <3>2 DEF BootNew, Jump
    <3>3. CASE RefuseNew
      BY <3>3 DEF RefuseNew
    <3>4. CASE AbortPending
      BY <3>4 DEF AbortPending
    <3>5. CASE BootTrusted
      BY <3>5 DEF BootTrusted, Jump, FallbackSlot
    <3> QED
      BY <2>1, <3>1, <3>2, <3>3, <3>4, <3>5 DEF BootloaderStep
  <2>2. CASE InitStep
    BY <2>2 DEF InitStep, InitLifecycle, InitTlsIdentity, SaveHardware,
       SaveIdentity, StagePreloaded, StagePreloadedRefused, ReadyForAgent,
       FormActivate, CanActivate, StartActivation
  <2>3. CASE InitRequest
    BY <2>3 DEF InitRequest, ImprovWifi, PostForm
  <2>4. CASE InitFault
    BY <2>4 DEF InitFault, InitPanics, FormFails
  <2>5. CASE AgentStep
    <3>1. CASE FaultyFreezes
      BY <3>1 DEF FaultyFreezes, Freezes
    <3>2. CASE WatchdogReset
      BY <3>2 DEF WatchdogReset
    <3>3. CASE OnBootPendingVerify
      BY <3>3 DEF OnBootPendingVerify
    <3>4. CASE OnBootRollback
      BY <3>4 DEF OnBootRollback
    <3>5. CASE OnBootPromotes
      BY <3>5 DEF OnBootPromotes
    <3>6. CASE OnBootStable
      BY <3>6 DEF OnBootStable
    <3>7. CASE PolicyRejects
      BY <3>7 DEF PolicyRejects, RejectPending
    <3>8. CASE PolicyAccepts
      BY <3>8 DEF PolicyAccepts, AfterConfirmation
    <3>9. CASE SelfCheckRejects
      BY <3>9 DEF SelfCheckRejects, RejectPending
    <3>10. CASE ConfirmEntry
      <4>1. flash[running] \in Images /\ Kind[flash[running]] \in Kinds
        BY <3>10 DEF ConfirmEntry
      <4>2. Kind[flash[running]] = "good"
        BY <3>10, <4>1 DEF ConfirmEntry, RunningImage
      <4>3. staged.image = flash[running]
        BY <3>10 DEF ConfirmEntry
      <4>4. flash[FallbackSlot]' = flash[running]
        BY <3>10 DEF ConfirmEntry
      <4>5. UNCHANGED staged.image
        BY <3>10 DEF ConfirmEntry
      <4> QED
        BY <4>1, <4>2, <4>3, <4>4, <4>5
    <3>11. CASE Promote
      BY <3>11 DEF Promote, AfterConfirmation
    <3>12. CASE EnterProduction
      BY <3>12 DEF EnterProduction
    <3> QED
      BY <2>5, <3>1, <3>2, <3>3, <3>4, <3>5, <3>6, <3>7, <3>8, <3>9, <3>10,
         <3>11, <3>12 DEF AgentStep
  <2>6. CASE AgentFault
    BY <2>6 DEF AgentFault, BootPanics, Freezes, OnBootDegraded,
       PolicyRejectsOnReadFailure, RejectPending, PolicyPanicsOnReadFailure,
       PolicyAcceptsUnreadWorkload, SelfCheckResets, PromoteFails,
       AfterConfirmation, EnterProductionFails
  <2>7. CASE OtaRequest
    BY <2>7 DEF OtaRequest, Begin, Activate, CanActivate, StartActivation,
       Chunk, LastChunk, Finish, FinishRefused, RequestReboot, ActivateWorkload
  <2>8. CASE OtaStep
    BY <2>8 DEF OtaStep, MarkActivating, ArmEntry, ActivateDone, Idle,
       DelayedReboot
  <2>9. CASE OtaFault
    BY <2>9 DEF OtaFault, FinishStorageFails, ActivateFails, Idle
  <2>10. CASE PowerCut \/ PowerCycle
    BY <2>10 DEF PowerCut, PowerCycle
  <2>11. CASE PowerCutTearsEntry
    <3>1. PICK s \in EntryBeingWritten : entry' = [entry EXCEPT ![s] = "blank"]
      BY <2>11 DEF PowerCutTearsEntry
    <3>2. entry[s] # "valid" \/ s # FallbackSlot
      BY <3>1 DEF EntryBeingWritten
    <3>3. FallbackSlot' = FallbackSlot
      BY <2>11, <3>1, <3>2 DEF PowerCutTearsEntry, EntryBeingWritten
    <3> QED
      BY <2>11, <3>3 DEF PowerCutTearsEntry
  <2> QED
    BY <2>1, <2>2, <2>3, <2>4, <2>5, <2>6, <2>7, <2>8, <2>9, <2>10, <2>11
    DEF Next, DeviceStep, Request, Mishap
<1> QED
  BY <1>1, <1>2, DeviceInvariance, PTL DEF Spec, UpdatesAreAtomic, Update!Spec
===============================================================================
