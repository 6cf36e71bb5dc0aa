------------------------- MODULE DeviceSettlingProofs -------------------------
(***************************************************************************)
(* A device left to itself comes to rest, for every set of images and      *)
(* Workloads and any number of mishaps: DeviceSettling's bound decreases   *)
(* at each of its steps, and a step is due until it rests.  After a form   *)
(* has scheduled its reboot, it comes to rest in Production.               *)
(***************************************************************************)
EXTENDS DeviceSettling, DeviceProofs

USE ImagesAssumption, BoundsAssumption, SlotAssumption
USE DEF Slots, OtherSlot, InitSteps, FormSteps, GoTo, NoFault

\* The bound is a natural number no greater than MostSteps.
LEMMA StepsAreBounded == ASSUME TypeOK PROVE StepsBounded
<1>1. StepsOfBootloader \in {4, 5, 10}
  BY DEF StepsOfBootloader
<1>2. StepsUnconfirmed \in {6, 7, 8, 9}
  BY DEF StepsUnconfirmed
<1>3. StepsTrusted \in {0, 1, 2, 3, 11}
  BY DEF StepsTrusted
<1>4. StepsOfService \in {0, 11, 12, 13, 14, 15, 16, 17, 18, 19}
  BY DEF StepsOfService
<1> QED
  BY <1>1, <1>2, <1>3, <1>4 DEF StepsBounded, StepsLeft, MostSteps

\* Each step of the device lowers the bound.
LEMMA StepSettles ==
  ASSUME DeviceInv, DeviceStep
  PROVE  StepsLeft' < StepsLeft
<1> USE DEF DeviceInv, TypeOK, DurableTypeOK, VolatileTypeOK, UpdateInvariant,
            ActivationIsStaged, BootInvariant, FallbackIsTrusted,
            RunningIsKnown, FallbackIsNotStaged, InitImageIsApart,
            FallbackIsSound, RebootIsScheduled, FallbackSlot, Trusted,
            Bootable, BlankOtaData, InitImageSteps, AgentImageSteps,
            Unconfirmed, LifecycleInvariant, BootProgress, RunningImage, Reset,
            StepsLeft, StepsOfBootloader, StepsUnconfirmed, StepsTrusted,
            StepsOfService, Steps, AgentBootSteps, EntryStates
<1>1. CASE BootloaderStep
  <2>1. CASE BootBlank
    BY <2>1 DEF BootBlank, Jump
  <2>2. CASE BootNew
    BY <2>2 DEF BootNew, Jump
  <2>3. CASE RefuseNew
    BY <2>3 DEF RefuseNew, volatile
  <2>4. CASE AbortPending
    BY <2>4 DEF AbortPending, volatile
  <2>5. CASE BootTrusted
    BY <2>5 DEF BootTrusted, Jump, durable
  <2> QED
    BY <1>1, <2>1, <2>2, <2>3, <2>4, <2>5 DEF BootloaderStep
<1>2. CASE InitStep
  BY <1>2 DEF InitStep, InitLifecycle, InitTlsIdentity, SaveHardware,
     SaveIdentity, StagePreloaded, StagePreloadedRefused, ReadyForAgent,
     FormActivate, StartActivation, durable
<1>3. CASE AgentStep
  <2>1. CASE FaultyFreezes
    BY <2>1 DEF FaultyFreezes, Freezes, durable
  <2>2. CASE WatchdogReset
    BY <2>2 DEF WatchdogReset, durable
  <2>3. CASE OnBootPendingVerify
    BY <2>3 DEF OnBootPendingVerify, durable
  <2>4. CASE OnBootRollback
    BY <2>4 DEF OnBootRollback, durable
  <2>5. CASE OnBootPromotes \/ OnBootStable
    BY <2>5 DEF OnBootPromotes, OnBootStable
  <2>6. CASE PolicyRejects \/ SelfCheckRejects
    BY <2>6 DEF PolicyRejects, SelfCheckRejects, RejectPending
  <2>7. CASE PolicyAccepts
    BY <2>7 DEF PolicyAccepts, AfterConfirmation, durable
  <2>8. CASE ConfirmEntry
    BY <2>8 DEF ConfirmEntry
  <2>9. CASE Promote \/ EnterProduction
    BY <2>9 DEF Promote, EnterProduction, AfterConfirmation
  <2> QED
    BY <1>3, <2>1, <2>2, <2>3, <2>4, <2>5, <2>6, <2>7, <2>8, <2>9 DEF AgentStep
<1>4. CASE OtaStep
  <2>1. CASE MarkActivating
    BY <2>1 DEF MarkActivating
  <2>2. CASE ArmEntry
    BY <2>2 DEF ArmEntry
  <2>3. CASE ActivateDone
    BY <2>3 DEF ActivateDone, Idle
  <2>4. CASE DelayedReboot
    BY <2>4 DEF DelayedReboot, durable
  <2> QED
    BY <1>4, <2>1, <2>2, <2>3, <2>4 DEF OtaStep
<1> QED
  BY <1>1, <1>2, <1>3, <1>4 DEF DeviceStep

\* No boot loop: what the device does on its own comes to an end.
THEOREM DeviceSettles == Spec => EveryStepSettles
<1>1. DeviceInv /\ [Next]_vars => (DeviceStep => StepsLeft' < StepsLeft)
  BY StepSettles
<1> QED
  BY <1>1, DeviceInvariance, PTL DEF Spec, EveryStepSettles

\* The end comes within MostSteps steps of the last request or mishap.
THEOREM StepsAlwaysBounded == Spec => []StepsBounded
<1>1. TypeOK => StepsBounded
  BY StepsAreBounded
<1> QED
  BY <1>1, TypeCorrect, PTL

\* Where it rests, nothing is left to be confirmed.
THEOREM RestIsAlwaysResolved == Spec => []RestIsResolved
<1>1. DeviceInv => RestIsResolved
  BY DEF DeviceInv, BootInvariant, OnlyNewestIsTried, RunningIsKnown,
         RestIsResolved, AtRest
<1> QED
  BY <1>1, DeviceInvariance, PTL

\* The device never stops short of that end: until it is at rest, the guard
\* of one of its steps holds.
THEOREM DeviceNeverStuck == Spec => []StepIsDue
<1>1. ASSUME DeviceInv PROVE StepIsDue
  <2> USE <1>1 DEF DeviceInv, TypeOK, DurableTypeOK, VolatileTypeOK,
              BootInvariant, FallbackIsTrusted, RunningIsKnown,
              InitImageIsApart, LifecycleInvariant, FormProgress,
              ReadyIsProvisioned, FallbackIsAllowed, AgentImageSteps,
              StepIsDue, AtRest, Steps, AgentBootSteps
  <2>1. CASE pc = "bootloader"
    BY <2>1 DEF Bootable
  <2>2. CASE pc = "policy"
    BY <2>2 DEF Unconfirmed, LifecycleAllowsAgent
  <2> QED
    BY <2>1, <2>2
<1> QED
  BY <1>1, DeviceInvariance, PTL

-----------------------------------------------------------------------------
(* Commissioning keeps to its track.                                       *)

\* A mishap is one of the exceptions.
LEMMA MishapsCount ==
  ASSUME DeviceInv, Mishap
  PROVE  faults' + cuts' > 0
BY DEF Mishap, InitFault, AgentFault, OtaFault, InitPanics, FormFails,
   BootPanics, OnBootDegraded, PolicyRejectsOnReadFailure,
   PolicyPanicsOnReadFailure, PolicyAcceptsUnreadWorkload, SelfCheckResets,
   PromoteFails, EnterProductionFails, FinishStorageFails, ActivateFails,
   PowerCut, PowerCutTearsEntry, Fault, DeviceInv, TypeOK, MishapTypeOK

\* One step from a state on the track.
LEMMA TrackStep ==
  ASSUME DeviceInv, OnTrack, Next
  PROVE  \/ OnTrack'
         \/ lifecycle' = "production"
         \/ faults' + cuts' > 0
         \/ pc' = "bootloader" /\ staged'.stage = "written"
<1> USE DEF DeviceInv, TypeOK, DurableTypeOK, VolatileTypeOK, BootInvariant,
            RunningIsKnown, FallbackIsNotStaged, InitImageIsApart,
            FallbackIsSound, RebootIsScheduled, FallbackSlot, Trusted,
            Bootable, BlankOtaData, InitImageSteps, AgentImageSteps,
            Unconfirmed, RunningImage, Steps, AgentBootSteps, EntryStates,
            OnTrack, Untroubled, ServesPage, AgentIsArmed, RecordIsArmed,
            Accounted
<1>1. CASE BootloaderStep
  <2>1. CASE BootNew
    BY <1>1, <2>1 DEF BootNew, Jump
  <2> QED
    BY <1>1, <2>1 DEF BootloaderStep, BootBlank, RefuseNew, AbortPending,
       BootTrusted
<1>2. CASE InitStep
  BY <1>2 DEF InitStep, InitLifecycle, InitTlsIdentity, SaveHardware,
     SaveIdentity, StagePreloaded, StagePreloadedRefused, ReadyForAgent,
     FormActivate, StartActivation, durable, WriteTarget
<1>3. CASE AgentStep
  <2> USE DEF LifecycleInvariant, ReadyIsProvisioned, BootProgress
  <2>1. CASE PolicyAccepts
    BY <2>1 DEF PolicyAccepts, AfterConfirmation, durable
  <2>2. CASE PolicyRejects
    BY <2>2 DEF PolicyRejects, FitToStay, CanRunActiveWorkload,
       LifecycleAllowsAgent
  <2>3. CASE ConfirmEntry
    BY <2>3 DEF ConfirmEntry
  <2>4. CASE Promote
    BY <2>4 DEF Promote, AfterConfirmation
  <2>5. CASE OnBootPendingVerify
    BY <2>5 DEF OnBootPendingVerify, durable
  <2> QED
    BY <1>3, <2>1, <2>2, <2>3, <2>4, <2>5 DEF AgentStep, FaultyFreezes,
       Freezes, WatchdogReset, OnBootRollback, OnBootPromotes, OnBootStable,
       SelfCheckRejects, EnterProduction
<1>4. CASE OtaStep
  <2>1. CASE MarkActivating
    BY <2>1 DEF MarkActivating
  <2>2. CASE ArmEntry
    BY <2>2 DEF ArmEntry
  <2>3. CASE ActivateDone
    BY <2>3 DEF ActivateDone, Idle, durable
  <2>4. CASE DelayedReboot
    BY <2>4 DEF DelayedReboot, Reset, durable
  <2> QED
    BY <1>4, <2>1, <2>2, <2>3, <2>4 DEF OtaStep
<1>5. CASE Request
  BY <1>5 DEF Request, InitRequest, ImprovWifi, PostForm, durable, volatile,
     OtaRequest, Begin, Activate, Chunk, LastChunk, Finish, FinishRefused,
     RequestReboot, ActivateWorkload, PowerCycle
<1>6. CASE Mishap
  BY <1>6, MishapsCount
<1> QED
  BY <1>1, <1>2, <1>3, <1>4, <1>5, <1>6 DEF Next, DeviceStep

\* Only an agent in Production serves, and only it is given a Workload.
LEMMA WorkloadStep ==
  ASSUME DeviceInv, WorkloadAfterProduction, Next
  PROVE  WorkloadAfterProduction'
<1> USE DEF DeviceInv, TypeOK, DurableTypeOK, VolatileTypeOK, BootInvariant,
            RunningIsKnown, InitImageIsApart, InitImageSteps,
            AgentImageSteps, Steps, AgentBootSteps, WorkloadAfterProduction
<1>1. CASE BootloaderStep
  BY <1>1 DEF BootloaderStep, BootBlank, BootNew, RefuseNew, AbortPending,
     BootTrusted, Jump, durable, volatile
<1>2. CASE InitStep
  BY <1>2 DEF InitStep, InitLifecycle, InitTlsIdentity, SaveHardware,
     SaveIdentity, StagePreloaded, StagePreloadedRefused, ReadyForAgent,
     FormActivate, StartActivation, durable
<1>3. CASE AgentStep
  BY <1>3 DEF AgentStep, FaultyFreezes, Freezes, WatchdogReset, Reset,
     OnBootPendingVerify, OnBootRollback, OnBootPromotes, OnBootStable,
     PolicyRejects, SelfCheckRejects, RejectPending, PolicyAccepts,
     AfterConfirmation, LifecycleAllowsAgent, ConfirmEntry, Promote,
     EnterProduction, durable, LifecycleInvariant, BootProgress
<1>4. CASE OtaStep
  BY <1>4 DEF OtaStep, MarkActivating, ArmEntry, ActivateDone, Idle,
     DelayedReboot, Reset, durable
<1>5. CASE Request
  BY <1>5 DEF Request, InitRequest, ImprovWifi, PostForm, durable, volatile,
     OtaRequest, Begin, Activate, StartActivation, Chunk, LastChunk, Finish,
     FinishRefused, RequestReboot, ActivateWorkload, PowerCycle, Reset
<1>6. CASE Mishap
  BY <1>6 DEF Mishap, InitFault, AgentFault, OtaFault, InitPanics, FormFails,
     BootPanics, Freezes, OnBootDegraded, PolicyRejectsOnReadFailure,
     RejectPending, PolicyPanicsOnReadFailure, PolicyAcceptsUnreadWorkload,
     SelfCheckResets, PromoteFails, AfterConfirmation, LifecycleAllowsAgent,
     EnterProductionFails, FinishStorageFails, ActivateFails, Idle, PowerCut,
     PowerCutTearsEntry, Reset, durable, LifecycleInvariant, BootProgress
<1> QED
  BY <1>1, <1>2, <1>3, <1>4, <1>5, <1>6 DEF Next, DeviceStep

\* An activation of the form remembers what it has written.
LEMMA FormActivationStep ==
  ASSUME DeviceInv, FormActivationProgress, Next
  PROVE  FormActivationProgress'
<1> USE DEF DeviceInv, TypeOK, DurableTypeOK, VolatileTypeOK, BootInvariant,
            RunningIsKnown, FormActivationProgress, AgentIsArmed
<1>1. CASE FormActivate
  BY <1>1 DEF FormActivate, CanActivate, StartActivation, durable
<1>2. CASE MarkActivating
  BY <1>2 DEF MarkActivating
<1>3. CASE ArmEntry
  BY <1>3 DEF ArmEntry, UpdateInvariant, RecordsAreWhole, StagedIsIntact,
     ActivationIsStaged
<1>4. ASSUME pc' # "activate" \/ flash'[running'] # InitImage
      PROVE  FormActivationProgress'
  BY <1>4
<1>5. CASE BootloaderStep \/ InitStep
  BY <1>1, <1>4, <1>5 DEF BootloaderStep, BootBlank, BootNew, RefuseNew,
     AbortPending, BootTrusted, Jump, volatile, InitStep, InitLifecycle,
     InitTlsIdentity, SaveHardware, SaveIdentity, StagePreloaded,
     StagePreloadedRefused, ReadyForAgent
<1>6. CASE AgentStep
  BY <1>4, <1>6 DEF AgentStep, FaultyFreezes, WatchdogReset, Reset,
     OnBootPendingVerify, OnBootRollback, OnBootPromotes, OnBootStable,
     PolicyRejects, SelfCheckRejects, RejectPending, PolicyAccepts,
     AfterConfirmation, ConfirmEntry, Promote, EnterProduction
<1>7. CASE OtaStep
  BY <1>2, <1>3, <1>4, <1>7 DEF OtaStep, ActivateDone, Idle, DelayedReboot,
     Reset
<1>8. CASE Request
  BY <1>4, <1>8 DEF Request, InitRequest, ImprovWifi, PostForm, durable,
     volatile, OtaRequest, Begin, Activate, StartActivation, Chunk, LastChunk,
     Finish, FinishRefused, RequestReboot, ActivateWorkload, PowerCycle, Reset,
     InitImageIsApart, AgentImageSteps
<1>9. CASE Mishap
  BY <1>4, <1>9 DEF Mishap, InitFault, AgentFault, OtaFault, InitPanics,
     FormFails, BootPanics, OnBootDegraded, PolicyRejectsOnReadFailure,
     RejectPending, PolicyPanicsOnReadFailure, PolicyAcceptsUnreadWorkload,
     SelfCheckResets, PromoteFails, AfterConfirmation, EnterProductionFails,
     FinishStorageFails, ActivateFails, Idle, PowerCut, PowerCutTearsEntry,
     Reset
<1> QED
  BY <1>5, <1>6, <1>7, <1>8, <1>9 DEF Next, DeviceStep

\* A page schedules its reboot when both writes are done, and a reboot that
\* is scheduled keeps to the track.
LEMMA ScheduledStep ==
  ASSUME DeviceInv, DeviceInv', TrackInv, Next
  PROVE  ScheduledPageIsOnTrack'
<1> SUFFICES ASSUME Untroubled', ServesPage', reboot'
             PROVE  OnTrack'
  BY DEF ScheduledPageIsOnTrack
<1>1. ~Mishap
  BY MishapsCount DEF Untroubled
<1>2. CASE OnTrack
  <2>1. pc' # "bootloader"
    BY DEF ServesPage, FormSteps
  <2>2. lifecycle' # "production"
    BY DEF DeviceInv, BootInvariant, InitImageIsApart, RunningIsKnown,
           ServesPage, FormSteps
  <2> QED
    BY <1>2, <2>1, <2>2, TrackStep DEF Untroubled
<1>3. CASE ActivateDone
  BY <1>3 DEF ActivateDone, Idle, TrackInv, FormActivationProgress,
     WorkloadAfterProduction, OnTrack, Untroubled, ServesPage, AgentIsArmed,
     RecordIsArmed, durable
<1>4. CASE ~ActivateDone /\ ~OnTrack
  <2> USE DEF DeviceInv, TypeOK, VolatileTypeOK, BootInvariant,
              RebootIsScheduled, InitImageIsApart, AgentImageSteps,
              InitImageSteps, ServesPage, Untroubled
  <2>1. ASSUME UNCHANGED <<faults, cuts>> PROVE ~(ServesPage /\ reboot)
    BY <1>4, <2>1 DEF TrackInv, ScheduledPageIsOnTrack
  <2>2. CASE BootloaderStep \/ InitStep
    BY <2>1, <2>2 DEF BootloaderStep, BootBlank, BootNew, RefuseNew,
       AbortPending, BootTrusted, Jump, durable, volatile, InitStep,
       InitLifecycle, InitTlsIdentity, SaveHardware, SaveIdentity,
       StagePreloaded, StagePreloadedRefused, ReadyForAgent, FormActivate,
       StartActivation
  <2>3. CASE AgentStep
    BY <2>3 DEF AgentStep, FaultyFreezes, Freezes, WatchdogReset, Reset,
       OnBootPendingVerify, OnBootRollback, OnBootPromotes, OnBootStable,
       PolicyRejects, SelfCheckRejects, RejectPending, PolicyAccepts,
       AfterConfirmation, ConfirmEntry, Promote, EnterProduction
  <2>4. CASE OtaStep
    BY <1>4, <2>1, <2>4 DEF OtaStep, MarkActivating, ArmEntry, DelayedReboot,
       Reset
  <2>5. CASE Request
    BY <2>1, <2>5 DEF Request, InitRequest, ImprovWifi, PostForm, durable,
       volatile, OtaRequest, Begin, Activate, StartActivation, Chunk,
       LastChunk, Finish, FinishRefused, RequestReboot, ActivateWorkload,
       PowerCycle, Reset, WriteTarget, RunningIsKnown
  <2> QED
    BY <1>1, <2>2, <2>3, <2>4, <2>5 DEF Next, DeviceStep
<1> QED
  BY <1>2, <1>3, <1>4

\* What TrackIsKept and PromiseIsKept rest on.
LEMMA TrackInvariance == Spec => []TrackInv
<1>1. Init => TrackInv
  BY DEF Init, TrackInv, WorkloadAfterProduction, FormActivationProgress,
         ScheduledPageIsOnTrack, ServesPage
<1>2. DeviceInv /\ DeviceInv' /\ TrackInv /\ [Next]_vars => TrackInv'
  <2>1. CASE Next
    BY <2>1, WorkloadStep, FormActivationStep, ScheduledStep DEF TrackInv
  <2>2. CASE UNCHANGED vars
    BY <2>2 DEF vars, TrackInv, WorkloadAfterProduction,
       FormActivationProgress, ScheduledPageIsOnTrack, OnTrack, Untroubled,
       ServesPage, AgentIsArmed, RecordIsArmed, Unconfirmed, Accounted
  <2> QED
    BY <2>1, <2>2
<1> QED
  BY <1>1, <1>2, DeviceInvariance, PTL DEF Spec

\* A form that has scheduled its reboot has made all that reboot needs durable.
THEOREM PromiseIsAlwaysKept == Spec => []PromiseIsKept
<1>1. DeviceInv /\ TrackInv => PromiseIsKept
  BY DEF TrackInv, ScheduledPageIsOnTrack, PromiseIsKept, ServesPage,
         DeviceInv, BootInvariant, InitImageIsApart, InitImageSteps
<1> QED
  BY <1>1, DeviceInvariance, TrackInvariance, PTL

\* Every step from there keeps to the track, up to Production.
THEOREM TrackIsAlwaysKept == Spec => TrackIsKept
<1>1. DeviceInv /\ [Next]_vars =>
        [OnTrack => \/ OnTrack'
                    \/ lifecycle' = "production"
                    \/ faults' + cuts' > 0
                    \/ pc' = "bootloader" /\ staged'.stage = "written"]_vars
  BY TrackStep
<1> QED
  BY <1>1, DeviceInvariance, PTL DEF Spec, TrackIsKept
===============================================================================
