---------------------------- MODULE DeviceSettling ----------------------------
(***************************************************************************)
(* Why a device left to itself comes to rest: it serves, it awaits its     *)
(* operator, or it hangs on a confirmed image.  Each step it takes on its  *)
(* own (DeviceStep) lowers a bound on the steps it has left, and while it  *)
(* is not at rest such a step is due.  This is what of BootSettles and     *)
(* PendingIsResolved does not depend on fairness; the second part says the *)
(* same of CommissioningCompletes.                                         *)
(***************************************************************************)
EXTENDS DeviceInvariant

AtRest == pc \in {"serve", "provision", "hung"}

\* From the bootloader: run a new image or give it up, abort a pending one,
\* or run a trusted one (4).
StepsOfBootloader ==
  CASE entry[newest] = "new"     -> 10
    [] entry[newest] = "pending" -> 5
    [] OTHER                     -> 4

\* From a step of an unconfirmed image, at worst rejected and rolled back.
StepsUnconfirmed ==
  CASE pc = "on_boot" -> 9
    [] pc = "policy"  -> 8
    [] pc = "confirm" -> 7
    [] OTHER          -> 6

\* From a step of a trusted image, which only a mishap can freeze.
StepsTrusted ==
  CASE pc = "frozen"                       -> 11
    [] pc = "on_boot"                      -> 3
    [] pc \in {"init_lifecycle", "policy", "promote"} -> 2
    [] pc \in {"init_tls", "production"}   -> 1
    [] OTHER                               -> 0

\* From a service: what is left of the request, then its scheduled reboot.
StepsOfService ==
  CASE pc = "form_hardware" -> 19
    [] pc = "form_identity" -> 18
    [] pc = "form_stage"    -> 17
    [] pc = "form_ready"    -> 16
    [] pc = "form_activate" -> 15
    [] pc = "activate"      -> 12 + (IF "record" \in todo THEN 1 ELSE 0)
                                  + (IF "entry" \in todo THEN 1 ELSE 0)
    [] OTHER                -> IF reboot THEN 11 ELSE 0

\* The number of steps the device may still take on its own.
StepsLeft ==
  CASE pc = "bootloader" -> StepsOfBootloader
    [] pc \in FormSteps \cup {"serve", "provision", "activate"} -> StepsOfService
    [] OTHER -> IF Unconfirmed THEN StepsUnconfirmed ELSE StepsTrusted

MostSteps == 19

StepsBounded == StepsLeft \in 0..MostSteps

\* No step of the device repeats work without an end: no image, whatever it
\* is, is rejected, armed, and rejected again; no reset leads to a boot that
\* leads to the same reset (bin/main.rs, ota.rs reject_pending, the watchdog
\* and the delayed reboot).  Only a request or a mishap gives it new work.
EveryStepSettles == [][DeviceStep => StepsLeft' < StepsLeft]_vars

\* No image is left unconfirmed by a device at rest.
RestIsResolved == AtRest => \A s \in Slots : entry[s] # "pending"

\* The guards of the steps of the device, where it is not at rest.
StepIsDue ==
  \/ AtRest
  \/ /\ pc = "bootloader"
     /\ \/ BlankOtaData /\ Bootable(flash["ota_0"])
        \/ entry[newest] \in {"new", "pending"}
        \/ Trusted(FallbackSlot)
  \/ pc \in InitSteps
  \/ pc \in FormSteps \ {"form_activate"}
  \/ pc = "form_activate" /\ CanActivate(FactoryAgent)
  \/ pc = "on_boot"
  \/ /\ pc = "policy"
     /\ Unconfirmed \/ (PrerequisitesOk /\ LifecycleAllowsAgent)
  \/ pc \in {"confirm", "promote", "production", "frozen", "activate"}

-----------------------------------------------------------------------------
(* Why a commissioning that is left to itself completes: from the reboot   *)
(* that a form has scheduled, every step keeps to the track that ends in   *)
(* Production, where nothing rests but a page whose reboot is to come.     *)

\* The exceptions of CommissioningCompletes, but the second form.
Untroubled == faults + cuts = 0 /\ Kind[FactoryAgent] = "good"

\* The init image serves its page or a form.
ServesPage ==
  /\ pc \in {"provision", "activate"} \cup FormSteps
  /\ flash[running] = InitImage

\* The factory agent is armed: the next boot tries it.
AgentIsArmed ==
  /\ entry[newest] = "new"
  /\ staged.slot = newest
  /\ flash[newest] = FactoryAgent

\* A form is posted again: its staging suspends the armed record, until its
\* own activation restores it.
RecordIsArmed ==
  \/ staged.stage = "activating"
  \/ /\ staged.stage = "written"
     /\ pc \in {"form_ready", "form_activate"} \/ "record" \in todo

OnTrack ==
  /\ Untroubled
  /\ lifecycle = "ready_for_agent"
  /\ workload = NoWorkload
  /\ \/ ServesPage /\ reboot /\ AgentIsArmed /\ RecordIsArmed
     \/ pc = "bootloader" /\ AgentIsArmed /\ staged.stage = "activating"
     \/ /\ running = newest /\ flash[newest] = FactoryAgent
        /\ \/ pc \in {"on_boot", "policy", "confirm"} /\ Unconfirmed /\ Accounted
           \/ pc \in {"promote", "production"}

\* The answer of a form that schedules its reboot is a promise: all that the
\* reboot needs is then durable.
PromiseIsKept == (Untroubled /\ reboot /\ pc = "provision") => OnTrack

\* From there Production follows, whatever the browser still posts: a form
\* posted again, at worst cut short by that reboot, is the only way off.
TrackIsKept ==
  [][OnTrack =>
       \/ OnTrack'
       \/ lifecycle' = "production"
       \/ faults' + cuts' > 0
       \/ pc' = "bootloader" /\ staged'.stage = "written"]_vars

\* No Workload is deployed before Production: only then does an agent serve.
WorkloadAfterProduction ==
  /\ workload # NoWorkload => lifecycle = "production"
  /\ pc = "serve" => lifecycle = "production"
  /\ pc = "activate" =>
       lifecycle = IF flash[running] = InitImage THEN "ready_for_agent"
                                                 ELSE "production"
  /\ pc = "form_activate" => lifecycle = "ready_for_agent"

\* What an activation of the form has already written.
FormActivationProgress ==
  (pc = "activate" /\ flash[running] = InitImage) =>
    /\ staged.image = FactoryAgent
    /\ "record" \notin todo => staged.stage = "activating"
    /\ "entry" \notin todo => AgentIsArmed

\* A page whose reboot is scheduled has armed the agent.
ScheduledPageIsOnTrack == (Untroubled /\ ServesPage /\ reboot) => OnTrack

TrackInv ==
  WorkloadAfterProduction /\ FormActivationProgress /\ ScheduledPageIsOnTrack

===============================================================================
