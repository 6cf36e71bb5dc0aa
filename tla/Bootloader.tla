------------------------------ MODULE Bootloader ------------------------------
(***************************************************************************)
(* The EWBT bootloader.  Its code is outside this repository; it is        *)
(* modelled from what the repository says of it: scripts/ewbt-otadata.py   *)
(* (entry states, blank otadata, an uncommitted entry is ignored),         *)
(* composition/ota.rs ("New", promoted to "PendingVerify" on the next      *)
(* boot), ota.rs ("unconfirmed past this, the bootloader's own rollback    *)
(* takes over on the next boot") and docs/hw-validation-process.md (a      *)
(* refused image falls back to the other valid slot).                      *)
(***************************************************************************)
EXTENDS DeviceState

\* A slot the bootloader may run without any further confirmation.
Trusted(s) == entry[s] = "valid" /\ Bootable(flash[s])

\* The slot run once no unconfirmed entry is left: the newest valid one.
FallbackSlot == IF entry[newest] = "valid" THEN newest ELSE OtherSlot(newest)

BlankOtaData == \A s \in Slots : entry[s] = "blank"

\* The jump to the image of slot s.
Jump(s) ==
  /\ running' = s
  /\ pc' = IF flash[s] = InitImage THEN "init_lifecycle" ELSE "on_boot"
  /\ UNCHANGED <<agentState, session, todo, reboot>>

\* Blank otadata: ota_0 is validated, Valid(seq=1) is written, then booted.
BootBlank ==
  /\ pc = "bootloader"
  /\ BlankOtaData
  /\ Bootable(flash["ota_0"])
  /\ entry' = [entry EXCEPT !["ota_0"] = "valid"]
  /\ newest' = "ota_0"
  /\ Jump("ota_0")
  /\ UNCHANGED <<flash, staged, active, lifecycle, config, workload>>
  /\ NoFault

\* A newly armed image is run once, pending its confirmation.
BootNew ==
  /\ pc = "bootloader"
  /\ entry[newest] = "new"
  /\ Bootable(flash[newest])
  /\ entry' = [entry EXCEPT ![newest] = "pending"]
  /\ Jump(newest)
  /\ UNCHANGED <<newest, flash, staged, active, lifecycle, config, workload>>
  /\ NoFault

\* A newly armed image that does not validate is never run.
RefuseNew ==
  /\ pc = "bootloader"
  /\ entry[newest] = "new"
  /\ ~Bootable(flash[newest])
  /\ entry' = [entry EXCEPT ![newest] = "invalid"]
  /\ UNCHANGED <<newest, flash, staged, active, lifecycle, config,
                 workload, volatile>>
  /\ NoFault

\* An image that was reset before it was confirmed is not run again.
AbortPending ==
  /\ pc = "bootloader"
  /\ entry[newest] = "pending"
  /\ entry' = [entry EXCEPT ![newest] = "aborted"]
  /\ UNCHANGED <<newest, flash, staged, active, lifecycle, config,
                 workload, volatile>>
  /\ NoFault

BootTrusted ==
  /\ pc = "bootloader"
  /\ entry[newest] \notin {"new", "pending"}
  /\ Trusted(FallbackSlot)
  /\ Jump(FallbackSlot)
  /\ UNCHANGED durable
  /\ NoFault

BootloaderStep == BootBlank \/ BootNew \/ RefuseNew \/ AbortPending \/ BootTrusted
===============================================================================
