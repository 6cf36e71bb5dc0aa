------------------------------- MODULE InitBoot -------------------------------
(***************************************************************************)
(* embewi-init (bin/init.rs): the factory image of ota_0.  It enters the   *)
(* Provisioning lifecycle, makes a TLS identity, takes Wi-Fi credentials   *)
(* over Improv, and serves one HTTPS form (http/config.rs) that configures *)
(* the device, stages the agent preloaded in ota_1, and activates it.      *)
(***************************************************************************)
EXTENDS OtaService

\* IF the lifecycle is Factory THEN begin_provisioning; Production panics,
\* and nothing resets a panicking init image but its operator.
InitLifecycle ==
  /\ pc = "init_lifecycle"
  /\ lifecycle' = IF lifecycle = "factory" THEN "provisioning" ELSE lifecycle
  /\ GoTo(IF lifecycle = "production" THEN "hung" ELSE "init_tls")
  /\ UNCHANGED <<entry, newest, flash, staged, active, config, workload,
                 agentState>>
  /\ NoFault

\* ensure_server_identity, before any network endpoint exists.
InitTlsIdentity ==
  /\ pc = "init_tls"
  /\ config' = config \cup {"tls"}
  /\ GoTo("provision")
  /\ UNCHANGED <<entry, newest, flash, staged, active, lifecycle,
                 workload, agentState>>
  /\ NoFault

\* Every "expect" of the boot panics: invalid lifecycle, failed NVS write.
InitPanics ==
  /\ pc \in InitSteps
  /\ GoTo("hung")
  /\ UNCHANGED <<durable, agentState>>
  /\ Fault

\* Improv WifiSettings that connect: the credentials are kept.
ImprovWifi ==
  /\ pc = "provision"
  /\ "wifi" \notin config
  /\ config' = config \cup {"wifi"}
  /\ UNCHANGED <<entry, newest, flash, staged, active, lifecycle,
                 workload, volatile>>
  /\ NoFault

\* The form is reachable over Wi-Fi, and locked outside two lifecycles.
PostForm ==
  /\ pc = "provision"
  /\ "wifi" \in config
  /\ lifecycle \in {"provisioning", "ready_for_agent"}
  /\ GoTo("form_hardware")
  /\ UNCHANGED <<durable, agentState>>
  /\ NoFault

SaveHardware ==
  /\ pc = "form_hardware"
  /\ config' = config \cup {"hardware"}
  /\ GoTo("form_identity")
  /\ UNCHANGED <<entry, newest, flash, staged, active, lifecycle,
                 workload, agentState>>
  /\ NoFault

SaveIdentity ==
  /\ pc = "form_identity"
  /\ config' = config \cup {"identity"}
  /\ GoTo("form_stage")
  /\ UNCHANGED <<entry, newest, flash, staged, active, lifecycle,
                 workload, agentState>>
  /\ NoFault

\* The slot that is not running must hash to the factory agent's digest
\* before the record is published.
StagePreloaded ==
  /\ pc = "form_stage"
  /\ flash[WriteTarget] = FactoryAgent
  /\ staged' = [stage |-> "written", slot |-> WriteTarget, image |-> FactoryAgent]
  /\ GoTo("form_ready")
  /\ UNCHANGED <<entry, newest, flash, active, lifecycle, config,
                 workload, agentState>>
  /\ NoFault

\* "L'image agent préchargée est absente ou invalide."
StagePreloadedRefused ==
  /\ pc = "form_stage"
  /\ flash[WriteTarget] # FactoryAgent
  /\ GoTo("provision")
  /\ UNCHANGED <<durable, agentState>>
  /\ NoFault

\* Mutant of ReadyForAgent: the agent is activated without it.
ReadyForAgentForgotten ==
  /\ pc = "form_ready"
  /\ GoTo("form_activate")
  /\ UNCHANGED <<durable, agentState>>
  /\ NoFault

ReadyForAgent ==
  /\ pc = "form_ready"
  /\ lifecycle' = "ready_for_agent"
  /\ GoTo("form_activate")
  /\ UNCHANGED <<entry, newest, flash, staged, active, config, workload,
                 agentState>>
  /\ NoFault

\* factory_ota.activate: from here on OtaService's MarkActivating, ArmEntry
\* and ActivateDone (which schedules the reboot).
FormActivate ==
  /\ pc = "form_activate"
  /\ CanActivate(FactoryAgent)
  /\ StartActivation
  /\ UNCHANGED durable
  /\ NoFault

\* Mutant of FormFails: a failed save of the identity goes on to staging.
FormIgnoresIdentityFailure ==
  /\ pc \in FormSteps
  /\ GoTo(IF pc = "form_identity" THEN "form_stage" ELSE "provision")
  /\ UNCHANGED <<durable, agentState>>
  /\ Fault

\* Any step of the form that fails answers 500 and leaves the page editable.
FormFails ==
  /\ pc \in FormSteps
  /\ GoTo("provision")
  /\ UNCHANGED <<durable, agentState>>
  /\ Fault

InitRequest == ImprovWifi \/ PostForm

InitStep ==
  \/ InitLifecycle \/ InitTlsIdentity
  \/ SaveHardware \/ SaveIdentity \/ StagePreloaded \/ StagePreloadedRefused
  \/ ReadyForAgent \/ FormActivate

InitFault == InitPanics \/ FormFails
===============================================================================
