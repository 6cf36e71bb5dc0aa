# Embewi agent: a TLA+ model

This directory models the Embewi agent for ESP chips: the firmware that takes a
device from the factory into production, updates itself over two flash slots,
keeps an authenticated link to its Core, and supervises a Workload. It holds
TLA+ modules translated from the Rust sources, TLC configurations that check
them on small instances, and TLAPS proofs of the safety properties for every
value of the constants.

    tlc -workers 2 -config MCDevice.cfg MCDevice     # a run
    tlapm DeviceProofs.tla                           # the proofs of a module

`PROJECT.json` lists the runs, the lines of source each definition translates,
a mutant of the code for every property, the hazards and the theorems.

## 1. The system

Paths are relative to the repository. The agent is one `no_std` binary on one
embassy executor: tasks interleave at `await`s only, and the HTTP server takes
one connection at a time. Everything it must remember is in NVS objects
(ConfigSpace), in the flash slots, or in the bootloader's otadata.

| component | state it keeps | operations |
|---|---|---|
| EWBT bootloader (outside the repository; `scripts/ewbt-otadata.py`) | otadata: an entry per slot, New, PendingVerify, Valid, Invalid, Aborted | run a new image once, abandon one that was reset unconfirmed, refuse one that does not validate, fall back |
| init image (`bin/init.rs`, `http/config.rs`, `provisioning.rs`) | lifecycle object, Wi-Fi, TLS, hardware and identity objects | Improv over serial, one HTTPS form that configures, stages the preloaded agent and activates it |
| agent boot (`bin/main.rs`, `ota.rs`) | `agent::STATE`, the watchdog | `on_boot`, fitness policy, `confirm_pending`, promotion, Production |
| firmware update (`composition/ota.rs`, `http/api.rs`) | upload session, staged record and active digest of the OTA metadata | begin, chunk, finish, activate |
| delayed reboot (`esp_reboot.rs`) | a task spawned at most once | resets the chip 500 ms after it is asked to |
| agent identity (`agent.rs`) | one object: `ctrl_url`, token, agent id | authorize, rotate the token, read |
| heartbeat (`heartbeat.rs`) | snapshots of `ctrl_url` and token, one connection | connect, report every period, end the session when a snapshot is stale |
| runtime configuration (`runtime_config.rs`) | one object with a generation, a boot snapshot | merge a request, persist, report a generation |
| Workload wiring (`workload.rs`, `workload/native_runtime.rs`) | the crash-loop guard record in RTC memory | boot reconciliation, boot guard, Dual-OTA guard |
| probe runtime (`workload/probe_runtime.rs`) | six statics and one task slot | start, stop, health, running |
| supervisors (`supervisor.rs`) | which services were started | start services once when the network is up |
| Improv (`provisioning.rs`) | the Improv state | answer a browser over a serial line, connect Wi-Fi, start the page |
| configuration objects (`hardware.rs`, `app_config.rs`, `wifi.rs`, `esp_tls.rs`) | one object each | load, validate, save |

Components interact through durable objects more than through calls: the form
of the init image writes what the boot of the agent reads, the update service
writes the record and the entry that the next boot reconciles, and a token
rotation is noticed by the heartbeat task because it reads the object again.

### What is hard in it

* **Crashes between durable writes.** Activation, confirmation and the form all
  make several writes; a power cut, a panic or the reboot scheduled by an
  *earlier* request falls between any two of them.
* **Two records of one update.** The otadata entry and the staged record change
  separately, and only together say whether an unconfirmed image may stay.
* **Two updates of one device.** Agent and Workload are updated independently;
  either may be rolled back while the other stays.
* **Nobody to help.** An image that freezes before it is confirmed must be given
  up without an operator.
* **An unknown outcome.** A rotation whose commit, read-back or answer fails
  leaves the Core without knowing which token is in force.
* **Stale reads.** Authorization, load and commit of a rotation are separate
  awaits, and so are the checks and the send of a report.
* **Repeated requests.** A push whose commit or answer failed may have landed;
  the Core repeats it, and learns from heartbeats what it was not told.
* **Snapshots.** The agent runs with the configuration of its boot while the
  stored one moves on, and a report may have to fall back to the former.
* **Somebody else's crash.** A Workload on the second core takes the chip down;
  only a record in RTC memory tells that from a reboot that was wanted.
* **Bounded waits.** `stop` of a probe waits two seconds and goes on; the task
  it waited for may be alive, and a later `start` clears its stop flag.

`hazards` in `PROJECT.json` gives each of them at its line, with the properties
that would catch it going wrong.

### What makes each component correct

* *Update and boot*: some image can always be booted; the image the device falls
  back to changes only to one that was verified, activated, run and checked;
  a record never names what the flash does not hold; no image stays
  unconfirmed; nothing loops.
* *Commissioning*: ReadyForAgent means that the prerequisites are there, the
  init image never runs again after Production, a form that is accepted leads
  to Production.
* *Identity and heartbeat*: no failure locks the Core out; a rotation never
  loses the rest of the identity; reports carry the new token soon.
* *Configuration*: a push takes effect once, and not before the boot that
  follows; what was answered "saved" is in effect then; a reported generation
  never claims more than is stored.
* *Crash-loop guard*: a Workload that crashes the chip at every boot is not
  started for ever, one that does not is not withheld, and the agent stays up.
* *Improv*: the browser is always answered, and an address it is given leads
  to a page.
* *Probe*: after `stop` nothing runs, `running` names what runs, `health`
  follows progress.

## 2. The modules

    DeviceState ──┬─ Bootloader ────────────┐
                  ├─ OtaService ─ InitBoot ─┼─ Device ─ DeviceInvariant ─┬─ DeviceProofs
                  └─ AgentBoot ─────────────┘      │                     └─ DeviceSettling ─┐
                                    AtomicUpdate (refined by Device)                        │
                                          MCDevice ─────────────────────────────────────────┤
                                          DeviceSettlingProofs (with DeviceProofs) ─────────┘

    ControlLink ─┬─ MCControlLink       ProbeRuntime ─┬─ MCProbeRuntime
                 └─ ControlLinkProofs                 └─ ProbeProofs

    RuntimeConfig ─┬─ MCRuntimeConfig   WorkloadBoot ─┬─ MCWorkloadBoot
        │          └─ RuntimeConfigProofs             └─ WorkloadBootProofs
    ConfigRegister (refined by RuntimeConfig)

    Improv ─┬─ ImprovProofs ────────────────────┐
            └─ ImprovAnswer ─┬─ MCImprov        │
                             └─ ImprovAnswerProofs

### DeviceState, Bootloader, OtaService, InitBoot, AgentBoot, Device

One device, one processor, one image that runs. The durable half of the state is
`entry`/`newest` (otadata), `flash`, `staged` and `active` (OTA metadata),
`lifecycle`, `config` and `workload`; the volatile half is `pc`, `running`,
`agentState` (`agent::STATE`), `session` (`OTA_UPLOAD`), `todo` and `reboot`,
and a reset clears it. `pc` stands between two durable writes, so a power cut,
a watchdog or the delayed reboot may strike at each of them.

| code | actions |
|---|---|
| `ota::on_boot` and its callers' arms | `OnBootPendingVerify`, `OnBootRollback`, `OnBootPromotes`, `OnBootDegraded`, `OnBootStable` |
| policy of `bin/main.rs` | `PolicyAccepts`, `PolicyRejects`, `PolicyAcceptsUnreadWorkload`, `PolicyRejectsOnReadFailure`, `PolicyPanicsOnReadFailure` |
| `ota::confirm_pending` | `ConfirmEntry`, `Promote`, `PromoteFails`, `SelfCheckRejects`, `SelfCheckResets` |
| `ota::production` | `EnterProduction`, `EnterProductionFails` |
| watchdog, panics | `BootPanics`, `FaultyFreezes`, `WatchdogReset` |
| POST /ota, /ota/activate, /reboot | `Begin`, `Chunk`, `LastChunk`, `Finish*`, `Activate`, `MarkActivating`, `ArmEntry`, `ActivateDone`, `ActivateFails`, `RequestReboot` |
| `reboot_after_delay` | `DelayedReboot` |
| `bin/init.rs`, `http/config.rs` | `InitLifecycle`, `InitTlsIdentity`, `ImprovWifi`, `PostForm` and one action per save |

An image is a name with a `Kind` (good, faulty, unbootable) and the Workloads
that its runtime API satisfies; a slot holds a whole image, the init image or
`Torn`. A digest is the image itself.

**AtomicUpdate** is what an A/B update promises: one installed firmware, offers
that come and go, and an installation that is one step. `Device` implements it
with `installed` the content of the slot it falls back to and `offered` the
image of the staged record.

**DeviceInvariant** holds the inductive invariant, in named parts.

**DeviceSettling** bounds what a device does on its own: `StepsLeft`, the
steps it may still take before it serves, awaits its operator or hangs on a
confirmed image, and `StepIsDue`, the guards of those steps. `OnTrack` names the
states between the reboot that a form schedules and Production.

*External parts.* The bootloader, IOBEWI OTA (`upload::*`, `activate_staged`,
`stage_preloaded`, `reconcile_boot`, `confirm_pending`) and the Workload OTA
service are dependencies. They are modelled by the arms their callers match on
and by what `scripts/` and `docs/` record of them; where the repository does
not say, both outcomes are allowed: the order of the two writes of an
activation, whether `on_boot` keeps or drops a record that names the other
slot, whether a rejection marks the entry. One point is inferred and matters:
the watchdog is taken to be released by `on_boot` on a Stable boot, which the
log lines and the comments of `ota.rs` imply.

### ControlLink

The identity object (`stored`), the POST /token being served (`handler`, one
step per await of `is_authorized` and `rotate_token`), the heartbeat task
(`hb`, one step per await of `run` and `run_session`) and the Core (`believed`,
the tokens it must keep; `sent`). A read may fail: `ctrl_url` and `token` then
answer "", `load_config` an error. A commit may fail, fail although it landed,
or answer success without having landed, which is what the read-back is for
(`agent.rs`, comment of `rotate_token`). The answer may be lost, and the chip
may reset anywhere. The Core is external: it keeps every token that may be in
force, and drops one only when told. It may ask for a fresh token or repeat one
it keeps (`repeat`): a repeat that presents the old token is refused with a 401
if the first request had landed, so that such a refusal drops nothing. A commit
of the token already in force is no rotation to `stale`.

### ProbeRuntime

The statics of `probe_runtime.rs`, the one slot of the task pool and the one
`start` or `stop` in progress. Time passes in ticks when nothing is ready to
run, which is how an embassy executor with timers behaves. Freezes, failing
starts, unhealthy answers and both resets are those of the artifact header.
A period of zero is left out: `probe_task` would never let time pass.
`now_ms` keeps 32 bits and `health` takes a wrapping difference, so the age of
progress is counted modulo `ClockWrap`: every 49.7 days a frozen probe looks
fresh again for one window. The header of the file says `Unhealthy` "when it
froze" (`probe_runtime.rs:8-9`); what the code answers is `FreezeIsToldByAge`.
A probe that counts is not touched by it, since its age stays within its period.

### RuntimeConfig

The runtime object (`nvs`), the snapshot of the boot (`boot`), the port of the
business service (`appPort`), the request being served (`handler`, one step per
await of POST /config and /app/port), the report being built (`hb`, one step per
await of `send_heartbeat` that reads one of the two fields kept of it), the
supervisor's flag and how often it has spawned, and the Core. The Core is
external: it makes one push at a time and repeats it until it is told that it
is saved, or drops it when told `nvs_write_failed`, which is also the answer to
a map over the budget.

| code | actions |
|---|---|
| `RuntimeConfig::new`, the `expect` of `main.rs` | `Boot`, `BootPanics` |
| `LinkEvents`, `on_ip_ready` | `LinkReady`, `LinkDown` |
| POST /config: authorize, `current`, merge, `commit`, answer | `Authorize`, `LoadCurrent`, `LoadFails`, `Commit`, `CommitFails`, `Answer`, `AnswerLost` |
| POST /app/port | `Authorize`, `Commit`, `CommitFails`, `Answer`, `AnswerLost` |
| GET /config | `View` |
| `send_heartbeat`: `node_id`, `generation`, post | `ReadNodeId`, `ReadGeneration`, `SendHeartbeat` |

A commit replaces the object and its generation in one step, as ConfigSpace
promises; it may also fail after it has landed. An answer of success is taken
at its word here, while ControlLink, whose code reads back, does not. Parsing
of the body changes nothing and is left out; which maps fit the budget is a
constant, and an invalid key is one outside `ValidKeys`.

**ConfigRegister** is what the API promises a Core: one stored map with its
generation, a push that is merged in one step and at most once, called saved
only when the map holds it, and a snapshot that is a whole stored map. It knows
no requests, awaits, failures or repeats. `RuntimeConfig` implements it as its
instance `Register`: `Apply` is the one commit of a push that lands and changes
the map, and the first answer of success is `Confirm`.

### WorkloadBoot

The record of the crash-loop guard (`attempts`), the boot that decides on it
(`Stay`, `Decide`, `Reconcile`), the proof of health (`Observe`,
`ObserveUnhealthy`), the deliberate reboot (`ScheduleReboot`, `MarkClean`,
`ArmedReset`) and a Workload that may take the chip down whenever it runs
(`Crash`), next to resets of the agent itself and power cuts. `boot_guard` is
external: it is modelled from its three callers and their comments. A proof of
health, a clean mark, a power cut and a record torn by a reset all leave it at
zero. A crash while a reset is already armed counts as that reset. The proof of
health is not told of a deployment, it samples once a second: a Workload started
between two samples inherits the time of the one before. `crashes`
and `unclean` are histories; they stop one above the limit.

### Improv

The device (`at`, one step per await of `run` and `handle`), the serial line in
both directions, Wi-Fi, the page that the supervisor starts, and the browser.
The browser is external and is taken from the comment at `provisioning.rs:124`:
after GetCurrentState it awaits a state, and a result as well if that state is
Provisioned. It can be reloaded at any moment: what was sent to it is gone, what
it has sent is not. Of a frame is kept what it answers, whether it ends the
answer, and whether it holds an address. After a failed attempt Wi-Fi is taken
to be down, and a link comes back by itself only once it has been up. The
status LED is left out: nothing renders it in this image.

**ImprovAnswer** says where the answer to a waiting browser is at any moment
(`AnswerInv`), and counts the work that is left (`WorkLeft`).

## 3. The runs

| run | shows | size |
|---|---|---|
| `device` | a device from the factory through any sequence of forms, uploads, activations, rollbacks and Workload changes, with two faults and two power cuts anywhere: seven invariants, three action properties, that a device left to itself settles, and the refinement of `AtomicUpdate` | 235 183 states |
| `device_live` | with one of each: no image stays unconfirmed, boots settle, commissioning completes | 63 590 |
| `dual_ota_guard` | the disagreement described in section 6 | violation |
| `control_link` | rotations and reports interleaved, two failed NVS operations, a reset: the Core is never locked out, at most one stale report | 1 049 856 |
| `control_link_live` | the same with two tokens and fair tasks: a new token is soon the one reports carry | 130 288 |
| `probe` | probes that look at the stop flag in time: no zombie, `running` is true | 1 455 |
| `probe_health` | probes of any period: `health` follows progress | 14 659 |
| `probe_zombie` | the disagreement described in section 6 | violation |
| `config` | pushes repeated over two failed operations, a lost link, a reset, with ports and heartbeats in between: the refinement of `ConfigRegister` (merged at most once), in effect after the boot, reported truthfully, settled in the end | 688 372 |
| `config_identity` | the disagreement described in section 6 | violation |
| `workload_boot` | crashes at any time, two auto-starts, reboots, resets, deployments, a power cut: the loop is bounded, only unclean resets withhold a start, the agent stays up | 19 786 |
| `improv` | two reloads, one lost command or frame: the browser is answered, its address has a page | 715 776 |

**Bounds and why they are enough.**
`MaxFaults` and `MaxPowerCuts` bound mishaps, not requests: uploads, forms,
activations and reboots are unbounded in every run. Two of each let a recovery
be interrupted in turn (a cut during the boot that repairs an earlier cut).
Two good images are needed for an update and a rollback to differ; one faulty
image and one unbootable image take the two ways of being refused; the agent of
the factory runs one of the two Workloads, so the Dual-OTA guard has something
to refuse. In `control_link` three valid tokens are the one in force, a new one
and a third after an unknown outcome; the fourth is too short. Its liveness run
needs only the first two. In `probe` a tick
is a second: a period of 1 is below the wait of two seconds and 4 above it, and
the clock comes round after 16, so that a frozen probe grows older than the
longest window (3 × 4) before it does; the 2^32 ms of the code are `ClockWrap`,
of which the proofs assume no more than that (`AgeAssumption`).

In `config` two keys make a map that is too large possible; a value that is too
long stands for everything a merge ignores. Two generations are two pushes that
change the map, the second with the first as what it must not lose. The port
above 65535 is one that 16 bits would turn into a valid one. In
`workload_boot` one Workload is never proven healthy and one may be; both may
crash; a limit of two starts is the least with a start that is neither the first
nor the last, and crashes are not bounded. That run does not check deadlock: a
device with its reboots and deployments used up is quiet. In `improv` commands
are not bounded, only what lies unread when one is sent.

**Fairness.** *Device*: `WF(DeviceStep)`, the code that runs keeps running, and
`WF(DelayedReboot)`, since the RTC watchdog fires whatever the code does.
Operators, the Core, faults and power cuts are not fair; nothing is assumed of
them. *ControlLink*: weak fairness of both tasks; strong fairness of `Connect`
and `Send`, that is, a Core that can be reached now and then is reached. The
weak fairness of the heartbeat task includes that an answer or an error comes in
the end; the deadline is in the transport, outside this repository. *Probe*:
ready tasks run, and time passes. *RuntimeConfig*: an agent that hangs in its
boot is power cycled (`Boot`), `WifiManager::maintain` reconnects (`LinkReady`),
the HTTP task runs on (`Serving`) and the Core repeats (`PushAgain`); nothing is
assumed of the heartbeat. *WorkloadBoot*: the tasks of a boot and of a scheduled
reboot run on; a Workload need not crash, be healthy, or be replaced.
*Improv*: scans and attempts to connect end, each side reads what it is sent,
and the browser has a timeout; the timeout is only enabled once the line has
lost something, so that `BrowserIsAnswered` never rests on it otherwise.

`CommissioningCompletes` names its exceptions: a mishap, or a second post of the
form that the reboot scheduled by the first one cuts short after it staged the
image again. The agent then boots without a record that accounts for it and is
rolled back to the page.

## 4. What is proved

Eight modules of proofs establish, for every value of the constants (images,
Workloads, tokens, artifacts, keys, budgets, limits, numbers of faults):

* **Device** (`DeviceProofs`, 12 theorems): the inductive invariant, the type
  invariant, all six safety invariants, the action properties
  `TrustedOnlyWhenFit`, `ActiveIsConfirmed`, `PromotionIsKept`, and that
  `Device` implements `AtomicUpdate`.
* **Settling of the device** (`DeviceSettlingProofs`, 6): `EveryStepSettles`,
  `StepsBounded`, `StepIsDue`, `RestIsResolved`, `PromiseIsKept`, `TrackIsKept`.
* **ControlLink** (7): `LinkInv`, `TypeOK`, `CoreNeverLockedOut`,
  `OneStaleReport`, `RotationKeepsIdentity`, `RotationIsAuthorized`,
  `EveryStepReports`.
* **ProbeRuntime** (6): `TypeOK`, `ProgressIsHealthy`, `FreezeAges` and
  `FreezeIsToldByAge` for probes of any period; `NoZombieTask` and
  `RunningIsTrue` for artifacts whose periods are shorter than the wait of
  `stop` (`PeriodsArePrompt`); the hypothesis is needed, as `probe_zombie`
  shows.
* **RuntimeConfig** (9): `ConfigInv`, `ConfigTypeOK`, `PushCountsOnce`,
  `PushesAreAtomic` (the refinement of `ConfigRegister`), `ReportConfirmsPush`,
  `GenerationNamesContent`, `SavedIsEffective`, `ReportsGoBackToBoot`,
  `EveryRepeatCounts`.
* **WorkloadBoot** (5): `GuardInv`, `TypeOK`, `CrashLoopIsBounded`,
  `SuppressedByUncleanResets`, `EveryStartIsPaid`.
* **Improv** (`ImprovProofs`, 2): `ImprovTypeOK` and `UrlHasAPage`, for a line of any
  length.
* **Answers of Improv** (`ImprovAnswerProofs`, 3): `AnswerInv`,
  `NeverWaitsInVain`, `EveryStepAnswers`.

Every safety property of every passing run is a theorem.

**The argument for Device.** None of the safety invariants is inductive by
itself. `DeviceInv` is built in layers, each preserved given the ones before:
types; *updates* (an open session has nothing staged, so the slot it writes is
named by no record, and a record is published only for a slot that was read
back); *boots* (the entries always leave an intact slot to fall back to,
`FallbackIsTrusted`; the code that runs is that one or the newest, unconfirmed
one, `RunningIsKnown`; hence the slot that is written is never the fallback,
`FallbackIsNotStaged`); *lifecycle* (what each step of a boot and of the form
has already checked or saved). `NeverBricked` follows from `FallbackIsTrusted`,
the refinement from the boot layer: the fallback changes in `ConfirmEntry`
alone, where the record names the running slot and `StagedIsIntact` its
content.

**For ControlLink**: a request stays authorized although its token was checked
three awaits earlier, because one request is served at a time and only its own
commit writes the object (`RequestIsAuthorized`); the token of a first request
that was refused is not in force (`RequestIsFresh`), which of a repeat cannot be
said; and a session never has an empty token, so that an unreadable object ends
it (`SessionHasToken`).

**For ProbeRuntime**: the time the task has left to sleep is below the time
`stop` has left to wait (`StopIsInTime`). Health needs no such thing: its
invariant `HealthInv` says that the window belongs to the artifact that is
announced (`WindowIsOfCurrent`), and that a sleeping task that does not
freeze has made progress within its own period (`ProgressIsRecent`), whatever
task an earlier `stop` left behind.

**For RuntimeConfig**: one request is served at a time, so that the map a
request has read is still the stored one when it commits (`DraftIsMerged`), and
a request always carries the one open push (`RequestIsOpen`). Hence a commit
that landed makes the next attempt find nothing to change: merging twice is
merging once, the one fact about maps the proof needs. Reports are never ahead
of the store, and one that is older than the last names the boot
(`ReportsAreReal`).

**For WorkloadBoot**: the count of the record lies between the two histories.
It is never above the number of unclean resets, the start under way apart
(`AttemptsAreResets`), so a suppressed start has that many behind it; and never
below the crashes in a row (`CrashesAreAttempts`), so the loop ends.

**For Improv**: until the page has been started Wi-Fi has never been up, and no
frame on the line holds an address (`NoUrlBeforeThePage`).

**The refinement of ConfigRegister.** Every step of `RuntimeConfig` is a step of
`Register` or leaves it alone. The commit is the case that matters: the request
carries the open push, its draft is the merge with the map that is stored now
(`DraftIsMerged`, not the one the request read some time ago), and a draft that
differs from it can only be the first (`PushCountsOnce`). The answer of success
is `Confirm` because the handler answers `saved` only once the map holds the
push.

### The safety content of the liveness properties

A liveness property needs fairness, which stays with TLC. What is left of its
argument once fairness is granted is a safety property, and that is proved: that
every step on the way leaves less of it, so that it has an end, and where it
matters that a step is due or that what is awaited is under way.

* *`BootSettles`, `PendingIsResolved`*: each step a device takes on its own lowers
  `StepsLeft`, which is never above 19; unless it is at rest the guard of such a
  step holds; and at rest no entry is pending. So between two requests or
  mishaps there are at most 19 steps, whatever the images are, and no cycle of
  resets. Beyond the types it needs what the invariant says of the entries: only
  the newest is new or pending (`OnlyNewestIsTried`), the agent to fall back to
  is a good one and the lifecycle allows it to run (`FallbackIsSound`,
  `FallbackIsAllowed`), and no reboot is scheduled but in a running service
  (`RebootIsScheduled`).
* *`CommissioningCompletes`*: a page whose reboot is scheduled is `OnTrack`
  (`PromiseIsKept`), and every step from there, the device's or anybody's, stays
  on it, is the entry into Production, or is one of the exceptions of that
  property (`TrackIsKept`); nothing on the track is at rest but a page whose
  reboot is still to come, and the steps of the device are bounded as above. It
  needs that no Workload exists before Production, since only a serving agent is
  given one (`WorkloadAfterProduction`), so that the Dual-OTA guard cannot refuse
  the factory agent, and what an activation has written at each of its steps
  (`FormActivationProgress`).
* *`NewTokenIsUsed`*: on an agent that has a Core, each step of the heartbeat task
  that nothing hinders is the report with the token in force or lowers
  `StepsToReport` (at most 12). A session opened with an old token costs one
  more round, and no more, since its `ctrl_url` is the stored one
  (`SessionKeepsUrl`).
* *`FreezeIsFound`*: a frozen counter is never renewed and only time changes its age,
  modulo the round of the clock (`FreezeAges`); unless the probe was told to
  stop (`UnannouncedIsStopped`) the answer follows that age alone, `healthy` for
  one window of each round and `unhealthy` for the rest (`FreezeIsToldByAge`),
  and the window is shorter than the round (`AgeAssumption`). "Found" does not
  mean for good: after a round the probe is `healthy` for a window again.
* *`PushSettles`*: while nothing fails, each step of the agent and each repeat of
  the Core ends the push or lowers `StepsToSaved` (at most 10).
* *`AgentStaysUp`*: each boot, decision, start and crash lowers
  `4 * (MaxUncleanStarts - attempts) + StepsToDecision`, so a crash loop ends
  after `MaxUncleanStarts` starts.
* *`BrowserIsAnswered`*: while the line has lost nothing, a browser that waits has
  its answer on the line, its command being served, or its command still to be
  read (`AnswerIsUnderWay`); serving and reading lower `WorkLeft`. The hard case
  is a browser that was reloaded in the middle of an answer and asks again: it
  may see the end of the old answer first. That helps it if it awaits a state,
  and a state `Provisioned` of the old answer is always followed by a result
  or, when the attempt then failed, by an error (`FailureIsTold`).

These measures, `DeviceInv`, `PushCountsOnce` and the other inductive invariants
are proved and are no properties of a run; `EveryStepSettles` is both.

Assumptions on constants are named `ASSUME`s that every run evaluates:
`ImagesAssumption` (markers are not images), `BoundsAssumption`,
`SlotAssumption`, `TokensAssumption`, `LinkBoundsAssumption`,
`ProbeAssumption`, `AgeAssumption`, `ConfigAssumption`,
`ConfigBoundsAssumption`, `WorkloadAssumption`, `ImprovAssumption`.

**Only model-checked**: the liveness properties themselves, that is, the step from
the measures above to `~>`: it rests on fairness and on `ENABLED`, which TLAPS
does not reason about. `StepIsDue` states guards for that reason.

## 5. What is not modelled, and what is left out of the modules

Left out on purpose: parsing and rendering of forms, HTML, JSON bodies; logging
and metrics; the routes that change nothing; storage self-tests
(`workload/selftest.rs`, a sequential test driver); task composition; the mock
Core and the flashing page. `prepare()` of an upload only estimates.
`agent_id` is in the identity object but no property tells it from `ctrl_url`.

Nothing in the agent image writes `ctrl_url`; only the form of the init image
does. The check of `ctrl_url` before each report is therefore only ever taken
for an unreadable object.

Considered and left out:

* *The chunk protocol of uploads* (416, 409, resuming). Its code is in the
  external upload service; this repository forwards each chunk
  (`composition/ota.rs:135-137`). A model of it would translate documents.
  `OtaService` keeps what the callers see: a chunk is accepted or the slot is
  torn, and `finish` checks the digest.
* *Codecs*: the encodings of the configuration objects, `parse_u32_ascii`,
  `split_host_port`, `ewbt-otadata.py`. They are sequential byte arithmetic with
  no state; the modules keep what the encodings decide (which maps fit, which
  object is absent or unreadable, which entry is torn).
* *The partition check* (`scripts/check-partitions.py`), run once at build time.
* *Log forwarding of `support_task`* and its rate limit, the placement of the
  reclaimed RAM, the body of the health route.
* *The response of the Core to a heartbeat*: awaited without a deadline in this
  repository, see the fairness of ControlLink.
* *A Core of two writers.* RuntimeConfig has one that makes one push at a time;
  of two that do not know of each other, no answer of this API tells whose push
  the map holds.

The wait of one second in `start` of the probe never expires in the model: the
executor polls a spawned task before time passes.

## 6. Where the code and its documentation disagree

1. **Dual-OTA guard** (run `dual_ota_guard`). `bin/main.rs:322-323` says that an
   agent that cannot satisfy the active Workload must not be confirmed. The guard
   answers `true` when the status names no active Workload
   (`workload.rs:110-115`), which is also what it names when its metadata cannot
   be read: after one failed read an incompatible agent is confirmed. The
   comment at `workload.rs:107-109` states that choice; `main.rs` does not.
   `AgentRunsItsWorkload` holds, and is proved, for devices on which this has
   not happened.
2. **Zombie probe** (run `probe_zombie`). `probe_runtime.rs:10` says that `stop`
   waits until the task has really exited. It waits at most two seconds, while
   the task looks at the flag once per period, a 16-bit number of milliseconds.
   A later `start` clears the flag before it notices that the task slot is
   busy, and the old task then goes on under the new name.

3. **Temporary node_id** (run `config_identity`). `agent.rs:113-114` says that
   the `node_id` is the provisioned one, the temporary one being for a device
   without. `node_id` answers the temporary one whenever the identity object
   cannot be read (`agent.rs:116-121`), and every report reads it anew: after
   one failed read a provisioned device reports once under another name.

A fourth is no finding of a run but part of a theorem (`FreezeIsToldByAge`): a
probe that froze is called `Healthy` again for one window each time the 32-bit
clock comes round, see ProbeRuntime in section 2.

## 7. What could follow

The plan is done: the device (boot, updates, commissioning), the control link,
the probe runtime, the runtime configuration, the crash-loop guard and Improv,
each with its proofs. What could follow needs sources that are not in this
repository: the upload service, to refine `Chunk` and `LastChunk` of
`OtaService`; `boot_guard`, to replace the four outcomes `WorkloadBoot` takes
from its callers; the bootloader, to replace `Bootloader`. Within the repository,
the liveness properties could be proved from the measures of section 4 when a
prover supports fairness and `ENABLED`; and the agreement of agent and Core on a
token could be given an abstract specification, as updates and pushes have one.
