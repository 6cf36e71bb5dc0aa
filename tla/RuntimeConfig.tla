---------------------------- MODULE RuntimeConfig ----------------------------
(***************************************************************************)
(* The fleet configuration of an agent that serves (runtime_config.rs):    *)
(* the durable map and its generation, the snapshot taken at boot, the     *)
(* /config and /app/port handlers (http/api.rs), the generation and the    *)
(* node_id each heartbeat reports (heartbeat.rs), and the supervisor that  *)
(* starts both tasks when the link is ready (supervisor.rs).  The Core is  *)
(* external: it repeats a push until it is told that it is saved.          *)
(***************************************************************************)
EXTENDS Naturals

CONSTANTS
  Keys,      \* the keys a push may name
  ValidKeys, \* those of 1 to 15 characters that do not start with '_'
  Values,    \* the values of 1 to 63 characters
  TooLong,   \* a longer one
  NoValue,   \* the empty value: it removes the key
  Encodable, \* the maps whose encoding fits the budget of 2048 bytes
  Ports,     \* the ports a request may name
  MaxGeneration, \* bound: generations, that is pushes that change the map
  MaxFaults,     \* bound: NVS operations that fail
  MaxResets,     \* bound: resets, deliberate or not
  MaxDrops       \* bound: losses of the Wi-Fi link

Maps == [ValidKeys -> Values \cup {NoValue}]

EmptyMap == [k \in ValidKeys |-> NoValue]

ASSUME ConfigAssumption ==
  /\ ValidKeys \subseteq Keys
  /\ NoValue \notin Values /\ TooLong \notin Values \cup {NoValue}
  /\ EmptyMap \in Encodable /\ Encodable \subseteq Maps
  /\ Ports \subseteq Nat

ASSUME ConfigBoundsAssumption ==
  MaxGeneration \in Nat /\ MaxFaults \in Nat /\ MaxResets \in Nat
    /\ MaxDrops \in Nat

VARIABLES
  nvs,     \* durable: the runtime object, an absent one being generation 0
  appPort, \* durable: the port of the business service, NoPort if none
  boot,    \* the RuntimeConfig built at boot: the object as it was then
  up,      \* the agent serves
  link,    \* the Wi-Fi link has an address
  ipServicesStarted, \* the supervisor's flag of that name
  spawned, \* how often it has spawned the HTTP and heartbeat tasks
  handler, \* the request being served
  hb,      \* the heartbeat being built
  core,    \* the Core: its last push and what it knows of it
  sent,    \* the Core: the last heartbeat it received
  faults, resets, drops

store == <<nvs, appPort, boot>>
services == <<up, link, ipServicesStarted, spawned>>
bounds == <<faults, resets, drops>>
vars == <<store, services, handler, hb, core, sent, bounds>>

Snapshots == [generation : Nat, map : Maps]
NoSnapshot == [generation |-> 0, map |-> EmptyMap]

\* ConfigPush, a BTreeMap.
Pushes == UNION {[D -> Values \cup {TooLong, NoValue}] : D \in SUBSET Keys}
NoPush == [k \in {} |-> NoValue]

NoPort == 0
StorablePorts == 1024..65535

HandlerSteps ==
  {"idle", "authorize", "load", "commit", "saved", "refused", "failed"}
Handlers ==
  [step : HandlerSteps, req : {"config", "port"}, push : Pushes,
   port : Ports \cup {NoPort}, draft : Maps]
NoRequest ==
  [step |-> "idle", req |-> "config", push |-> NoPush, port |-> NoPort,
   draft |-> EmptyMap]

NodeIds == {"own", "temporary"}
Heartbeats ==
  [at : {"pause", "generation", "send"}, node : NodeIds, generation : Nat]
NoHeartbeat == [at |-> "pause", node |-> "own", generation |-> 0]

\* base is the generation the map had when the push was first sent.
Cores == [push : Pushes, state : {"open", "saved", "dropped"}, base : Nat]

\* A second spawn of an embassy task is an error that the supervisor
\* unwraps: it would end a confirmed agent.  The port stored is one that was
\* asked for, although the request carries 32 bits and the object 16.
ConfigTypeOK ==
  /\ nvs \in Snapshots
  /\ appPort \in {NoPort} \cup (Ports \cap StorablePorts)
  /\ boot \in Snapshots
  /\ up \in BOOLEAN /\ link \in BOOLEAN /\ ipServicesStarted \in BOOLEAN
  /\ spawned \in 0..1
  /\ handler \in Handlers
  /\ hb \in Heartbeats
  /\ core \in Cores
  /\ sent \in [node : NodeIds, generation : Nat]
  /\ faults \in 0..MaxFaults
  /\ resets \in 0..MaxResets
  /\ drops \in 0..MaxDrops

\* A provisioned device that has never been configured.
Init ==
  /\ nvs = NoSnapshot
  /\ appPort = NoPort
  /\ boot = NoSnapshot
  /\ up = FALSE /\ link = FALSE /\ ipServicesStarted = FALSE /\ spawned = 0
  /\ handler = NoRequest
  /\ hb = NoHeartbeat
  /\ core = [push |-> NoPush, state |-> "saved", base |-> 0]
  /\ sent = [node |-> "own", generation |-> 0]
  /\ faults = 0 /\ resets = 0 /\ drops = 0

\* An NVS operation fails.
Fault == faults < MaxFaults /\ faults' = faults + 1

-----------------------------------------------------------------------------
(* The boot and the services.                                              *)

\* RuntimeConfig::new; an absent object is generation 0 of the empty map.
Boot ==
  /\ ~up
  /\ up' = TRUE
  /\ boot' = nvs
  /\ UNCHANGED <<nvs, appPort, link, ipServicesStarted, spawned, handler, hb,
                 core, sent, bounds>>

\* The expect of main.rs: the agent hangs until it is power cycled.
BootPanics ==
  /\ ~up
  /\ Fault
  /\ UNCHANGED <<store, services, handler, hb, core, sent, resets, drops>>

\* Mutant of OnIpReady: the flag is never looked at.
OnIpReadyAgain ==
  ipServicesStarted' = TRUE /\ spawned' = spawned + 1

\* on_ip_ready: idempotent, the link may come back any number of times.
OnIpReady ==
  IF ipServicesStarted
  THEN UNCHANGED <<ipServicesStarted, spawned>>
  ELSE ipServicesStarted' = TRUE /\ spawned' = spawned + 1

LinkReady ==
  /\ up /\ ~link
  /\ link' = TRUE
  /\ OnIpReady
  /\ UNCHANGED <<store, up, handler, hb, core, sent, bounds>>

\* The services stay; a request in progress runs on, its answer is lost.
LinkDown ==
  /\ link /\ drops < MaxDrops
  /\ link' = FALSE
  /\ drops' = drops + 1
  /\ UNCHANGED <<store, up, ipServicesStarted, spawned, handler, hb, core,
                 sent, faults, resets>>

\* Whatever the cause, and whatever was being done.
Reset ==
  /\ up /\ resets < MaxResets
  /\ resets' = resets + 1
  /\ boot' = NoSnapshot
  /\ up' = FALSE /\ link' = FALSE /\ ipServicesStarted' = FALSE /\ spawned' = 0
  /\ handler' = NoRequest
  /\ hb' = NoHeartbeat
  /\ UNCHANGED <<nvs, appPort, core, sent, faults, drops>>

-----------------------------------------------------------------------------
(* POST /v1alpha1/config and /v1alpha1/app/port, one request at a time.    *)

Listening == link /\ ipServicesStarted /\ handler.step = "idle"

\* A Core that is done with its last push makes a new one ...
Push ==
  /\ Listening
  /\ core.state # "open" /\ nvs.generation < MaxGeneration
  /\ \E push \in Pushes :
       /\ handler' = [NoRequest EXCEPT !.step = "authorize", !.push = push]
       /\ core' = [core EXCEPT !.push = push, !.state = "open",
                               !.base = nvs.generation]
  /\ UNCHANGED <<store, services, hb, sent, bounds>>

\* ... and repeats it until it is told that it is saved.
PushAgain ==
  /\ Listening
  /\ core.state = "open"
  /\ handler' = [NoRequest EXCEPT !.step = "authorize", !.push = core.push]
  /\ UNCHANGED <<store, services, hb, core, sent, bounds>>

AskPort ==
  /\ Listening
  /\ core.state # "open"
  /\ \E port \in Ports :
       handler' = [NoRequest EXCEPT !.step = "authorize", !.req = "port",
                                    !.port = port]
  /\ UNCHANGED <<store, services, hb, core, sent, bounds>>

HandlerGoesTo(step) == handler' = [handler EXCEPT !.step = step]

\* /config loads first; /app/port checks the port and commits.
AfterAuthorize ==
  IF handler.req = "config" THEN "load"
  ELSE IF handler.port \in StorablePorts THEN "commit" ELSE "refused"

\* An identity object that cannot be read authorizes nothing.
Authorize ==
  /\ handler.step = "authorize"
  /\ \/ HandlerGoesTo(AfterAuthorize) /\ UNCHANGED faults
     \/ HandlerGoesTo("refused") /\ Fault
  /\ UNCHANGED <<store, services, hb, core, sent, resets, drops>>

\* Merge on key: what apply makes of the map it has read.  Keys and values
\* that are not valid are ignored, the empty value removes.
Merge(map, push) ==
  [k \in ValidKeys |->
     IF k \in DOMAIN push /\ push[k] # TooLong THEN push[k] ELSE map[k]]

\* Mutant of LoadCurrent: a push that changes nothing is committed too.
LoadAlways ==
  /\ handler.step = "load"
  /\ LET map == Merge(nvs.map, handler.push) IN
       handler' = [handler EXCEPT !.draft = map,
                     !.step = IF map \in Encodable THEN "commit" ELSE "failed"]
  /\ UNCHANGED <<store, services, hb, core, sent, bounds>>

\* Mutant of LoadCurrent: it merges into the snapshot of the boot.
LoadFromActive ==
  /\ handler.step = "load"
  /\ LET map == Merge(boot.map, handler.push) IN
       handler' = [handler EXCEPT !.draft = map,
                     !.step = CASE map = boot.map -> "saved"
                                [] map # boot.map /\ map \in Encodable -> "commit"
                                [] OTHER -> "failed"]
  /\ UNCHANGED <<store, services, hb, core, sent, bounds>>

\* Mutant of LoadCurrent: a push that changes nothing is an error.
LoadUnchangedFails ==
  /\ handler.step = "load"
  /\ LET map == Merge(nvs.map, handler.push) IN
       handler' = [handler EXCEPT !.draft = map,
                     !.step = IF map # nvs.map /\ map \in Encodable
                              THEN "commit" ELSE "failed"]
  /\ UNCHANGED <<store, services, hb, core, sent, bounds>>

\* apply up to its commit: nothing to do, too large, or a map to write.
LoadCurrent ==
  /\ handler.step = "load"
  /\ LET map == Merge(nvs.map, handler.push) IN
       handler' = [handler EXCEPT !.draft = map,
                     !.step = CASE map = nvs.map -> "saved"
                                [] map # nvs.map /\ map \in Encodable -> "commit"
                                [] OTHER -> "failed"]
  /\ UNCHANGED <<store, services, hb, core, sent, bounds>>

LoadFails ==
  /\ handler.step = "load"
  /\ Fault
  /\ HandlerGoesTo("failed")
  /\ UNCHANGED <<store, services, hb, core, sent, resets, drops>>

\* ConfigSpace::commit: the whole object is replaced, in a new generation;
\* save_port keeps 16 bits of the port.
Write ==
  IF handler.req = "config"
  THEN /\ nvs' = [generation |-> nvs.generation + 1, map |-> handler.draft]
       /\ UNCHANGED appPort
  ELSE appPort' = handler.port % 65536 /\ UNCHANGED nvs

\* Mutant of Commit: the view is refreshed with the new generation.
CommitRefreshes ==
  /\ handler.step = "commit"
  /\ Write
  /\ boot' = [boot EXCEPT !.generation = nvs'.generation]
  /\ HandlerGoesTo("saved")
  /\ UNCHANGED <<services, hb, core, sent, bounds>>

Commit ==
  /\ handler.step = "commit"
  /\ Write
  /\ HandlerGoesTo("saved")
  /\ UNCHANGED <<boot, services, hb, core, sent, bounds>>

\* A commit that fails may have landed.
CommitFails ==
  /\ handler.step = "commit"
  /\ Fault
  /\ Write \/ UNCHANGED <<nvs, appPort>>
  /\ HandlerGoesTo("failed")
  /\ UNCHANGED <<boot, services, hb, core, sent, resets, drops>>

\* What a Core makes of an answer: it may drop a push that was answered 500
\* nvs_write_failed, which is also what one too large is answered.
Learns ==
  CASE handler.req = "config" /\ handler.step = "saved" ->
         core' = [core EXCEPT !.state = "saved"]
    [] handler.req = "config" /\ handler.step = "failed" ->
         core' \in {core, [core EXCEPT !.state = "dropped"]}
    [] OTHER -> core' = core

Answer ==
  /\ handler.step \in {"saved", "refused", "failed"}
  /\ link
  /\ Learns
  /\ handler' = NoRequest
  /\ UNCHANGED <<store, services, hb, sent, bounds>>

\* The request was served, but the Core never hears of it.
AnswerLost ==
  /\ handler.step \in {"saved", "refused", "failed"}
  /\ link => drops < MaxDrops
  /\ drops' = IF link THEN drops + 1 ELSE drops
  /\ handler' = NoRequest
  /\ UNCHANGED <<store, services, hb, core, sent, faults, resets>>

-----------------------------------------------------------------------------
(* The heartbeat: send_heartbeat and its separate awaits.                  *)

\* agent::node_id: the provisioned one, or the temporary one of the chip when
\* the identity object cannot be read.
ReadNodeId ==
  /\ link /\ ipServicesStarted /\ hb.at = "pause"
  /\ \/ hb' = [hb EXCEPT !.at = "generation", !.node = "own"]
        /\ UNCHANGED faults
     \/ hb' = [hb EXCEPT !.at = "generation", !.node = "temporary"] /\ Fault
  /\ UNCHANGED <<store, services, handler, core, sent, resets, drops>>

\* Mutant of ReadGeneration: an unreadable object is taken for an absent one.
ReadGenerationZero ==
  /\ hb.at = "generation"
  /\ \/ hb' = [hb EXCEPT !.at = "send", !.generation = nvs.generation]
        /\ UNCHANGED faults
     \/ hb' = [hb EXCEPT !.at = "send", !.generation = 0] /\ Fault
  /\ UNCHANGED <<store, services, handler, core, sent, resets, drops>>

\* Mutant of ReadGeneration: a generation is counted before its commit.
ReadGenerationEarly ==
  /\ hb.at = "generation"
  /\ hb' = [hb EXCEPT !.at = "send",
              !.generation = IF handler.step = "commit" /\ handler.req = "config"
                             THEN nvs.generation + 1 ELSE nvs.generation]
  /\ UNCHANGED <<store, services, handler, core, sent, bounds>>

\* RuntimeConfig::generation: the one of the boot if it cannot be read.
ReadGeneration ==
  /\ hb.at = "generation"
  /\ \/ hb' = [hb EXCEPT !.at = "send", !.generation = nvs.generation]
        /\ UNCHANGED faults
     \/ hb' = [hb EXCEPT !.at = "send", !.generation = boot.generation]
        /\ Fault
  /\ UNCHANGED <<store, services, handler, core, sent, resets, drops>>

\* The report is received, or the session ends without.
SendHeartbeat ==
  /\ hb.at = "send"
  /\ \/ link /\ sent' = [node |-> hb.node, generation |-> hb.generation]
     \/ UNCHANGED sent
  /\ hb' = NoHeartbeat
  /\ UNCHANGED <<store, services, handler, core, bounds>>

-----------------------------------------------------------------------------
Requests == Push \/ PushAgain \/ AskPort

Serving ==
  Authorize \/ LoadCurrent \/ LoadFails \/ Commit \/ CommitFails \/ Answer
    \/ AnswerLost

Reporting == ReadNodeId \/ ReadGeneration \/ SendHeartbeat

Next ==
  \/ Boot \/ BootPanics \/ LinkReady \/ LinkDown \/ Reset
  \/ Requests \/ Serving \/ Reporting

Spec == Init /\ [][Next]_vars

\* The tasks run on (main.rs, http/mod.rs), the Wi-Fi manager reconnects
\* (main.rs: maintain), a hanging agent is power cycled, the Core repeats.
Fairness ==
  /\ WF_vars(Boot) /\ WF_vars(LinkReady)
  /\ WF_vars(Serving)
  /\ WF_vars(PushAgain)

FairSpec == Spec /\ Fairness

-----------------------------------------------------------------------------
(* Why it works: the parts of the inductive invariant.                     *)

\* The stored map already holds what a push asks for.
Holds(map, push) == Merge(map, push) = map

\* The services run only while the agent does, and were spawned once.
ServicesAreUp ==
  /\ link => up /\ ipServicesStarted
  /\ ipServicesStarted => up
  /\ spawned = IF ipServicesStarted THEN 1 ELSE 0
  /\ hb.at # "pause" => up

\* A push is only served while it is the open one of the Core.
RequestIsOpen ==
  handler.step # "idle" /\ handler.req = "config" =>
    handler.push = core.push /\ core.state = "open"

\* What is about to be written is the map read, merged, and differs from it;
\* what is answered is stored.
DraftIsMerged ==
  /\ handler.step = "load" => handler.req = "config"
  /\ handler.step = "commit" /\ handler.req = "config" =>
       handler.draft = Merge(nvs.map, handler.push) /\ handler.draft # nvs.map
  /\ handler.step = "commit" /\ handler.req = "port" =>
       handler.port \in StorablePorts
  /\ handler.step = "saved" /\ handler.req = "config" =>
       Holds(nvs.map, handler.push)

\* A closed push stays stored: only another push can change the map.
SavedIsStored == core.state = "saved" => Holds(nvs.map, core.push)

\* No report is ahead of the store, and one about to be sent is no older
\* than the last, unless it names the generation of the boot.
ReportsAreReal ==
  /\ boot.generation <= nvs.generation
  /\ sent.generation <= nvs.generation
  /\ hb.at = "send" =>
       /\ hb.generation <= nvs.generation
       /\ hb.generation = boot.generation \/ hb.generation >= sent.generation

-----------------------------------------------------------------------------
(* What must hold.                                                         *)

\* runtime_config.rs:198: however often a push is repeated, because it
\* failed, perhaps after it landed, or because its answer was lost, it
\* makes one generation at most, which holds it.
PushCountsOnce ==
  /\ nvs.generation \in {core.base, core.base + 1}
  /\ nvs.generation # core.base => Holds(nvs.map, core.push)

\* heartbeat.rs:260: a heartbeat with a newer generation than the push was
\* made on proves that the push is stored, even if no answer did.
ReportConfirmsPush ==
  sent.generation > core.base => Holds(nvs.map, core.push)

\* What GET /config answers.
View ==
  [generation |-> nvs.generation, active_generation |-> boot.generation,
   active |-> boot.map, nvs |-> nvs.map]

\* runtime_config.rs:119: a view whose two generations are equal says that
\* the pushes are in effect: its two maps must then be equal.
GenerationNamesContent ==
  up /\ View.generation = View.active_generation => View.active = View.nvs

\* The inductive invariant of the runtime configuration.
ConfigInv ==
  /\ ConfigTypeOK
  /\ ServicesAreUp
  /\ RequestIsOpen
  /\ DraftIsMerged
  /\ SavedIsStored
  /\ ReportsAreReal
  /\ PushCountsOnce
  /\ GenerationNamesContent

\* However requests, commits, answers, resets and boots interleave, fail and
\* are repeated, the agent implements a register in which a push is one step.
Register == INSTANCE ConfigRegister WITH
  Start     <- NoSnapshot,
  stored    <- nvs,
  effective <- boot,
  push      <- core.push,
  state     <- core.state,
  base      <- core.base

PushesAreAtomic == Register!Spec

\* api.rs:110, "effective_after_reboot": a push answered "saved" is in the
\* snapshot of every boot until the Core makes another, whatever failed.
SavedIsEffective ==
  [][~up /\ up' /\ core.state = "saved" => Holds(boot'.map, core.push)]_vars

\* runtime_config.rs:164: a reported generation goes back only to that of
\* the running snapshot, never below what the agent runs with.
ReportsGoBackToBoot ==
  [][sent'.generation < sent.generation =>
       up /\ sent'.generation = boot.generation]_vars

\* A Core that repeats its push is told that it is saved, or drops it,
\* unless the map would be too large.
PushSettles ==
  (core.state = "open" /\ Merge(nvs.map, core.push) \in Encodable) ~>
    core.state # "open"

\* agent.rs:113: the node_id is the provisioned one, the temporary one being
\* for a device without.
ReportsOwnNode == sent.node = "own"

-----------------------------------------------------------------------------
(* Why a push settles, as far as it does not depend on fairness.           *)

\* A request is served while the agent is up, one for a port while no push is
\* open.
RequestIsAlone ==
  handler.step # "idle" => up /\ (handler.req = "port" => core.state # "open")

\* The steps until an open push is answered saved.  Without a link the request
\* being served is lost, and another follows when the link is back.
StepsToSaved ==
  CASE ~up -> 7
    [] up /\ ~link ->
         (CASE handler.step = "authorize" -> 10
            [] handler.step = "load"      -> 9
            [] handler.step = "commit"    -> 8
            [] handler.step = "idle"      -> 6
            [] OTHER                      -> 7)
    [] up /\ link ->
         (CASE handler.step = "authorize" -> 4
            [] handler.step = "load"      -> 3
            [] handler.step = "commit"    -> 2
            [] handler.step = "saved"     -> 1
            [] handler.step = "idle"      -> 5
            [] OTHER                      -> 6)

\* runtime_config.rs:198: while nothing fails, each step of the agent and each
\* repeat of the Core brings the answer to an open push nearer, or ends it:
\* whatever had failed before, no push is stuck and none is repeated for ever.
EveryRepeatCounts ==
  [][/\ core.state = "open" /\ Merge(nvs.map, core.push) \in Encodable
     /\ Boot \/ LinkReady \/ PushAgain \/ Serving
     /\ UNCHANGED <<faults, drops>>
     => core.state' # "open" \/ StepsToSaved' < StepsToSaved]_vars

=============================================================================
