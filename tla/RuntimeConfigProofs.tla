------------------------- MODULE RuntimeConfigProofs -------------------------
(***************************************************************************)
(* The runtime configuration for any keys, values, budget and number of    *)
(* failures, repeats, link losses and resets: ConfigInv is inductive, a    *)
(* push counts once, a report confirms it, a boot takes it up.             *)
(***************************************************************************)
EXTENDS RuntimeConfig, TLAPS

\* What apply makes of a map is a map.
LEMMA MergeIsMap ==
  ASSUME NEW map \in Maps, NEW push \in Pushes
  PROVE  Merge(map, push) \in Maps
<1> SUFFICES ASSUME NEW k \in ValidKeys
             PROVE  (IF k \in DOMAIN push /\ push[k] # TooLong
                     THEN push[k] ELSE map[k]) \in Values \cup {NoValue}
  BY DEF Merge, Maps
<1>1. PICK D \in SUBSET Keys : push \in [D -> Values \cup {TooLong, NoValue}]
  BY DEF Pushes
<1> QED
  BY <1>1 DEF Maps

\* A push repeated on the map it made changes nothing.
LEMMA MergeIsIdempotent ==
  ASSUME NEW map, NEW push
  PROVE  Holds(Merge(map, push), push)
BY DEF Holds, Merge

\* The empty push is held by every map.
LEMMA NoPushHolds ==
  ASSUME NEW map \in Maps
  PROVE  NoPush \in Pushes /\ Holds(map, NoPush)
<1>1. NoPush \in [{} -> Values \cup {TooLong, NoValue}] /\ DOMAIN NoPush = {}
  BY DEF NoPush
<1>2. NoPush \in Pushes
  BY <1>1 DEF Pushes
<1>3. Holds(map, NoPush)
  BY <1>1 DEF Holds, Merge, Maps
<1> QED
  BY <1>2, <1>3

\* The constants of the initial state and of a reset have their types.
LEMMA ConstantsAreTyped ==
  /\ EmptyMap \in Maps
  /\ NoSnapshot \in Snapshots /\ NoSnapshot.generation = 0
  /\ NoSnapshot.map = EmptyMap
  /\ NoRequest \in Handlers /\ NoRequest.step = "idle"
  /\ NoHeartbeat \in Heartbeats /\ NoHeartbeat.at = "pause"
<1>1. EmptyMap \in Maps
  BY DEF EmptyMap, Maps
<1> QED
  BY <1>1, NoPushHolds DEF NoSnapshot, Snapshots, NoRequest, Handlers,
     HandlerSteps, NoHeartbeat, Heartbeats, NodeIds

\* ConfigInv holds at the start.
LEMMA ConfigInvInit == Init => ConfigInv
<1> SUFFICES ASSUME Init PROVE ConfigInv
  OBVIOUS
<1>1. core \in Cores /\ core.push = NoPush /\ core.base = 0
  BY NoPushHolds, ConstantsAreTyped DEF Init, Cores
<1>2. sent \in [node : NodeIds, generation : Nat] /\ sent.generation = 0
  BY DEF Init, NodeIds
<1>3. ConfigTypeOK
  <2>1. nvs \in Snapshots /\ boot \in Snapshots /\ handler \in Handlers
        /\ hb \in Heartbeats
    BY ConstantsAreTyped DEF Init
  <2>2. up \in BOOLEAN /\ link \in BOOLEAN /\ ipServicesStarted \in BOOLEAN
    BY DEF Init
  <2>3. /\ appPort \in {NoPort} \cup (Ports \cap StorablePorts)
        /\ spawned \in 0..1 /\ faults \in 0..MaxFaults
        /\ resets \in 0..MaxResets /\ drops \in 0..MaxDrops
    BY ConfigBoundsAssumption DEF Init
  <2> QED
    BY <1>1, <1>2, <2>1, <2>2, <2>3 DEF ConfigTypeOK
<1>4. Holds(nvs.map, core.push) /\ nvs.generation = 0
  BY <1>1, NoPushHolds, ConstantsAreTyped DEF Init
<1> QED
  BY <1>1, <1>2, <1>3, <1>4, ConstantsAreTyped
     DEF Init, ConfigInv, ServicesAreUp, RequestIsOpen, DraftIsMerged,
         SavedIsStored, ReportsAreReal, PushCountsOnce,
         GenerationNamesContent, View

\* The cast to 16 bits keeps every port that the API accepts.
LEMMA PortsFitIn16Bits ==
  ASSUME NEW p \in StorablePorts
  PROVE  p % 65536 = p /\ p # 0
<1>1. p \in Nat /\ p < 65536 /\ p # 0
  BY DEF StorablePorts
<1> QED
  BY <1>1, Z3

\* A write stores the draft in the next generation, or 16 bits of a port
\* that fits in them.
LEMMA WriteStores ==
  ASSUME ConfigInv, handler.step = "commit", Write
  PROVE  /\ nvs' \in Snapshots
         /\ appPort' \in {NoPort} \cup (Ports \cap StorablePorts)
         /\ handler.req = "config" =>
              /\ nvs'.generation = nvs.generation + 1
              /\ nvs.generation = core.base
              /\ Holds(nvs'.map, core.push)
              /\ handler.push = core.push /\ core.state = "open"
         /\ handler.req = "port" => nvs' = nvs
<1>1. CASE handler.req = "config"
  <2>1. nvs' = [generation |-> nvs.generation + 1, map |-> handler.draft]
        /\ appPort' = appPort
    BY <1>1 DEF Write
  <2>2. handler.draft = Merge(nvs.map, core.push) /\ handler.draft # nvs.map
        /\ handler.push = core.push /\ core.state = "open"
    BY <1>1 DEF ConfigInv, DraftIsMerged, RequestIsOpen
  <2>3. nvs.generation = core.base
    BY <2>2 DEF ConfigInv, PushCountsOnce, Holds
  <2>4. Holds(nvs'.map, core.push)
    BY <2>1, <2>2, MergeIsIdempotent
  <2>5. nvs' \in Snapshots /\ nvs'.generation = nvs.generation + 1
    BY <2>1 DEF ConfigInv, ConfigTypeOK, Snapshots, Handlers
  <2> QED
    BY <1>1, <2>1, <2>2, <2>3, <2>4, <2>5 DEF ConfigInv, ConfigTypeOK
<1>2. CASE handler.req = "port"
  <2>1. handler.port \in StorablePorts
    BY <1>2 DEF ConfigInv, DraftIsMerged
  <2>2. handler.port \in Ports
    <3>1. handler \in Handlers
      BY DEF ConfigInv, ConfigTypeOK
    <3>2. handler.port \in Ports \cup {0}
      BY <3>1 DEF Handlers, NoPort
    <3>3. handler.port # 0
      BY <2>1, PortsFitIn16Bits
    <3> QED
      BY <3>2, <3>3
  <2>3. handler.port % 65536 = handler.port
    BY <2>1, PortsFitIn16Bits
  <2> QED
    <3>1. nvs' = nvs /\ appPort' = handler.port
      BY <1>2, <2>3 DEF Write
    <3> QED
      BY <1>2, <2>1, <2>2, <3>1 DEF ConfigInv, ConfigTypeOK
<1> QED
  BY <1>1, <1>2 DEF ConfigInv, ConfigTypeOK, Handlers

\* The types are preserved by every action.
LEMMA TypeNext ==
  ASSUME ConfigInv, [Next]_vars
  PROVE  ConfigTypeOK'
<1> USE ConfigAssumption, ConfigBoundsAssumption, ConstantsAreTyped
<1> USE DEF ConfigInv, ConfigTypeOK
<1>1. CASE Boot
  BY <1>1 DEF Boot, bounds
<1>2. CASE BootPanics
  BY <1>2 DEF BootPanics, Fault, store, services
<1>3. CASE LinkReady
  <2>1. link' \in BOOLEAN /\ ipServicesStarted' \in BOOLEAN
    BY <1>3 DEF LinkReady, OnIpReady
  <2>2. spawned' \in 0..1
    BY <1>3 DEF LinkReady, OnIpReady, ServicesAreUp
  <2> QED
    BY <1>3, <2>1, <2>2 DEF LinkReady, store, bounds
<1>4. CASE LinkDown
  <2>1. link' \in BOOLEAN
    BY <1>4 DEF LinkDown
  <2>2. drops' \in 0..MaxDrops
    BY <1>4 DEF LinkDown
  <2> QED
    BY <1>4, <2>1, <2>2 DEF LinkDown, store
<1>5. CASE Reset
  <2>1. up' \in BOOLEAN /\ link' \in BOOLEAN /\ ipServicesStarted' \in BOOLEAN
    BY <1>5 DEF Reset
  <2>2. spawned' \in 0..1 /\ resets' \in 0..MaxResets
    BY <1>5 DEF Reset
  <2> QED
    BY <1>5, <2>1, <2>2 DEF Reset
<1>6. CASE Push
  <2>1. PICK push \in Pushes :
          /\ handler' = [NoRequest EXCEPT !.step = "authorize", !.push = push]
          /\ core' = [core EXCEPT !.push = push, !.state = "open",
                                  !.base = nvs.generation]
    BY <1>6 DEF Push
  <2>2. handler' \in Handlers /\ core' \in Cores
    BY <2>1 DEF Handlers, HandlerSteps, Cores, Snapshots
  <2> QED
    BY <1>6, <2>2 DEF Push, store, services, bounds
<1>7. CASE PushAgain
  BY <1>7 DEF PushAgain, Handlers, HandlerSteps, Cores, store, services, bounds
<1>8. CASE AskPort
  <2>1. PICK port \in Ports :
          handler' = [NoRequest EXCEPT !.step = "authorize", !.req = "port",
                                       !.port = port]
    BY <1>8 DEF AskPort
  <2>2. handler' \in Handlers
    BY <2>1 DEF Handlers, HandlerSteps
  <2> QED
    BY <1>8, <2>2 DEF AskPort, store, services, bounds
<1>9. CASE Authorize
  BY <1>9 DEF Authorize, AfterAuthorize, HandlerGoesTo, Fault, Handlers,
              HandlerSteps, store, services
<1>10. CASE LoadCurrent
  <2>1. Merge(nvs.map, handler.push) \in Maps
    BY MergeIsMap DEF Snapshots, Handlers
  <2>2. handler' \in Handlers
    BY <1>10, <2>1 DEF LoadCurrent, Handlers, HandlerSteps
  <2> QED
    BY <1>10, <2>2 DEF LoadCurrent, store, services, bounds
<1>11. CASE LoadFails
  BY <1>11 DEF LoadFails, HandlerGoesTo, Fault, Handlers, HandlerSteps, store,
               services
<1>12. CASE Commit
  BY <1>12, WriteStores DEF Commit, HandlerGoesTo, Handlers, HandlerSteps,
               services, bounds
<1>13. CASE CommitFails
  BY <1>13, WriteStores DEF CommitFails, HandlerGoesTo, Fault, Handlers,
               HandlerSteps, services
<1>14. CASE Answer
  BY <1>14 DEF Answer, Learns, Cores, store, services, bounds
<1>15. CASE AnswerLost
  BY <1>15 DEF AnswerLost, store, services
<1>16. CASE ReadNodeId
  <2>1. hb' \in Heartbeats
    BY <1>16 DEF ReadNodeId, Heartbeats, NodeIds
  <2>2. faults' \in 0..MaxFaults
    BY <1>16 DEF ReadNodeId, Fault
  <2> QED
    BY <1>16, <2>1, <2>2 DEF ReadNodeId, store, services
<1>17. CASE ReadGeneration
  <2>1. hb' \in Heartbeats
    BY <1>17 DEF ReadGeneration, Heartbeats, Snapshots
  <2>2. faults' \in 0..MaxFaults
    BY <1>17 DEF ReadGeneration, Fault
  <2> QED
    BY <1>17, <2>1, <2>2 DEF ReadGeneration, store, services
<1>18. CASE SendHeartbeat
  BY <1>18 DEF SendHeartbeat, Heartbeats, store, services, bounds
<1>19. CASE UNCHANGED vars
  BY <1>19 DEF vars, store, services, bounds
<1> QED
  BY <1>1, <1>2, <1>3, <1>4, <1>5, <1>6, <1>7, <1>8, <1>9, <1>10, <1>11,
     <1>12, <1>13, <1>14, <1>15, <1>16, <1>17, <1>18, <1>19
     DEF Next, Requests, Serving, Reporting

\* The services: spawned once, and only while the agent is up.
LEMMA ServicesNext ==
  ASSUME ConfigInv, [Next]_vars
  PROVE  ServicesAreUp'
<1> USE ConstantsAreTyped
<1> USE DEF ConfigInv, ServicesAreUp
<1>1. CASE LinkReady
  BY <1>1 DEF LinkReady, OnIpReady, ConfigTypeOK
<1>2. CASE Reset
  BY <1>2 DEF Reset
<1>3. CASE LinkDown
  BY <1>3 DEF LinkDown
<1>4. CASE Boot \/ BootPanics
  BY <1>4 DEF Boot, BootPanics, services
<1>5. CASE Requests \/ Serving
  <2>1. UNCHANGED <<services, hb>>
    <3>1. CASE Requests
      BY <3>1 DEF Requests, Push, PushAgain, AskPort
    <3>2. CASE Serving
      BY <3>2 DEF Serving, Authorize, LoadCurrent, LoadFails, Commit,
                  CommitFails, Answer, AnswerLost
    <3> QED
      BY <1>5, <3>1, <3>2
  <2> QED
    BY <2>1 DEF services
<1>6. CASE Reporting
  BY <1>6 DEF Reporting, ReadNodeId, ReadGeneration, SendHeartbeat, services,
              ConfigTypeOK, Heartbeats
<1>7. CASE UNCHANGED vars
  BY <1>7 DEF vars, services
<1> QED
  BY <1>1, <1>2, <1>3, <1>4, <1>5, <1>6, <1>7 DEF Next

\* The parts about the request, the push and the map.
LEMMA RequestNext ==
  ASSUME ConfigInv, [Next]_vars
  PROVE  RequestIsOpen' /\ DraftIsMerged' /\ SavedIsStored' /\ PushCountsOnce'
<1> USE ConstantsAreTyped
<1> USE DEF ConfigInv, RequestIsOpen, DraftIsMerged, SavedIsStored,
            PushCountsOnce
<1>1. CASE Boot \/ BootPanics \/ LinkReady \/ LinkDown \/ Reporting
  BY <1>1 DEF Boot, BootPanics, LinkReady, LinkDown, Reporting, ReadNodeId,
              ReadGeneration, SendHeartbeat, store
<1>2. CASE Reset
  BY <1>2 DEF Reset
<1>3. CASE Push
  <2>1. PICK push \in Pushes :
          /\ handler' = [NoRequest EXCEPT !.step = "authorize", !.push = push]
          /\ core' = [core EXCEPT !.push = push, !.state = "open",
                                  !.base = nvs.generation]
    BY <1>3 DEF Push
  <2>2. /\ handler'.step = "authorize" /\ handler'.push = push
        /\ core'.push = push /\ core'.state = "open"
        /\ core'.base = nvs.generation
    BY <2>1 DEF ConfigTypeOK, Cores, Handlers
  <2> QED
    BY <1>3, <2>2 DEF Push, store
<1>4. CASE PushAgain
  <2>1. handler'.step = "authorize" /\ handler'.push = core.push
    BY <1>4 DEF PushAgain, Handlers
  <2> QED
    BY <1>4, <2>1 DEF PushAgain, store
<1>5. CASE AskPort
  <2>1. handler'.step = "authorize" /\ handler'.req = "port"
    BY <1>5 DEF AskPort, Handlers
  <2> QED
    BY <1>5, <2>1 DEF AskPort, store
<1>6. CASE Authorize
  <2>1. /\ AfterAuthorize \in {"load", "commit", "refused"}
        /\ AfterAuthorize = "load" => handler.req = "config"
        /\ AfterAuthorize = "commit" =>
             handler.req # "config" /\ handler.port \in StorablePorts
    BY DEF AfterAuthorize
  <2>2. /\ handler'.step \in {AfterAuthorize, "refused"}
        /\ handler'.req = handler.req /\ handler'.push = handler.push
        /\ handler'.port = handler.port
        /\ UNCHANGED <<nvs, core>> /\ handler.step = "authorize"
    BY <1>6 DEF Authorize, HandlerGoesTo, ConfigTypeOK, Handlers, store
  <2> QED
    BY <2>1, <2>2
<1>7. CASE LoadCurrent
  <2> DEFINE map == Merge(nvs.map, handler.push)
  <2>1. /\ handler' = [handler EXCEPT !.draft = map,
                         !.step = CASE map = nvs.map -> "saved"
                           [] map # nvs.map /\ map \in Encodable -> "commit"
                           [] OTHER -> "failed"]
        /\ UNCHANGED <<nvs, core>> /\ handler.step = "load"
    BY <1>7 DEF LoadCurrent, store
  <2> HIDE DEF map
  <2>2. /\ handler'.draft = map /\ handler'.req = handler.req
        /\ handler'.push = handler.push /\ handler'.port = handler.port
        /\ handler'.step \in {"saved", "commit", "failed"}
        /\ handler'.step = "saved" => map = nvs.map
        /\ handler'.step = "commit" => map # nvs.map
    BY <2>1 DEF ConfigTypeOK, Handlers
  <2> QED
    BY <2>1, <2>2 DEF map, Holds
<1>8. CASE LoadFails
  BY <1>8 DEF LoadFails, HandlerGoesTo, ConfigTypeOK, Handlers, store
<1>9. CASE Commit
  BY <1>9, WriteStores DEF Commit, HandlerGoesTo, ConfigTypeOK, Handlers
<1>10. CASE CommitFails
  BY <1>10, WriteStores DEF CommitFails, HandlerGoesTo, ConfigTypeOK, Handlers,
     store
<1>11. CASE Answer
  BY <1>11 DEF Answer, Learns, ConfigTypeOK, Cores, store
<1>12. CASE AnswerLost
  BY <1>12 DEF AnswerLost, store
<1>13. CASE UNCHANGED vars
  BY <1>13 DEF vars, store
<1> QED
  BY <1>1, <1>2, <1>3, <1>4, <1>5, <1>6, <1>7, <1>8, <1>9, <1>10, <1>11,
     <1>12, <1>13 DEF Next, Requests, Serving

\* The parts about the generations.
LEMMA GenerationsNext ==
  ASSUME ConfigInv, [Next]_vars
  PROVE  ReportsAreReal' /\ GenerationNamesContent'
<1> USE ConstantsAreTyped
<1> USE DEF ConfigInv, ReportsAreReal, GenerationNamesContent, View
<1>t. /\ nvs.generation \in Nat /\ boot.generation \in Nat
      /\ sent.generation \in Nat /\ hb.generation \in Nat /\ hb \in Heartbeats
  BY DEF ConfigTypeOK, Snapshots, Heartbeats
<1>1. CASE Boot
  BY <1>1, <1>t DEF Boot, ServicesAreUp
<1>2. CASE Reset
  BY <1>2, <1>t DEF Reset
<1>3. CASE BootPanics \/ LinkReady \/ LinkDown \/ Requests
  <2>1. UNCHANGED <<nvs, boot, up, hb, sent>>
    BY <1>3 DEF BootPanics, LinkReady, LinkDown, Requests, Push, PushAgain,
                AskPort, store, services
  <2> QED
    BY <2>1
<1>4. CASE Authorize \/ LoadCurrent \/ LoadFails \/ Answer \/ AnswerLost
  BY <1>4 DEF Authorize, LoadCurrent, LoadFails, Answer, AnswerLost, store,
              services
<1>5. ASSUME handler.step = "commit", Write, UNCHANGED <<boot, services, hb, sent>>
      PROVE  ReportsAreReal' /\ GenerationNamesContent'
  <2>1. nvs' = nvs \/ nvs'.generation = nvs.generation + 1
    BY <1>5, WriteStores DEF ConfigTypeOK, Handlers
  <2> QED
    BY <1>5, <1>t, <2>1 DEF services
<1>6. CASE Commit \/ CommitFails
  <2>1. CASE Write
    BY <1>5, <1>6, <2>1 DEF Commit, CommitFails
  <2>2. CASE UNCHANGED nvs
    BY <1>6, <2>2 DEF Commit, CommitFails, services
  <2> QED
    BY <1>6, <2>1, <2>2 DEF Commit, CommitFails
<1>7. CASE ReadNodeId
  BY <1>7, <1>t DEF ReadNodeId, Heartbeats, store, services
<1>8. CASE ReadGeneration
  <2>1. /\ hb'.at = "send"
        /\ hb'.generation \in {nvs.generation, boot.generation}
        /\ UNCHANGED <<nvs, boot, up, sent>>
    BY <1>8, <1>t DEF ReadGeneration, Heartbeats, store, services
  <2> QED
    BY <2>1, <1>t
<1>9. CASE SendHeartbeat
  BY <1>9, <1>t DEF SendHeartbeat, store, services
<1>10. CASE UNCHANGED vars
  BY <1>10 DEF vars, store, services
<1> QED
  BY <1>1, <1>2, <1>3, <1>4, <1>6, <1>7, <1>8, <1>9, <1>10
     DEF Next, Serving, Reporting

\* The inductive step.
LEMMA ConfigInvNext == ConfigInv /\ [Next]_vars => ConfigInv'
BY TypeNext, ServicesNext, RequestNext, GenerationsNext DEF ConfigInv

\* The inductive invariant holds at all times.
THEOREM ConfigInvariance == Spec => []ConfigInv
BY ConfigInvInit, ConfigInvNext, PTL DEF Spec

\* Type correctness: the tasks are spawned once however often the link comes
\* back, and only ports that were asked for and fit are stored.
THEOREM ConfigTypeCorrect == Spec => []ConfigTypeOK
<1>1. ConfigInv => ConfigTypeOK
  BY DEF ConfigInv
<1> QED
  BY <1>1, ConfigInvariance, PTL

\* A push repeated any number of times, over any failures and resets, makes
\* one generation at most.
THEOREM PushAlwaysCountsOnce == Spec => []PushCountsOnce
<1>1. ConfigInv => PushCountsOnce
  BY DEF ConfigInv
<1> QED
  BY <1>1, ConfigInvariance, PTL

\* A heartbeat with a newer generation than the push was made on proves that
\* the push is stored.
THEOREM ReportAlwaysConfirmsPush == Spec => []ReportConfirmsPush
<1>1. ConfigInv => ReportConfirmsPush
  <2> SUFFICES ASSUME ConfigInv, sent.generation > core.base
               PROVE  Holds(nvs.map, core.push)
    BY DEF ReportConfirmsPush
  <2>1. nvs.generation \in Nat /\ sent.generation \in Nat /\ core.base \in Nat
    BY DEF ConfigInv, ConfigTypeOK, Snapshots, Cores
  <2>2. nvs.generation # core.base
    BY <2>1 DEF ConfigInv, ReportsAreReal
  <2> QED
    BY <2>2 DEF ConfigInv, PushCountsOnce
<1> QED
  BY <1>1, ConfigInvariance, PTL

\* Two equal generations in a view stand for two equal maps.
THEOREM GenerationAlwaysNamesContent == Spec => []GenerationNamesContent
<1>1. ConfigInv => GenerationNamesContent
  BY DEF ConfigInv
<1> QED
  BY <1>1, ConfigInvariance, PTL

\* The snapshot of a boot holds the push last answered "saved".
THEOREM SavedIsAlwaysEffective == Spec => SavedIsEffective
<1>1. ConfigInv /\ [Next]_vars =>
        [~up /\ up' /\ core.state = "saved" => Holds(boot'.map, core.push)]_vars
  <2> SUFFICES ASSUME ConfigInv, [Next]_vars, ~up, up', core.state = "saved"
               PROVE  Holds(boot'.map, core.push)
    OBVIOUS
  <2>1. CASE Boot
    BY <2>1 DEF Boot, ConfigInv, SavedIsStored
  <2>2. CASE BootPanics \/ LinkReady \/ LinkDown \/ Reset
    BY <2>2 DEF BootPanics, LinkReady, LinkDown, Reset, services
  <2>3. CASE Requests
    BY <2>3 DEF Requests, Push, PushAgain, AskPort, services
  <2>4. CASE Serving
    BY <2>4 DEF Serving, Authorize, LoadCurrent, LoadFails, Commit,
                CommitFails, Answer, AnswerLost, services
  <2>5. CASE Reporting
    BY <2>5 DEF Reporting, ReadNodeId, ReadGeneration, SendHeartbeat, services
  <2>6. CASE UNCHANGED vars
    BY <2>6 DEF vars, services
  <2> QED
    BY <2>1, <2>2, <2>3, <2>4, <2>5, <2>6 DEF Next
<1> QED
  BY <1>1, ConfigInvariance, PTL DEF Spec, SavedIsEffective

\* A reported generation goes back only to that of the running snapshot.
THEOREM ReportsOnlyGoBackToBoot == Spec => ReportsGoBackToBoot
<1>1. ConfigInv /\ [Next]_vars =>
        [sent'.generation < sent.generation =>
           up /\ sent'.generation = boot.generation]_vars
  <2> SUFFICES ASSUME ConfigInv, [Next]_vars,
                      sent'.generation < sent.generation
               PROVE  up /\ sent'.generation = boot.generation
    OBVIOUS
  <2>t. sent.generation \in Nat /\ hb.generation \in Nat
    BY DEF ConfigInv, ConfigTypeOK, Heartbeats
  <2>1. CASE SendHeartbeat
    <3>1. sent'.generation = hb.generation /\ hb.at = "send"
      BY <2>1, <2>t DEF SendHeartbeat
    <3> QED
      BY <2>t, <3>1 DEF ConfigInv, ReportsAreReal, ServicesAreUp
  <2>2. CASE UNCHANGED sent
    BY <2>2, <2>t
  <2>3. SendHeartbeat \/ UNCHANGED sent
    BY DEF Next, Boot, BootPanics, LinkReady, LinkDown, Reset, Requests, Push,
           PushAgain, AskPort, Serving, Authorize, LoadCurrent, LoadFails,
           Commit, CommitFails, Answer, AnswerLost, Reporting, ReadNodeId,
           ReadGeneration, vars
  <2> QED
    BY <2>1, <2>2, <2>3
<1> QED
  BY <1>1, ConfigInvariance, PTL DEF Spec, ReportsGoBackToBoot

-----------------------------------------------------------------------------
(* The agent implements ConfigRegister.                                    *)

\* A write is the one step in which the open push is applied.
LEMMA WriteApplies ==
  ASSUME ConfigInv, handler.step = "commit", Write, UNCHANGED <<boot, core>>
  PROVE  Register!Apply \/ UNCHANGED <<nvs, boot, core>>
<1>1. CASE handler.req = "config"
  <2>1. nvs' = [generation |-> nvs.generation + 1, map |-> handler.draft]
    BY <1>1 DEF Write
  <2>2. /\ handler.draft = Merge(nvs.map, core.push)
        /\ handler.draft # nvs.map /\ core.state = "open"
    BY <1>1 DEF ConfigInv, DraftIsMerged, RequestIsOpen
  <2>3. nvs.generation = core.base
    BY <1>1, WriteStores
  <2> QED
    BY <2>1, <2>2, <2>3 DEF Register!Apply
<1>2. CASE handler.req # "config"
  BY <1>2 DEF Write
<1> QED
  BY <1>1, <1>2

\* The initial states map to initial states, every step to a step or a
\* stutter: a push is applied by the commit that lands, confirmed or given up
\* by an answer that arrives.
THEOREM PushesAreAlwaysAtomic == Spec => PushesAreAtomic
<1>1. Init => Register!Init
  BY ConstantsAreTyped DEF Init, Register!Init
<1>2. ASSUME ConfigInv, [Next]_vars
      PROVE  [Register!Next]_<<nvs, boot, core.push, core.state, core.base>>
  <2> USE <1>2 DEF ConfigInv
  <2>1. CASE Boot \/ Reset
    BY <2>1 DEF Boot, Reset, Register!Next, Register!TakeUp
  <2>2. CASE BootPanics \/ LinkReady \/ LinkDown \/ Reporting
    BY <2>2 DEF BootPanics, LinkReady, LinkDown, Reporting, ReadNodeId,
       ReadGeneration, SendHeartbeat, store
  <2>3. CASE Push
    <3>1. PICK push \in Pushes :
            core' = [core EXCEPT !.push = push, !.state = "open",
                                 !.base = nvs.generation]
      BY <2>3 DEF Push
    <3>2. /\ core'.push = push /\ core'.state = "open"
          /\ core'.base = nvs.generation
      BY <3>1 DEF ConfigTypeOK, Cores
    <3>3. core.state # "open" /\ UNCHANGED <<nvs, boot>>
      BY <2>3 DEF Push, store
    <3> QED
      BY <3>2, <3>3 DEF Register!Next, Register!Offer
  <2>4. CASE PushAgain \/ AskPort
    BY <2>4 DEF PushAgain, AskPort, store
  <2>5. CASE Authorize \/ LoadCurrent \/ LoadFails \/ AnswerLost
    BY <2>5 DEF Authorize, LoadCurrent, LoadFails, AnswerLost, store
  <2>6. CASE Commit \/ CommitFails
    <3>1. CASE Write
      BY <2>6, <3>1, WriteApplies DEF Commit, CommitFails, Register!Next
    <3>2. CASE UNCHANGED nvs
      BY <2>6, <3>2 DEF Commit, CommitFails
    <3> QED
      BY <2>6, <3>1, <3>2 DEF Commit, CommitFails
  <2>7. CASE Answer
    <3>1. CASE handler.req = "config" /\ handler.step = "saved"
      <4>1. Merge(nvs.map, core.push) = nvs.map /\ core.state = "open"
        BY <3>1 DEF RequestIsOpen, DraftIsMerged, Holds
      <4>2. /\ core'.state = "saved" /\ core'.push = core.push
            /\ core'.base = core.base /\ UNCHANGED <<nvs, boot>>
        BY <2>7, <3>1 DEF Answer, Learns, ConfigTypeOK, Cores, store
      <4> QED
        BY <4>1, <4>2 DEF Register!Next, Register!Confirm
    <3>2. CASE handler.req = "config" /\ handler.step = "failed"
      <4>1. core.state = "open"
        BY <3>2 DEF RequestIsOpen
      <4>2. /\ core' = core \/ core'.state = "dropped"
            /\ core'.push = core.push /\ core'.base = core.base
            /\ UNCHANGED <<nvs, boot>>
        BY <2>7, <3>2 DEF Answer, Learns, ConfigTypeOK, Cores, store
      <4> QED
        BY <4>1, <4>2 DEF Register!Next, Register!GiveUp
    <3>3. CASE ~(handler.req = "config" /\ handler.step \in {"saved", "failed"})
      BY <2>7, <3>3 DEF Answer, Learns, store
    <3> QED
      BY <3>1, <3>2, <3>3
  <2>8. CASE UNCHANGED vars
    BY <2>8 DEF vars, store
  <2> QED
    BY <2>1, <2>2, <2>3, <2>4, <2>5, <2>6, <2>7, <2>8
       DEF Next, Requests, Serving
<1> QED
  BY <1>1, <1>2, ConfigInvariance, PTL
     DEF Spec, PushesAreAtomic, Register!Spec

-----------------------------------------------------------------------------
(* A push settles.                                                         *)

\* A request stays alone.
LEMMA RequestStaysAlone ==
  ASSUME ConfigInv, RequestIsAlone, [Next]_vars
  PROVE  RequestIsAlone'
<1>0. /\ handler \in Handlers /\ core \in Cores
      /\ link => up
  BY DEF ConfigInv, ConfigTypeOK, ServicesAreUp
<1>1. CASE UNCHANGED <<handler, core, up>>
  BY <1>1 DEF RequestIsAlone
<1>2. CASE BootPanics \/ LinkReady \/ LinkDown \/ Reporting
  BY <1>1, <1>2 DEF BootPanics, LinkReady, LinkDown, Reporting, ReadNodeId,
     ReadGeneration, SendHeartbeat, services
<1>3. CASE Boot
  BY <1>3 DEF Boot, RequestIsAlone
<1>4. ASSUME handler' = NoRequest PROVE RequestIsAlone'
  BY <1>4 DEF NoRequest, RequestIsAlone
<1>5. CASE Push \/ PushAgain
  <2>1. handler'.req = "config" /\ up'
    BY <1>0, <1>5 DEF Push, PushAgain, NoRequest, Listening, services
  <2> QED
    BY <2>1 DEF RequestIsAlone
<1>6. CASE AskPort
  BY <1>0, <1>6 DEF AskPort, Listening, services, RequestIsAlone
<1>7. CASE Authorize \/ LoadCurrent \/ LoadFails \/ Commit \/ CommitFails
  <2>1. handler.step # "idle" /\ UNCHANGED <<core, up>>
    BY <1>7 DEF Authorize, LoadCurrent, LoadFails, Commit, CommitFails, services
  <2>2. handler'.req = handler.req
    BY <1>0, <1>7 DEF Authorize, LoadCurrent, LoadFails, Commit, CommitFails,
       HandlerGoesTo, Handlers
  <2> QED
    BY <2>1, <2>2 DEF RequestIsAlone
<1>8. CASE Answer \/ AnswerLost \/ Reset
  BY <1>4, <1>8 DEF Answer, AnswerLost, Reset
<1> QED
  BY <1>1, <1>2, <1>3, <1>5, <1>6, <1>7, <1>8
  DEF Next, Requests, Serving, vars, services

\* runtime_config.rs:198: while nothing fails, each step of the agent and each
\* repeat of the Core brings the answer to an open push nearer, or ends it.
THEOREM EveryRepeatAlwaysCounts == Spec => EveryRepeatCounts
<1>1. Init => RequestIsAlone
  BY DEF Init, NoRequest, RequestIsAlone
<1>2. ConfigInv /\ RequestIsAlone /\ [Next]_vars => RequestIsAlone'
  BY RequestStaysAlone
<1>3. ASSUME ConfigInv, RequestIsAlone, core.state = "open",
             Merge(nvs.map, core.push) \in Encodable,
             Boot \/ LinkReady \/ PushAgain \/ Serving,
             UNCHANGED <<faults, drops>>
      PROVE  core.state' # "open" \/ StepsToSaved' < StepsToSaved
  <2>0. /\ handler \in Handlers /\ up \in BOOLEAN /\ link \in BOOLEAN
        /\ link => up
        /\ ~Fault
        /\ handler.step # "idle" =>
             up /\ handler.req = "config" /\ handler.push = core.push
    <3>1. faults \in Nat
      BY <1>3, ConfigBoundsAssumption DEF ConfigInv, ConfigTypeOK
    <3>2. handler \in Handlers /\ up \in BOOLEAN /\ link \in BOOLEAN
      BY <1>3 DEF ConfigInv, ConfigTypeOK
    <3>3. handler.req \in {"config", "port"}
      BY <3>2 DEF Handlers
    <3> QED
      BY <1>3, <3>1, <3>2, <3>3
      DEF ConfigInv, ServicesAreUp, RequestIsOpen, RequestIsAlone, Fault
  <2>1. CASE Boot
    BY <2>0, <2>1 DEF Boot, StepsToSaved
  <2>2. CASE LinkReady
    <3>1. up /\ ~link /\ link' /\ UNCHANGED <<up, handler>>
      BY <2>2 DEF LinkReady
    <3> QED
      BY <2>0, <3>1 DEF StepsToSaved
  <2>3. CASE PushAgain
    <3>1. up /\ link /\ up' /\ link' /\ handler.step = "idle"
      BY <2>0, <2>3 DEF PushAgain, Listening, services
    <3>2. handler'.step = "authorize"
      BY <2>3 DEF PushAgain, NoRequest
    <3> QED
      BY <3>1, <3>2 DEF StepsToSaved
  <2>4. CASE Authorize
    <3>1. /\ handler.step = "authorize" /\ UNCHANGED <<up, link>>
          /\ HandlerGoesTo("load")
      BY <2>0, <2>4 DEF Authorize, AfterAuthorize, services
    <3>2. handler'.step = "load"
      BY <2>0, <3>1 DEF HandlerGoesTo, Handlers
    <3> QED
      BY <2>0, <3>1, <3>2 DEF StepsToSaved
  <2>5. CASE LoadCurrent
    <3>1. handler.step = "load" /\ UNCHANGED <<up, link>>
      BY <2>5 DEF LoadCurrent, services
    <3>2. Merge(nvs.map, handler.push) \in Encodable
      BY <1>3, <2>0, <3>1
    <3>3. handler'.step \in {"saved", "commit"}
      BY <2>0, <2>5, <3>2 DEF LoadCurrent, Handlers
    <3> QED
      BY <2>0, <3>1, <3>3 DEF StepsToSaved
  <2>6. CASE Commit
    <3>1. /\ handler.step = "commit" /\ UNCHANGED <<up, link>>
          /\ HandlerGoesTo("saved")
      BY <2>6 DEF Commit, services
    <3>2. handler'.step = "saved"
      BY <2>0, <3>1 DEF HandlerGoesTo, Handlers
    <3> QED
      BY <2>0, <3>1, <3>2 DEF StepsToSaved
  <2>7. CASE Answer
    <3>1. /\ handler.step \in {"saved", "refused", "failed"} /\ link
          /\ UNCHANGED <<up, link>> /\ handler'.step = "idle"
      BY <2>7 DEF Answer, services, NoRequest
    <3>2. CASE handler.step = "saved"
      <4>1. core' = [core EXCEPT !.state = "saved"] /\ core \in Cores
        BY <1>3, <2>0, <2>7, <3>2 DEF Answer, Learns, ConfigInv, ConfigTypeOK
      <4>2. core'.state = "saved"
        BY <4>1 DEF Cores
      <4> QED
        BY <4>2
    <3>3. CASE handler.step \in {"refused", "failed"}
      BY <2>0, <3>1, <3>3 DEF StepsToSaved
    <3> QED
      BY <3>1, <3>2, <3>3
  <2>8. CASE AnswerLost
    <3>1. /\ handler.step \in {"saved", "refused", "failed"}
          /\ UNCHANGED <<up, link>> /\ handler'.step = "idle"
      BY <2>8 DEF AnswerLost, services, NoRequest
    <3>2. ~link
      <4>1. drops \in Nat
        BY <1>3, ConfigBoundsAssumption DEF ConfigInv, ConfigTypeOK
      <4> QED
        BY <1>3, <2>8, <4>1 DEF AnswerLost
    <3> QED
      BY <2>0, <3>1, <3>2 DEF StepsToSaved
  <2>9. ~LoadFails /\ ~CommitFails
    BY <2>0 DEF LoadFails, CommitFails
  <2> QED
    BY <1>3, <2>1, <2>2, <2>3, <2>4, <2>5, <2>6, <2>7, <2>8, <2>9 DEF Serving
<1>4. ConfigInv /\ RequestIsAlone /\ [Next]_vars =>
        [/\ core.state = "open" /\ Merge(nvs.map, core.push) \in Encodable
         /\ Boot \/ LinkReady \/ PushAgain \/ Serving
         /\ UNCHANGED <<faults, drops>>
         => core.state' # "open" \/ StepsToSaved' < StepsToSaved]_vars
  BY <1>3
<1> QED
  BY <1>1, <1>2, <1>4, ConfigInvariance, PTL DEF Spec, EveryRepeatCounts

=============================================================================
