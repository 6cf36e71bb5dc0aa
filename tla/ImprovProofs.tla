----------------------------- MODULE ImprovProofs -----------------------------
(***************************************************************************)
(* The provisioning page is started once, and before any browser is told   *)
(* where it is, whatever the number of reloads and losses.                 *)
(***************************************************************************)
EXTENDS Improv, TLAPS

USE ImprovAssumption

\* The frames a handler sends; only the results with a URL are not plain.
LEMMA FramesTyped ==
  /\ PlainFrames \subseteq Frames
  /\ \A s \in States : StateFrame(s) \in PlainFrames
  /\ \A c \in Commands : Result(c, FALSE) \in PlainFrames
  /\ \A c \in Commands, url \in BOOLEAN : Result(c, url) \in Frames
  /\ Entry \in PlainFrames /\ Error \in PlainFrames
<1>1. PlainFrames \subseteq Frames
  BY DEF PlainFrames, Frames
<1>2. \A s \in States : StateFrame(s) \in PlainFrames
  BY DEF StateFrame, PlainFrames
<1>3. \A c \in Commands : Result(c, FALSE) \in PlainFrames
  BY DEF Result, PlainFrames
<1>4. \A c \in Commands, url \in BOOLEAN : Result(c, url) \in Frames
  BY DEF Result, Frames
<1>5. Entry \in PlainFrames /\ Error \in PlainFrames
  BY DEF Entry, Error, PlainFrames, Commands
<1> QED
  BY <1>1, <1>2, <1>3, <1>4, <1>5

\* What the browser waits for after a frame.
LEMMA AwaitsTyped ==
  ASSUME ImprovTypeOK, NEW f
  PROVE  AwaitsAfter(f) \in {"nothing", "state", "result"}
BY DEF AwaitsAfter, ImprovTypeOK

\* The commands stay typed when one is taken.
LEMMA TakeTyped ==
  ASSUME ImprovTypeOK, NEW c, Take(c)
  PROVE  commands' \in Seq(Commands)
BY DEF ImprovTypeOK, Take

\* A frame that is sent leaves the frames typed, and plain when it is plain.
LEMMA SendTyped ==
  ASSUME NEW S, frames \in Seq(S), NEW f \in S, Send(f)
  PROVE  frames' \in Seq(S)
BY DEF Send

\* The same for one sequence after another.
LEMMA JoinTyped ==
  ASSUME NEW S, NEW s \in Seq(S), NEW t \in Seq(S)
  PROVE  s \o t \in Seq(S)
OBVIOUS

\* A sequence of one.
LEMMA OneTyped ==
  ASSUME NEW S, NEW e \in S
  PROVE  <<e>> \in Seq(S)
OBVIOUS

\* The same for two frames.
LEMMA SendTwoTyped ==
  ASSUME NEW S, NEW s \in Seq(S), NEW e \in S, NEW f \in S
  PROVE  s \o <<e, f>> \in Seq(S)
<1>1. <<e, f>> \in Seq(S)
  OBVIOUS
<1> QED
  BY <1>1

\* Whatever was found, the end of a scan is plain.
LEMMA ScannedTyped ==
  ASSUME NEW S, frames \in Seq(S), Scanned,
         Entry \in S, Result("networks", FALSE) \in S
  PROVE  frames' \in Seq(S)
<1>1. PICK found \in {<<>>, <<Entry>>} :
        frames' = frames \o found \o <<Result("networks", FALSE)>>
  BY DEF Scanned
<1>2. <<>> \in Seq(S) /\ <<Entry>> \in Seq(S)
  BY OneTyped
<1>3. found \in Seq(S)
  BY <1>1, <1>2
<1>4. frames \o found \in Seq(S)
  BY <1>3, JoinTyped
<1>5. <<Result("networks", FALSE)>> \in Seq(S)
  BY OneTyped
<1> QED
  BY <1>1, <1>4, <1>5, JoinTyped

\* Once Wi-Fi has been up there is a page, or there was no handle.
LEMMA NetworkUpTyped ==
  ASSUME ImprovTypeOK, NetworkUp
  PROVE  /\ link' = "up"
         /\ pages' \in 0..1 /\ handleless' \in BOOLEAN
         /\ pages' > 0 \/ handleless'
<1>1. CASE OnNetworkReady /\ UNCHANGED handleless
  BY <1>1 DEF ImprovTypeOK, NetworkUp, OnNetworkReady
<1>2. CASE handleless' = TRUE /\ UNCHANGED pages
  BY <1>2 DEF ImprovTypeOK, NetworkUp
<1> QED
  BY <1>1, <1>2 DEF NetworkUp

-----------------------------------------------------------------------------
(* The inductive invariant.                                                *)

\* A handler that sends at most one plain frame and keeps Wi-Fi, page and
\* browser keeps the invariant.
LEMMA PlainHandlerKeeps ==
  ASSUME ImprovInv,
         at' \in {"boot", "start", "listen", "scan", "connect", "current",
                  "settings"},
         state' \in States,
         commands' \in Seq(Commands),
         frames' \in Seq(Frames),
         frames \in Seq(PlainFrames) => frames' \in Seq(PlainFrames),
         UNCHANGED <<pages, handleless, link, browser, bounds>>
  PROVE  ImprovInv'
<1>1. ImprovTypeOK'
  BY DEF ImprovInv, ImprovTypeOK, browser, bounds
<1>2. NoUrlBeforeThePage'
  BY DEF ImprovInv, NoUrlBeforeThePage, browser
<1> QED
  BY <1>1, <1>2 DEF ImprovInv

\* The handlers preserve the invariant.
LEMMA HandleNext ==
  ASSUME ImprovInv, Handle
  PROVE  ImprovInv'
<1>0. ImprovTypeOK /\ NoUrlBeforeThePage /\ frames \in Seq(Frames)
  BY DEF ImprovInv, ImprovTypeOK
<1> USE <1>0
<1>1. CASE GetCurrentState
  <2>1. state \in States
    BY DEF ImprovTypeOK
  <2>2. StateFrame(state) \in Frames /\ StateFrame(state) \in PlainFrames
    BY <2>1, FramesTyped
  <2>3. Take("current") /\ Send(StateFrame(state))
    BY <1>1 DEF GetCurrentState
  <2>4. commands' \in Seq(Commands) /\ frames' \in Seq(Frames)
    BY <2>2, <2>3, TakeTyped, SendTyped
  <2>5. frames \in Seq(PlainFrames) => frames' \in Seq(PlainFrames)
    BY <2>2, <2>3, SendTyped
  <2>6. /\ at' \in {"listen", "current"} /\ state' = state
        /\ UNCHANGED <<pages, handleless, link, browser, bounds>>
    BY <1>1 DEF GetCurrentState
  <2> QED
    BY <2>1, <2>4, <2>5, <2>6, PlainHandlerKeeps
<1>2. CASE SendUrl
  <2>1. /\ at \in Commands /\ (link = "up") \in BOOLEAN
        /\ Send(Result(at, link = "up"))
    BY <1>2 DEF SendUrl, Commands
  <2>2. Result(at, link = "up") \in Frames
    BY <2>1, FramesTyped
  <2>3. frames' \in Seq(Frames)
    BY <2>1, <2>2, SendTyped
  <2>4. CASE link = "up"
    <3>1. pages > 0 \/ handleless
      BY <2>4 DEF NoUrlBeforeThePage
    <3>2. ImprovTypeOK'
      BY <1>2, <2>3 DEF SendUrl, ImprovTypeOK, browser, bounds
    <3> QED
      BY <1>2, <3>1, <3>2 DEF SendUrl, ImprovInv, NoUrlBeforeThePage
  <2>5. CASE link # "up"
    <3>1. (link = "up") <=> FALSE
      BY <2>5
    <3>2. Send(Result(at, FALSE)) /\ Result(at, FALSE) \in PlainFrames
      BY <2>1, <3>1, FramesTyped
    <3>3. frames \in Seq(PlainFrames) => frames' \in Seq(PlainFrames)
      BY <3>2, SendTyped
    <3>4. state' \in States /\ commands' \in Seq(Commands)
      BY <1>2 DEF SendUrl, ImprovTypeOK
    <3> QED
      BY <1>2, <2>3, <3>3, <3>4, PlainHandlerKeeps DEF SendUrl
  <2> QED
    BY <2>4, <2>5
<1>3. CASE GetDeviceInfo
  <2>1. Take("info") /\ Send(Result("info", FALSE))
    BY <1>3 DEF GetDeviceInfo
  <2>2. /\ Result("info", FALSE) \in Frames
        /\ Result("info", FALSE) \in PlainFrames
    BY FramesTyped DEF Commands
  <2>3. commands' \in Seq(Commands) /\ frames' \in Seq(Frames)
    BY <2>1, <2>2, TakeTyped, SendTyped
  <2>4. frames \in Seq(PlainFrames) => frames' \in Seq(PlainFrames)
    BY <2>1, <2>2, SendTyped
  <2> QED
    BY <1>3, <2>3, <2>4, PlainHandlerKeeps DEF GetDeviceInfo, device, ImprovTypeOK
<1>4. CASE GetNetworkState
  <2>1. Take("network_state") /\ Send(Result("network_state", link = "up"))
    BY <1>4 DEF GetNetworkState
  <2>2. Result("network_state", link = "up") \in Frames
    BY FramesTyped DEF Commands
  <2>3. commands' \in Seq(Commands) /\ frames' \in Seq(Frames)
    BY <2>1, <2>2, TakeTyped, SendTyped
  <2>4. CASE link = "up"
    <3>1. pages > 0 \/ handleless
      BY <2>4 DEF NoUrlBeforeThePage
    <3>2. ImprovTypeOK'
      BY <1>4, <2>3 DEF GetNetworkState, ImprovTypeOK, device, browser, bounds
    <3> QED
      BY <1>4, <3>1, <3>2
      DEF GetNetworkState, ImprovInv, NoUrlBeforeThePage, device
  <2>5. CASE link # "up"
    <3>1. (link = "up") <=> FALSE
      BY <2>5
    <3>2. /\ Send(Result("network_state", FALSE))
          /\ Result("network_state", FALSE) \in PlainFrames
      BY <2>1, <3>1, FramesTyped DEF Commands
    <3>3. frames \in Seq(PlainFrames) => frames' \in Seq(PlainFrames)
      BY <3>2, SendTyped
    <3> QED
      BY <1>4, <2>3, <3>3, PlainHandlerKeeps
      DEF GetNetworkState, device, ImprovTypeOK
  <2> QED
    BY <2>4, <2>5
<1>5. CASE Unsupported
  <2>1. Take("other") /\ Send(Error)
    BY <1>5 DEF Unsupported
  <2>2. Error \in Frames /\ Error \in PlainFrames
    BY FramesTyped
  <2>3. commands' \in Seq(Commands) /\ frames' \in Seq(Frames)
    BY <2>1, <2>2, TakeTyped, SendTyped
  <2>4. frames \in Seq(PlainFrames) => frames' \in Seq(PlainFrames)
    BY <2>1, <2>2, SendTyped
  <2> QED
    BY <1>5, <2>3, <2>4, PlainHandlerKeeps DEF Unsupported, device, ImprovTypeOK
<1>6. CASE GetWifiNetworks
  <2>1. commands' \in Seq(Commands)
    BY <1>6, TakeTyped DEF GetWifiNetworks
  <2> QED
    BY <1>6, <2>1, PlainHandlerKeeps DEF GetWifiNetworks, ImprovTypeOK
<1>7. CASE Scanned
  <2>1. /\ Entry \in Frames /\ Entry \in PlainFrames
        /\ Result("networks", FALSE) \in Frames
        /\ Result("networks", FALSE) \in PlainFrames
    BY FramesTyped DEF Commands
  <2>2. frames' \in Seq(Frames)
    BY <1>7, <2>1, ScannedTyped
  <2>3. frames \in Seq(PlainFrames) => frames' \in Seq(PlainFrames)
    BY <1>7, <2>1, ScannedTyped
  <2> QED
    BY <1>7, <2>2, <2>3, PlainHandlerKeeps DEF Scanned, ImprovTypeOK
<1>8. CASE WifiSettings
  <2>1. Take("settings") /\ Send(StateFrame("Provisioning"))
    BY <1>8 DEF WifiSettings
  <2>2. /\ StateFrame("Provisioning") \in Frames
        /\ StateFrame("Provisioning") \in PlainFrames
    BY FramesTyped DEF States
  <2>3. commands' \in Seq(Commands) /\ frames' \in Seq(Frames)
    BY <2>1, <2>2, TakeTyped, SendTyped
  <2>4. frames \in Seq(PlainFrames) => frames' \in Seq(PlainFrames)
    BY <2>1, <2>2, SendTyped
  <2>5. state' \in States
    BY <1>8 DEF WifiSettings, States
  <2> QED
    BY <1>8, <2>3, <2>4, <2>5, PlainHandlerKeeps DEF WifiSettings
<1>9. CASE Connected
  <2>1. Send(StateFrame("Provisioned")) /\ StateFrame("Provisioned") \in Frames
    BY <1>9, FramesTyped DEF Connected, States
  <2>2. frames' \in Seq(Frames)
    BY <2>1, SendTyped
  <2>3. /\ link' = "up" /\ pages' \in 0..1 /\ handleless' \in BOOLEAN
        /\ pages' > 0 \/ handleless'
    BY <1>9, NetworkUpTyped DEF Connected
  <2>4. ImprovTypeOK'
    BY <1>9, <2>2, <2>3 DEF Connected, ImprovTypeOK, States, browser, bounds
  <2> QED
    BY <2>3, <2>4 DEF ImprovInv, NoUrlBeforeThePage
<1>10. CASE Refused
  <2>1. /\ Error \in Frames /\ Error \in PlainFrames
        /\ StateFrame("Authorized") \in Frames
        /\ StateFrame("Authorized") \in PlainFrames
    BY FramesTyped DEF States
  <2>2. frames' = frames \o <<Error, StateFrame("Authorized")>>
    BY <1>10 DEF Refused
  <2>3. frames' \in Seq(Frames)
    BY <2>1, <2>2, SendTwoTyped
  <2>4. frames \in Seq(PlainFrames) => frames' \in Seq(PlainFrames)
    BY <2>1, <2>2, SendTwoTyped
  <2>5. ImprovTypeOK'
    BY <1>10, <2>3 DEF Refused, NetworkDown, ImprovTypeOK, States, browser, bounds
  <2>6. NoUrlBeforeThePage'
    BY <1>10, <2>4 DEF Refused, NetworkDown, NoUrlBeforeThePage, browser
  <2> QED
    BY <2>5, <2>6 DEF ImprovInv
<1> QED
  BY <1>1, <1>2, <1>3, <1>4, <1>5, <1>6, <1>7, <1>8, <1>9, <1>10 DEF Handle

\* A frame that is taken off the line leaves the others as they are.
LEMMA TailTyped ==
  ASSUME NEW S, NEW s \in Seq(S), s # <<>>
  PROVE  Tail(s) \in Seq(S) /\ Head(s) \in S
OBVIOUS

\* The browser and the line preserve the invariant.
LEMMA BrowserNext ==
  ASSUME ImprovInv,
         (\E c \in Commands : Ask(c)) \/ Receive \/ GiveUp \/ Reload
           \/ LoseFrame \/ LoseCommand
  PROVE  ImprovInv'
<1>0. ImprovTypeOK /\ NoUrlBeforeThePage
  BY DEF ImprovInv
<1> USE <1>0
<1>1. ASSUME NEW c \in Commands, Ask(c) PROVE ImprovInv'
  <2>1. commands' \in Seq(Commands)
    BY <1>1 DEF Ask, ImprovTypeOK
  <2>2. awaits' \in {"nothing", "state", "result"}
    BY <1>1 DEF Ask
  <2>3. ImprovTypeOK'
    BY <1>1, <2>1, <2>2 DEF Ask, ImprovTypeOK, device, bounds
  <2> QED
    BY <1>1, <2>3 DEF Ask, ImprovInv, NoUrlBeforeThePage, device
<1>2. CASE Receive
  <2>1. frames # <<>> /\ frames' = Tail(frames) /\ frames \in Seq(Frames)
    BY <1>2 DEF Receive, ImprovTypeOK
  <2>2. frames' \in Seq(Frames) /\ Head(frames) \in Frames
    BY <2>1, TailTyped
  <2>3. frames \in Seq(PlainFrames) =>
          frames' \in Seq(PlainFrames) /\ Head(frames) \in PlainFrames
    BY <2>1, TailTyped
  <2>4. awaits' \in {"nothing", "state", "result"}
    BY <1>2, AwaitsTyped DEF Receive, Await
  <2>5. pending' \in Commands
    BY <1>2 DEF Receive, Await, ImprovTypeOK, Commands
  <2>6. Head(frames).url \in BOOLEAN
    BY <2>2 DEF Frames
  <2>7. shown' \in BOOLEAN
    BY <1>2, <2>6 DEF Receive, ImprovTypeOK
  <2>8. ImprovTypeOK'
    BY <1>2, <2>2, <2>4, <2>5, <2>7 DEF Receive, ImprovTypeOK, device, bounds
  <2>9. NoUrlBeforeThePage'
    <3>1. CASE pages > 0 \/ handleless
      BY <1>2, <3>1 DEF Receive, NoUrlBeforeThePage, device
    <3>2. CASE ~(pages > 0 \/ handleless)
      <4>1. link = "none" /\ frames \in Seq(PlainFrames) /\ ~shown
        BY <3>2 DEF NoUrlBeforeThePage
      <4>2. ~Head(frames).url
        BY <2>3, <4>1 DEF PlainFrames
      <4> QED
        BY <1>2, <2>3, <4>1, <4>2 DEF Receive, NoUrlBeforeThePage
    <3> QED
      BY <3>1, <3>2
  <2> QED
    BY <2>8, <2>9 DEF ImprovInv
<1>3. CASE GiveUp
  <2>1. ImprovTypeOK'
    BY <1>3 DEF GiveUp, Await, ImprovTypeOK, Commands, device, line, bounds
  <2> QED
    BY <1>3, <2>1 DEF GiveUp, ImprovInv, NoUrlBeforeThePage, device, line
<1>4. CASE Reload
  <2>1. frames' \in Seq(Frames) /\ frames' \in Seq(PlainFrames)
    BY <1>4 DEF Reload
  <2>2. reloads' \in 0..MaxReloads
    BY <1>4 DEF Reload, ImprovTypeOK
  <2>3. ImprovTypeOK'
    BY <1>4, <2>1, <2>2 DEF Reload, Await, ImprovTypeOK, Commands, device
  <2> QED
    BY <1>4, <2>1, <2>3 DEF Reload, ImprovInv, NoUrlBeforeThePage, device
<1>5. CASE LoseFrame
  <2>1. frames # <<>> /\ frames' = Tail(frames) /\ frames \in Seq(Frames)
    BY <1>5 DEF LoseFrame, ImprovTypeOK
  <2>2. /\ frames' \in Seq(Frames)
        /\ frames \in Seq(PlainFrames) => frames' \in Seq(PlainFrames)
    BY <2>1, TailTyped
  <2>3. losses' \in 0..MaxLosses
    BY <1>5 DEF LoseFrame, ImprovTypeOK
  <2>4. ImprovTypeOK'
    BY <1>5, <2>2, <2>3 DEF LoseFrame, ImprovTypeOK, device
  <2> QED
    BY <1>5, <2>2, <2>4 DEF LoseFrame, ImprovInv, NoUrlBeforeThePage, device
<1>6. CASE LoseCommand
  <2>1. /\ commands # <<>> /\ commands' = Tail(commands)
        /\ commands \in Seq(Commands)
    BY <1>6 DEF LoseCommand, ImprovTypeOK
  <2>2. commands' \in Seq(Commands)
    BY <2>1, TailTyped
  <2>3. losses' \in 0..MaxLosses
    BY <1>6 DEF LoseCommand, ImprovTypeOK
  <2>4. ImprovTypeOK'
    BY <1>6, <2>2, <2>3 DEF LoseCommand, ImprovTypeOK, device
  <2> QED
    BY <1>6, <2>4 DEF LoseCommand, ImprovInv, NoUrlBeforeThePage, device
<1> QED
  BY <1>1, <1>2, <1>3, <1>4, <1>5, <1>6

\* The invariant holds in every reachable state.
THEOREM ImprovInvariance == Spec => []ImprovInv
<1>1. Init => ImprovInv
  <2> SUFFICES ASSUME Init PROVE ImprovInv
    OBVIOUS
  <2>1. /\ reloads \in 0..MaxReloads /\ losses \in 0..MaxLosses
        /\ pages \in 0..1
    BY DEF Init
  <2>2. shown \in BOOLEAN /\ handleless \in BOOLEAN
    BY DEF Init
  <2>3. /\ commands \in Seq(Commands) /\ frames \in Seq(Frames)
        /\ frames \in Seq(PlainFrames)
    BY DEF Init
  <2>4. ImprovTypeOK
    BY <2>1, <2>2, <2>3 DEF Init, ImprovTypeOK, States, Commands
  <2>5. NoUrlBeforeThePage
    BY <2>3 DEF Init, NoUrlBeforeThePage
  <2> QED
    BY <2>4, <2>5 DEF ImprovInv
<1>2. ImprovInv /\ [Next]_vars => ImprovInv'
  <2> SUFFICES ASSUME ImprovInv, [Next]_vars PROVE ImprovInv'
    OBVIOUS
  <2>0. ImprovTypeOK /\ NoUrlBeforeThePage
    BY DEF ImprovInv
  <2>1. CASE Reconnect
    <3>1. CASE NetworkUp
      <4>1. /\ link' = "up" /\ pages' \in 0..1 /\ handleless' \in BOOLEAN
            /\ pages' > 0 \/ handleless'
        BY <2>0, <3>1, NetworkUpTyped
      <4>2. ImprovTypeOK'
        BY <2>0, <2>1, <4>1 DEF Reconnect, ImprovTypeOK, line, browser, bounds
      <4> QED
        BY <4>1, <4>2 DEF ImprovInv, NoUrlBeforeThePage
    <3>2. CASE NetworkDown
      <4>1. ImprovTypeOK'
        BY <2>0, <2>1, <3>2
        DEF Reconnect, NetworkDown, ImprovTypeOK, line, browser, bounds
      <4> QED
        BY <2>0, <2>1, <3>2, <4>1
        DEF Reconnect, NetworkDown, ImprovInv, NoUrlBeforeThePage, line, browser
    <3> QED
      BY <2>1, <3>1, <3>2 DEF Reconnect
  <2>2. CASE Run
    <3>1. state' \in States
      BY <2>2 DEF Run, States
    <3>2. ImprovTypeOK'
      BY <2>0, <2>2, <3>1 DEF Run, ImprovTypeOK, line, browser, bounds
    <3> QED
      BY <2>0, <2>2, <3>2 DEF Run, ImprovInv, NoUrlBeforeThePage, line, browser
  <2>3. CASE LinkLost \/ LinkBack
    <3>1. ImprovTypeOK'
      BY <2>0, <2>3 DEF LinkLost, LinkBack, ImprovTypeOK, device, line,
         browser, bounds
    <3> QED
      BY <2>0, <2>3, <3>1
      DEF LinkLost, LinkBack, ImprovInv, NoUrlBeforeThePage, device, line, browser
  <2>4. CASE Handle
    BY <2>4, HandleNext
  <2>5. CASE \/ \E c \in Commands : Ask(c)
             \/ Receive \/ GiveUp \/ Reload \/ LoseFrame \/ LoseCommand
    BY <2>5, BrowserNext
  <2>6. CASE UNCHANGED vars
    BY <2>0, <2>6
    DEF vars, ImprovInv, ImprovTypeOK, NoUrlBeforeThePage, device, line, browser,
        bounds
  <2> QED
    BY <2>1, <2>2, <2>3, <2>4, <2>5, <2>6 DEF Next
<1> QED
  BY <1>1, <1>2, PTL DEF Spec

-----------------------------------------------------------------------------
(* The properties.                                                         *)

\* Types; in particular the page is started at most once.
THEOREM ImprovTypeCorrect == Spec => []ImprovTypeOK
<1>1. ImprovInv => ImprovTypeOK
  BY DEF ImprovInv
<1> QED
  BY <1>1, ImprovInvariance, PTL

\* Every address a browser is given has a page behind it.
THEOREM UrlAlwaysHasAPage == Spec => []UrlHasAPage
<1>1. ImprovInv => UrlHasAPage
  BY DEF ImprovInv, NoUrlBeforeThePage, UrlHasAPage
<1> QED
  BY <1>1, ImprovInvariance, PTL

===============================================================================
