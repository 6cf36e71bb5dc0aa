-------------------------------- MODULE Improv --------------------------------
(***************************************************************************)
(* Improv Serial in the init image (provisioning.rs) with the boot that    *)
(* precedes it (init.rs) and the supervisor that starts the provisioning   *)
(* page (supervisor.rs).  The browser sends commands over a serial line    *)
(* and is sent frames; it may be reloaded at any moment, with a command of *)
(* its own still under way, and a frame or a command may be lost.  Browser *)
(* and Wi-Fi are external.  The status LED, which nothing renders in this  *)
(* image, is left out.                                                     *)
(***************************************************************************)
EXTENDS Naturals, Sequences

CONSTANTS
  MaxReloads, \* bound: reloads of the browser
  MaxLosses,  \* bound: lost commands and frames
  MaxUnread   \* bound: what lies unread on the line when a command is sent

ASSUME ImprovAssumption ==
  MaxReloads \in Nat /\ MaxLosses \in Nat /\ MaxUnread \in Nat

Commands == {"current", "info", "networks", "network_state", "settings", "other"}
States == {"Authorized", "Provisioning", "Provisioned"}

\* state_frame, rpc_response_frame and error_frame.  Of a result is kept the
\* command it answers, whether it ends the answer, and whether it holds a URL.
StateFrame(s) == [kind |-> "state", of |-> s, last |-> TRUE, url |-> FALSE]
Result(c, url) == [kind |-> "result", of |-> c, last |-> TRUE, url |-> url]
Entry == [kind |-> "result", of |-> "networks", last |-> FALSE, url |-> FALSE]
Error == [kind |-> "error", of |-> "other", last |-> TRUE, url |-> FALSE]

PlainFrames == [kind : {"state", "result", "error"}, of : States \cup Commands,
                last : BOOLEAN, url : {FALSE}]
Frames == [kind : {"state", "result", "error"}, of : States \cup Commands,
           last : BOOLEAN, url : BOOLEAN]

VARIABLES
  at,       \* what the device is at
  state,    \* the Improv state
  link,     \* Wi-Fi: "none", "up", or "lost" once it has been up
  pages,    \* provisioning pages started
  commands, \* sent by the browser, not yet read
  frames,   \* sent by the device, not yet read
  pending,  \* the command the browser waits for
  awaits,   \* what of it: a state, a result, or nothing
  shown,    \* the browser shows the address of the page
  handleless, \* history: Wi-Fi has connected without a network handle
  reloads, losses

device == <<at, state, pages, handleless>>
line == <<commands, frames>>
browser == <<pending, awaits, shown>>
bounds == <<reloads, losses>>
vars == <<device, link, line, browser, bounds>>

\* The page is started once: its task has one slot, a second start panics.
ImprovTypeOK ==
  /\ at \in {"boot", "start", "listen", "scan", "connect", "current", "settings"}
  /\ state \in States
  /\ link \in {"none", "up", "lost"}
  /\ pages \in 0..1
  /\ commands \in Seq(Commands)
  /\ frames \in Seq(Frames)
  /\ pending \in Commands
  /\ awaits \in {"nothing", "state", "result"}
  /\ shown \in BOOLEAN /\ handleless \in BOOLEAN
  /\ reloads \in 0..MaxReloads /\ losses \in 0..MaxLosses

Init ==
  /\ at = "boot" /\ state = "Authorized" /\ link = "none"
  /\ pages = 0 /\ handleless = FALSE
  /\ commands = <<>> /\ frames = <<>>
  /\ pending = "other" /\ awaits = "nothing" /\ shown = FALSE
  /\ reloads = 0 /\ losses = 0

-----------------------------------------------------------------------------
(* Boot and Wi-Fi.                                                         *)

\* Mutant of OnNetworkReady: it does not remember having started the page.
OnNetworkReadyAgain == pages' = pages + 1

\* ProvisioningSupervisor: the page is started by the first network.
OnNetworkReady == pages' = IF pages > 0 THEN pages ELSE 1

\* Wi-Fi is connected, with a network handle or, against all odds, without.
NetworkUp ==
  /\ link' = "up"
  /\ \/ OnNetworkReady /\ UNCHANGED handleless
     \/ handleless' = TRUE /\ UNCHANGED pages

NetworkDown == link' = "none" /\ UNCHANGED <<pages, handleless>>

\* reconnect_saved, before the serial port is opened.
Reconnect ==
  /\ at = "boot"
  /\ at' = "start"
  /\ NetworkUp \/ NetworkDown
  /\ UNCHANGED <<state, line, browser, bounds>>

\* run: the state the browser will be told.
Run ==
  /\ at = "start"
  /\ at' = "listen"
  /\ state' = IF link = "up" THEN "Provisioned" ELSE "Authorized"
  /\ UNCHANGED <<pages, handleless, link, line, browser, bounds>>

\* The access point goes and comes back: no code of the image is told.
LinkLost ==
  /\ link = "up"
  /\ link' = "lost"
  /\ UNCHANGED <<device, line, browser, bounds>>

LinkBack ==
  /\ link = "lost"
  /\ link' = "up"
  /\ UNCHANGED <<device, line, browser, bounds>>

-----------------------------------------------------------------------------
(* handle: one command after the other.                                    *)

Take(c) ==
  /\ at = "listen"
  /\ commands # <<>>
  /\ Head(commands) = c
  /\ commands' = Tail(commands)

Send(f) == frames' = Append(frames, f)

\* Mutant of GetCurrentState: it forgets the reply when already provisioned.
StateOnly ==
  /\ Take("current")
  /\ Send(StateFrame(state))
  /\ UNCHANGED <<device, link, browser, bounds>>

\* The state, and when that is Provisioned a reply with the URL, which is
\* read once the state has been written.
GetCurrentState ==
  /\ Take("current")
  /\ Send(StateFrame(state))
  /\ at' = IF state = "Provisioned" THEN "current" ELSE "listen"
  /\ UNCHANGED <<state, pages, handleless, link, browser, bounds>>

\* The reply owed to a GetCurrentState or a WifiSettings: next_url is empty
\* without an address.
SendUrl ==
  /\ at \in {"current", "settings"}
  /\ at' = "listen"
  /\ Send(Result(at, link = "up"))
  /\ UNCHANGED <<state, pages, handleless, link, commands, browser, bounds>>

GetDeviceInfo ==
  /\ Take("info")
  /\ Send(Result("info", FALSE))
  /\ UNCHANGED <<device, link, browser, bounds>>

GetNetworkState ==
  /\ Take("network_state")
  /\ Send(Result("network_state", link = "up"))
  /\ UNCHANGED <<device, link, browser, bounds>>

Unsupported ==
  /\ Take("other")
  /\ Send(Error)
  /\ UNCHANGED <<device, link, browser, bounds>>

\* GetWifiNetworks: a scan ...
GetWifiNetworks ==
  /\ Take("networks")
  /\ at' = "scan"
  /\ UNCHANGED <<state, pages, handleless, link, frames, browser, bounds>>

\* ... the networks it found, none or (here) one, and an empty entry.
Scanned ==
  /\ at = "scan"
  /\ at' = "listen"
  /\ \E found \in {<<>>, <<Entry>>} :
       frames' = frames \o found \o <<Result("networks", FALSE)>>
  /\ UNCHANGED <<state, pages, handleless, link, commands, browser, bounds>>

\* WifiSettings: the attempt is announced ...
WifiSettings ==
  /\ Take("settings")
  /\ at' = "connect"
  /\ state' = "Provisioning"
  /\ Send(StateFrame("Provisioning"))
  /\ UNCHANGED <<pages, handleless, link, browser, bounds>>

\* Mutant of Connected: the page is left to the next boot.
ConnectedOnly ==
  /\ at = "connect"
  /\ link' = "up"
  /\ at' = "settings"
  /\ state' = "Provisioned"
  /\ Send(StateFrame("Provisioned"))
  /\ UNCHANGED <<pages, handleless, commands, browser, bounds>>

\* ... and succeeds: the page is started before the browser is told ...
Connected ==
  /\ at = "connect"
  /\ NetworkUp
  /\ at' = "settings"
  /\ state' = "Provisioned"
  /\ Send(StateFrame("Provisioned"))
  /\ UNCHANGED <<commands, browser, bounds>>

\* ... or fails.
Refused ==
  /\ at = "connect"
  /\ NetworkDown
  /\ at' = "listen"
  /\ state' = "Authorized"
  /\ frames' = frames \o <<Error, StateFrame("Authorized")>>
  /\ UNCHANGED <<commands, browser, bounds>>

Handle ==
  \/ GetCurrentState \/ SendUrl \/ GetDeviceInfo \/ GetNetworkState
  \/ Unsupported \/ GetWifiNetworks \/ Scanned
  \/ WifiSettings \/ Connected \/ Refused

-----------------------------------------------------------------------------
(* The browser and the line.                                               *)

\* One command at a time.  To GetCurrentState a state is awaited first.
Ask(c) ==
  /\ awaits = "nothing"
  /\ Len(commands) + Len(frames) <= MaxUnread
  /\ commands' = Append(commands, c)
  /\ pending' = c
  /\ awaits' = IF c = "current" THEN "state" ELSE "result"
  /\ UNCHANGED <<device, link, frames, shown, bounds>>

\* What the browser makes of a frame.  The state Provisioned is not yet an
\* answer, an error is one; results of other commands are ignored.
Answers(f) ==
  \/ f.kind = "state" /\ awaits = "state" /\ f.of # "Provisioned"
  \/ f.kind = "result" /\ f.of = pending /\ f.last
  \/ f.kind = "error"

AwaitsAfter(f) ==
  IF Answers(f) THEN "nothing"
  ELSE IF awaits = "state" /\ f.kind = "state" THEN "result" ELSE awaits

Await(a) == awaits' = a /\ pending' = IF a = "nothing" THEN "other" ELSE pending

Receive ==
  /\ frames # <<>>
  /\ frames' = Tail(frames)
  /\ Await(AwaitsAfter(Head(frames)))
  /\ shown' = (shown \/ Head(frames).url)
  /\ UNCHANGED <<device, link, commands, bounds>>

\* Its timeout of some 30 s, after the line has lost something and when no
\* answer is under way (a browser that waits for less is one that reloads).
GiveUp ==
  /\ losses > 0 /\ awaits # "nothing"
  /\ at = "listen" /\ commands = <<>> /\ frames = <<>>
  /\ Await("nothing")
  /\ UNCHANGED <<device, link, line, shown, bounds>>

\* The page in the browser is closed and opened again; what has been sent to
\* it is gone, what it has sent is not.
Reload ==
  /\ reloads < MaxReloads
  /\ reloads' = reloads + 1
  /\ frames' = <<>>
  /\ Await("nothing") /\ shown' = FALSE
  /\ UNCHANGED <<device, link, commands, losses>>

\* A serial write fails, or a command arrives garbled.
LoseFrame ==
  /\ losses < MaxLosses /\ frames # <<>>
  /\ losses' = losses + 1
  /\ frames' = Tail(frames)
  /\ UNCHANGED <<device, link, commands, pending, awaits, shown, reloads>>

LoseCommand ==
  /\ losses < MaxLosses /\ commands # <<>>
  /\ losses' = losses + 1
  /\ commands' = Tail(commands)
  /\ UNCHANGED <<device, link, frames, pending, awaits, shown, reloads>>

Next ==
  \/ Reconnect \/ Run \/ LinkLost \/ LinkBack
  \/ Handle
  \/ \E c \in Commands : Ask(c)
  \/ Receive \/ GiveUp \/ Reload \/ LoseFrame \/ LoseCommand

Spec == Init /\ [][Next]_vars

\* Scans and connection attempts end, and each side reads what it is sent.
Fairness ==
  /\ WF_vars(Reconnect) /\ WF_vars(Run) /\ WF_vars(Handle)
  /\ WF_vars(Receive) /\ WF_vars(GiveUp)

FairSpec == Spec /\ Fairness

-----------------------------------------------------------------------------
(* What must hold.                                                         *)

\* provisioning.rs:100: a page answers at every address the browser is given,
\* whatever happens to the link, as long as Wi-Fi had a handle to start it on.
UrlHasAPage == shown => pages > 0 \/ handleless

\* provisioning.rs:137: the browser is answered, however often it has been
\* reloaded and whatever answers of earlier commands it reads first; it waits
\* for its own timeout only when the line has lost something.
BrowserIsAnswered == awaits # "nothing" ~> awaits = "nothing"

-----------------------------------------------------------------------------
(* The inductive invariant.                                                *)

\* Until there is a page Wi-Fi has not been up, and no frame holds a URL.
NoUrlBeforeThePage ==
  pages > 0 \/ handleless \/ (link = "none" /\ frames \in Seq(PlainFrames) /\ ~shown)

ImprovInv == ImprovTypeOK /\ NoUrlBeforeThePage

===============================================================================
