----------------------------- MODULE ControlLink -----------------------------
(***************************************************************************)
(* The control link of the agent: the durable identity object (agent.rs),  *)
(* the /token handler that rotates its Bearer token (http/api.rs) and the  *)
(* heartbeat task that reports with it (heartbeat.rs).  The two tasks      *)
(* interleave at every await; the Core on the other side is external.      *)
(***************************************************************************)
EXTENDS Naturals

CONSTANTS
  Tokens,      \* the tokens a Core may ask for
  ValidTokens, \* those of 8 to 64 characters
  NoToken,     \* the empty token
  MaxFaults,   \* bound: NVS operations that fail
  MaxResets    \* bound: resets, deliberate or not

ASSUME TokensAssumption == ValidTokens \subseteq Tokens /\ NoToken \notin Tokens

ASSUME LinkBoundsAssumption == MaxFaults \in Nat /\ MaxResets \in Nat

VARIABLES
  stored,   \* durable: the ctrl_url and the token of the identity object
  handler,  \* the POST /token being served
  hb,       \* the heartbeat task: where it is and its two snapshots
  believed, \* the Core: the tokens that, for all it knows, may be in force
  sent,     \* the Core: the token of the last report it received
  stale,    \* history: reports sent since the last rotation with another token
  faults, resets

vars == <<stored, handler, hb, believed, sent, stale, faults, resets>>
core == <<believed, sent>>

\* What split_host_port makes of a ctrl_url: absent, unusable, or a host.
Urls == {"none", "malformed", "host"}
Identities == [url : Urls, token : Tokens \cup {NoToken}]

\* AgentConfig::default(), what an absent object is read as.
NoIdentity == [url |-> "none", token |-> NoToken]

\* An unreadable object reads as NoIdentity in agent::ctrl_url and
\* agent::token, which answer "" for it.
Read(object) ==
  \/ object = stored /\ UNCHANGED faults
  \/ object = NoIdentity /\ faults < MaxFaults /\ faults' = faults + 1

HandlerSteps ==
  {"idle", "authorize", "load", "commit", "readback",
   "rotated", "refused", "write_failed"}

\* draft is the AgentConfig that rotate_token is about to commit; repeat is
\* what the Core knows of its request: it has asked for that token before.
Handlers ==
  [step : HandlerSteps, presented : Tokens \cup {NoToken},
   new : Tokens \cup {NoToken}, repeat : BOOLEAN, draft : Identities]

NoRequest ==
  [step |-> "idle", presented |-> NoToken, new |-> NoToken,
   repeat |-> FALSE, draft |-> NoIdentity]

HeartbeatSteps ==
  {"url", "token", "connect", "check_url", "check_token", "send", "answer",
   "pause", "wait"}
Heartbeats ==
  [at : HeartbeatSteps, url : Urls, token : Tokens \cup {NoToken}]

NoSession == [at |-> "url", url |-> "none", token |-> NoToken]

\* A token in force is always one of valid length: there is no way back to
\* an agent without a token.
TypeOK ==
  /\ stored \in [url : Urls, token : ValidTokens]
  /\ handler \in Handlers
  /\ hb \in Heartbeats
  /\ believed \in SUBSET Tokens
  /\ sent \in Tokens \cup {NoToken}
  /\ stale \in Nat
  /\ faults \in 0..MaxFaults
  /\ resets \in 0..MaxResets

\* A provisioned device: the form of the init image left a token, and a
\* ctrl_url that nobody validated.
Init ==
  /\ stored \in [url : Urls, token : ValidTokens]
  /\ handler = NoRequest
  /\ hb = NoSession
  /\ believed = {stored.token}
  /\ sent = NoToken
  /\ stale = 0
  /\ faults = 0
  /\ resets = 0

-----------------------------------------------------------------------------
(* POST /v1alpha1/token.                                                   *)

\* The Core asks for a token, a fresh one or again one that it keeps because
\* its first request may have landed, and presents any token, or none.
AskRotation ==
  /\ handler.step = "idle"
  /\ \E presented \in Tokens \cup {NoToken}, new \in Tokens :
       /\ handler' = [NoRequest EXCEPT !.step = "authorize",
                                       !.presented = presented, !.new = new,
                                       !.repeat = new \in believed]
       /\ believed' = believed \cup {new}
  /\ UNCHANGED <<stored, hb, sent, stale, faults, resets>>

HandlerGoesTo(step) == handler' = [handler EXCEPT !.step = step]

\* Mutant of Authorized: an empty token is compared like any other.
AuthorizedEmpty(object) == object.token = handler.presented

\* is_authorized: no token authorizes on an agent that has, or reads, none.
Authorized(object) ==
  object.token # NoToken /\ object.token = handler.presented

\* Mutant of Authorize: the length check is forgotten.
AuthorizeAnyLength ==
  /\ handler.step = "authorize"
  /\ \E object \in {stored, NoIdentity} :
       /\ Read(object)
       /\ HandlerGoesTo(IF Authorized(object) THEN "load" ELSE "refused")
  /\ UNCHANGED <<stored, hb, core, stale, resets>>

\* is_authorized, then the length check of rotate_token.
Authorize ==
  /\ handler.step = "authorize"
  /\ \E object \in {stored, NoIdentity} :
       /\ Read(object)
       /\ HandlerGoesTo(IF Authorized(object) /\ handler.new \in ValidTokens
                        THEN "load" ELSE "refused")
  /\ UNCHANGED <<stored, hb, core, stale, resets>>

\* load_config: unlike the readers above, a failure ends the rotation ...
LoadIdentity ==
  /\ handler.step = "load"
  /\ handler' = [handler EXCEPT !.step = "commit",
                                !.draft = [stored EXCEPT !.token = handler.new]]
  /\ UNCHANGED <<stored, hb, core, stale, faults, resets>>

\* Mutant of LoadFails: an unreadable object is taken for an absent one.
LoadDefaults ==
  /\ handler.step = "load"
  /\ faults < MaxFaults
  /\ faults' = faults + 1
  /\ handler' = [handler EXCEPT
                   !.step = "commit",
                   !.draft = [NoIdentity EXCEPT !.token = handler.new]]
  /\ UNCHANGED <<stored, hb, core, stale, resets>>

\* ... with nvs_write_failed.
LoadFails ==
  /\ handler.step = "load"
  /\ faults < MaxFaults
  /\ faults' = faults + 1
  /\ HandlerGoesTo("write_failed")
  /\ UNCHANGED <<stored, hb, core, stale, resets>>

\* The draft lands: a rotation, unless it repeats the token in force.
Land ==
  /\ stored' = handler.draft
  /\ stale' = IF handler.draft.token = stored.token THEN stale ELSE 0

Commit ==
  /\ handler.step = "commit"
  /\ Land
  /\ HandlerGoesTo("readback")
  /\ UNCHANGED <<hb, core, faults, resets>>

\* A commit that answers an error, whether it landed or not, and one that
\* answers success without having landed, the case the read-back is for.
CommitFails ==
  /\ handler.step = "commit"
  /\ faults < MaxFaults
  /\ faults' = faults + 1
  /\ \/ Land /\ HandlerGoesTo("write_failed")
     \/ UNCHANGED <<stored, stale>> /\ HandlerGoesTo("write_failed")
     \/ UNCHANGED <<stored, stale>> /\ HandlerGoesTo("readback")
  /\ UNCHANGED <<hb, core, resets>>

\* Mutant of ReadBack: a commit that answers success is believed.
ReadBackTrusts ==
  /\ handler.step = "readback"
  /\ HandlerGoesTo("rotated")
  /\ UNCHANGED <<stored, hb, core, stale, faults, resets>>

\* The token is rotated only if it can be read back.
ReadBack ==
  /\ handler.step = "readback"
  /\ \E object \in {stored, NoIdentity} :
       /\ Read(object)
       /\ HandlerGoesTo(IF object.token = handler.new
                        THEN "rotated" ELSE "write_failed")
  /\ UNCHANGED <<stored, hb, core, stale, resets>>

\* The Core drops the old token when told it is rotated, the new one when
\* told that its first request for it was refused (400, 401), and keeps both
\* otherwise: after a 500 nvs_write_failed, when the answer is lost, and when
\* a repeat is refused, which the first may have brought about by landing.
Answer ==
  /\ handler.step \in {"rotated", "refused", "write_failed"}
  /\ handler' = NoRequest
  /\ \/ believed' = CASE handler.step = "rotated" -> {handler.new}
                      [] handler.step = "refused" /\ ~handler.repeat ->
                           believed \ {handler.new}
                      [] OTHER -> believed
     \/ believed' = believed
  /\ UNCHANGED <<stored, hb, sent, stale, faults, resets>>

-----------------------------------------------------------------------------
(* The heartbeat task.                                                     *)

HeartbeatGoesTo(step) == hb' = [hb EXCEPT !.at = step]

\* heartbeat::run: without a ctrl_url the agent stays quiet.
ReadUrl ==
  /\ hb.at = "url"
  /\ \E object \in {stored, NoIdentity} :
       /\ Read(object)
       /\ hb' = [NoSession EXCEPT
                   !.at = IF object.url = "none" THEN "wait" ELSE "token",
                   !.url = object.url]
  /\ UNCHANGED <<stored, handler, core, stale, resets>>

\* Without a token, or with a ctrl_url that names no host, it does too.
ReadToken ==
  /\ hb.at = "token"
  /\ \E object \in {stored, NoIdentity} :
       /\ Read(object)
       /\ hb' = [hb EXCEPT
                   !.at = IF object.token = NoToken \/ hb.url = "malformed"
                          THEN "wait" ELSE "connect",
                   !.token = object.token]
  /\ UNCHANGED <<stored, handler, core, stale, resets>>

Connect ==
  /\ hb.at = "connect"
  /\ HeartbeatGoesTo("check_url")
  /\ UNCHANGED <<stored, handler, core, stale, faults, resets>>

ConnectFails ==
  /\ hb.at = "connect"
  /\ HeartbeatGoesTo("wait")
  /\ UNCHANGED <<stored, handler, core, stale, faults, resets>>

\* run_session: before each report, a snapshot that is no longer what the
\* object says ends the session.
CheckUrl ==
  /\ hb.at = "check_url"
  /\ \E object \in {stored, NoIdentity} :
       /\ Read(object)
       /\ HeartbeatGoesTo(IF object.url = hb.url THEN "check_token" ELSE "wait")
  /\ UNCHANGED <<stored, handler, core, stale, resets>>

\* Mutant of CheckToken: a session is kept for as long as it works.
CheckTokenNever ==
  /\ hb.at = "check_token"
  /\ HeartbeatGoesTo("send")
  /\ UNCHANGED <<stored, handler, core, stale, faults, resets>>

CheckToken ==
  /\ hb.at = "check_token"
  /\ \E object \in {stored, NoIdentity} :
       /\ Read(object)
       /\ HeartbeatGoesTo(IF object.token = hb.token THEN "send" ELSE "wait")
  /\ UNCHANGED <<stored, handler, core, stale, resets>>

\* send_heartbeat posts with the token of the snapshot.
Send ==
  /\ hb.at = "send"
  /\ sent' = hb.token
  /\ stale' = IF hb.token = stored.token THEN stale ELSE stale + 1
  /\ HeartbeatGoesTo("answer")
  /\ UNCHANGED <<stored, handler, believed, faults, resets>>

SendFails ==
  /\ hb.at = "send"
  /\ HeartbeatGoesTo("wait")
  /\ UNCHANGED <<stored, handler, core, stale, faults, resets>>

\* drain_response: whatever the status is, the session goes on if the
\* response can be drained and the peer keeps the connection.
KeepAlive ==
  /\ hb.at = "answer"
  /\ HeartbeatGoesTo("pause")
  /\ UNCHANGED <<stored, handler, core, stale, faults, resets>>

SessionEnds ==
  /\ hb.at = "answer"
  /\ HeartbeatGoesTo("wait")
  /\ UNCHANGED <<stored, handler, core, stale, faults, resets>>

\* Mutant of PeriodElapses: run reads its snapshots once, before the loop.
PeriodKeepsSnapshots ==
  /\ hb.at \in {"pause", "wait"}
  /\ hb' = [hb EXCEPT !.at =
              IF hb.at = "pause" THEN "check_url"
              ELSE IF hb.token = NoToken THEN "url" ELSE "connect"]
  /\ UNCHANGED <<stored, handler, core, stale, faults, resets>>

\* PERIOD elapses, within a session or between two.
PeriodElapses ==
  /\ hb.at \in {"pause", "wait"}
  /\ hb' = IF hb.at = "pause" THEN [hb EXCEPT !.at = "check_url"] ELSE NoSession
  /\ UNCHANGED <<stored, handler, core, stale, faults, resets>>

-----------------------------------------------------------------------------

\* A reset at any point: the request in progress is never answered.
Reset ==
  /\ resets < MaxResets
  /\ resets' = resets + 1
  /\ handler' = NoRequest
  /\ hb' = NoSession
  /\ UNCHANGED <<stored, core, stale, faults>>

Rotation ==
  Authorize \/ LoadIdentity \/ LoadFails \/ Commit \/ CommitFails \/ ReadBack
  \/ Answer

HeartbeatStep ==
  ReadUrl \/ ReadToken \/ Connect \/ ConnectFails \/ CheckUrl \/ CheckToken
  \/ Send \/ SendFails \/ KeepAlive \/ SessionEnds \/ PeriodElapses

Next == AskRotation \/ Rotation \/ HeartbeatStep \/ Reset

Spec == Init /\ [][Next]_vars

\* Both tasks keep running, the transport answers or fails in the end, and
\* a Core that can be reached now and then is reached.
Fairness ==
  /\ WF_vars(Rotation)
  /\ WF_vars(HeartbeatStep)
  /\ SF_vars(Connect)
  /\ SF_vars(Send)

FairSpec == Spec /\ Fairness

-----------------------------------------------------------------------------
(* The inductive invariant, in named parts.                                *)

\* A request in progress asks for a token the Core keeps, and until it
\* commits that token is not the one in force, unless the Core repeats it.
RequestIsFresh ==
  handler.step # "idle" =>
    /\ handler.new \in believed
    /\ handler.step \in {"authorize", "load", "commit", "refused"}
         /\ ~handler.repeat => stored.token # handler.new

\* Past its authorization a request holds the token in force, and what it
\* will commit differs from the object by the token alone.
RequestIsAuthorized ==
  /\ handler.step \in {"load", "commit"} =>
       handler.presented = stored.token /\ handler.new \in ValidTokens
  /\ handler.step = "commit" =>
       handler.draft = [stored EXCEPT !.token = handler.new]
  /\ handler.step = "rotated" => stored.token = handler.new

\* A session is never opened without a token, so that an unreadable object
\* ends it at the next check; and the check is what the report relies on.
SessionHasToken ==
  /\ hb.at \in {"connect", "check_url", "check_token", "send", "answer",
               "pause"} => hb.token # NoToken
  /\ (hb.at = "send" /\ hb.token # stored.token) => stale = 0

-----------------------------------------------------------------------------
(* What must hold.                                                         *)

\* agent.rs:204-208: "rotated" is answered only for a token that landed, and
\* a 4xx only when nothing did: a Core that keeps both tokens in between
\* always holds the one in force, whatever fails, is lost or is repeated.
CoreNeverLockedOut == stored.token \in believed

\* heartbeat.rs:198: the token is read again before each report, so of all
\* that follow a rotation one report at most carries another token.
OneStaleReport == stale <= 1

\* The inductive invariant of the control link.
LinkInv ==
  /\ TypeOK
  /\ RequestIsFresh
  /\ RequestIsAuthorized
  /\ SessionHasToken
  /\ CoreNeverLockedOut
  /\ OneStaleReport

\* A rotation rewrites the whole object from what it read: it may change the
\* token, never to none, and never the ctrl_url, even if a read fails.
RotationKeepsIdentity ==
  [][stored'.url = stored.url /\ stored'.token \in ValidTokens]_vars

\* The token changes only for a request that presented the one in force,
\* although it was read three awaits earlier.
RotationIsAuthorized ==
  [][stored'.token # stored.token =>
       handler.presented = stored.token /\ handler.new = stored'.token]_vars

\* A new token is soon the one the agent reports with.
NewTokenIsUsed ==
  \A t \in ValidTokens :
    (stored = [url |-> "host", token |-> t]) ~>
      (sent = t \/ stored.token # t)

-----------------------------------------------------------------------------
(* Why a new token is soon used, as far as it does not depend on fairness. *)

\* A session keeps the ctrl_url that is stored: nothing rewrites it.
SessionKeepsUrl == hb.at \notin {"url", "wait"} => hb.url = stored.url

\* The steps of the heartbeat task to a report with the token in force: a
\* session opened with another one comes to its check, and is opened again.
StepsToReport ==
  LET fresh == hb.token = stored.token
  IN  CASE hb.at = "url"         -> 6
        [] hb.at = "token"       -> 5
        [] hb.at = "connect"     -> IF fresh THEN 4 ELSE 10
        [] hb.at = "check_url"   -> IF fresh THEN 3 ELSE 9
        [] hb.at = "check_token" -> IF fresh THEN 2 ELSE 8
        [] hb.at = "send"        -> IF fresh THEN 1 ELSE 12
        [] hb.at = "answer"      -> 11
        [] hb.at = "pause"       -> 10
        [] hb.at = "wait"        -> 7

\* Nothing fails: neither a read of the object nor the transport.
Unhindered == UNCHANGED faults /\ ~ConnectFails /\ ~SendFails

\* heartbeat.rs:198: on an agent that has a Core, each step of the heartbeat
\* task that nothing hinders brings the report with the token in force nearer,
\* whatever rotations it has missed.
EveryStepReports ==
  [][HeartbeatStep /\ Unhindered /\ stored.url = "host" =>
       sent' = stored.token \/ StepsToReport' < StepsToReport]_vars

==============================================================================
