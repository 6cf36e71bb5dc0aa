--------------------------- MODULE ControlLinkProofs ---------------------------
(***************************************************************************)
(* The safety of the control link, for any tokens and any number of        *)
(* failures and resets: LinkInv is inductive, and with it no rotation      *)
(* loses the identity object or acts on a token that is no longer in force.*)
(***************************************************************************)
EXTENDS ControlLink, TLAPS

\* A rotation of the draft that LoadIdentity prepares: the object it was
\* read from, with another token.
LEMMA DraftKeepsUrl ==
  ASSUME stored \in [url : Urls, token : ValidTokens],
         NEW t \in ValidTokens
  PROVE  /\ [stored EXCEPT !.token = t] \in [url : Urls, token : ValidTokens]
         /\ [stored EXCEPT !.token = t].url = stored.url
         /\ [stored EXCEPT !.token = t].token = t
  OBVIOUS

\* The inductive step, action by action (LinkInv, ControlLink).
LEMMA LinkInvNext ==
  ASSUME LinkInv, [Next]_vars
  PROVE  LinkInv'
<1> USE TokensAssumption, LinkBoundsAssumption
<1> USE DEF LinkInv, TypeOK, RequestIsFresh, RequestIsAuthorized,
            SessionHasToken, CoreNeverLockedOut, OneStaleReport,
            Identities, Handlers, HandlerSteps, Heartbeats, HeartbeatSteps,
            Urls, NoIdentity, core
<1>1. CASE AskRotation
  <2>1. PICK presented \in Tokens \cup {NoToken}, new \in Tokens :
          /\ handler' = [NoRequest EXCEPT !.step = "authorize",
                                          !.presented = presented, !.new = new,
                                          !.repeat = new \in believed]
          /\ believed' = believed \cup {new}
    BY <1>1 DEF AskRotation
  <2>2. handler' = [step |-> "authorize", presented |-> presented,
                    new |-> new, repeat |-> new \in believed,
                    draft |-> NoIdentity]
    BY <2>1 DEF NoRequest
  <2> DEFINE again == new \in believed
  <2>3. /\ handler' \in Handlers
        /\ handler'.step = "authorize" /\ handler'.new = new
        /\ ~handler'.repeat => ~again
    <3>1. /\ again \in BOOLEAN
          /\ handler' = [step |-> "authorize", presented |-> presented,
                         new |-> new, repeat |-> again, draft |-> NoIdentity]
      BY <2>2
    <3> HIDE DEF again
    <3> QED
      BY <3>1
  <2> QED
    BY <1>1, <2>1, <2>3 DEF AskRotation
<1>2. CASE Authorize
  BY <1>2 DEF Authorize, Authorized, Read, HandlerGoesTo
<1>3. CASE LoadIdentity
  BY <1>3 DEF LoadIdentity
<1>4. CASE LoadFails
  BY <1>4 DEF LoadFails, HandlerGoesTo
<1>5. CASE Commit
  BY <1>5, DraftKeepsUrl DEF Commit, Land, HandlerGoesTo
<1>6. CASE CommitFails
  BY <1>6, DraftKeepsUrl DEF CommitFails, Land, HandlerGoesTo
<1>7. CASE ReadBack
  BY <1>7 DEF ReadBack, Read, HandlerGoesTo
<1>8. CASE Answer
  BY <1>8 DEF Answer, NoRequest
<1>9. CASE ReadUrl
  <2>1. PICK object \in {stored, NoIdentity} :
          /\ Read(object)
          /\ hb' = [NoSession EXCEPT
                      !.at = IF object.url = "none" THEN "wait" ELSE "token",
                      !.url = object.url]
    BY <1>9 DEF ReadUrl
  <2>2. object.url \in Urls
    BY <2>1
  <2>3. hb' \in Heartbeats /\ hb'.at \in {"wait", "token"}
    BY <2>1, <2>2 DEF NoSession
  <2>4. faults' \in 0..MaxFaults
    BY <2>1 DEF Read
  <2> QED
    BY <1>9, <2>3, <2>4 DEF ReadUrl
<1>10. CASE ReadToken
  <2>1. PICK object \in {stored, NoIdentity} :
          /\ Read(object)
          /\ hb' = [hb EXCEPT
                      !.at = IF object.token = NoToken \/ hb.url = "malformed"
                             THEN "wait" ELSE "connect",
                      !.token = object.token]
    BY <1>10 DEF ReadToken
  <2>2. object.token \in Tokens \cup {NoToken}
    BY <2>1
  <2>3. /\ hb' \in Heartbeats
        /\ hb'.at \in {"wait", "connect"}
        /\ hb'.at = "connect" => hb'.token # NoToken
    BY <2>1, <2>2
  <2>4. faults' \in 0..MaxFaults
    BY <2>1 DEF Read
  <2> QED
    BY <1>10, <2>3, <2>4 DEF ReadToken
<1>11. CASE Connect \/ ConnectFails
  BY <1>11 DEF Connect, ConnectFails, HeartbeatGoesTo
<1>12. CASE CheckUrl
  BY <1>12 DEF CheckUrl, Read, HeartbeatGoesTo
<1>13. CASE CheckToken
  BY <1>13 DEF CheckToken, Read, HeartbeatGoesTo
<1>14. CASE Send
  BY <1>14 DEF Send, HeartbeatGoesTo
<1>15. CASE SendFails \/ KeepAlive \/ SessionEnds
  BY <1>15 DEF SendFails, KeepAlive, SessionEnds, HeartbeatGoesTo
<1>16. CASE PeriodElapses
  BY <1>16 DEF PeriodElapses, NoSession
<1>17. CASE Reset
  BY <1>17 DEF Reset, NoRequest, NoSession
<1>18. CASE UNCHANGED vars
  BY <1>18 DEF vars
<1> QED
  BY <1>1, <1>2, <1>3, <1>4, <1>5, <1>6, <1>7, <1>8, <1>9, <1>10, <1>11,
     <1>12, <1>13, <1>14, <1>15, <1>16, <1>17, <1>18
     DEF Next, Rotation, HeartbeatStep

\* The control link keeps its inductive invariant (agent.rs, heartbeat.rs).
THEOREM LinkInvariance == Spec => []LinkInv
<1>1. Init => LinkInv
  BY TokensAssumption, LinkBoundsAssumption
     DEF Init, LinkInv, TypeOK, RequestIsFresh, RequestIsAuthorized,
         SessionHasToken, CoreNeverLockedOut, OneStaleReport, NoRequest,
         NoSession, NoIdentity, Identities, Handlers, HandlerSteps,
         Heartbeats, HeartbeatSteps, Urls
<1>2. LinkInv /\ [Next]_vars => LinkInv'
  BY LinkInvNext
<1> QED
  BY <1>1, <1>2, PTL DEF Spec

\* Types: in particular the stored token is never the empty one.
THEOREM LinkTypeCorrect == Spec => []TypeOK
<1>1. LinkInv => TypeOK
  BY DEF LinkInv
<1> QED
  BY <1>1, LinkInvariance, PTL

\* Whatever fails or is lost, a Core that keeps both tokens until it is
\* answered holds the one in force (agent.rs:204-208).
THEOREM CoreIsNeverLockedOut == Spec => []CoreNeverLockedOut
<1>1. LinkInv => CoreNeverLockedOut
  BY DEF LinkInv
<1> QED
  BY <1>1, LinkInvariance, PTL

\* One report at most follows a rotation with another token
\* (heartbeat.rs:198).
THEOREM AtMostOneStaleReport == Spec => []OneStaleReport
<1>1. LinkInv => OneStaleReport
  BY DEF LinkInv
<1> QED
  BY <1>1, LinkInvariance, PTL

\* What a step may do to the object: only a commit writes it, and what it
\* writes is what was read, with the token of an authorized request.
LEMMA OnlyCommitsWrite ==
  ASSUME LinkInv, [Next]_vars, stored' # stored
  PROVE  /\ stored'.url = stored.url
         /\ stored'.token \in ValidTokens
         /\ handler.presented = stored.token
         /\ stored'.token = handler.new
<1>1. Commit \/ CommitFails
  BY DEF Next, Rotation, HeartbeatStep, vars, AskRotation, Authorize,
         LoadIdentity, LoadFails, ReadBack, Answer, ReadUrl, ReadToken,
         Connect, ConnectFails, CheckUrl, CheckToken, Send, SendFails,
         KeepAlive, SessionEnds, PeriodElapses, Reset
<1>2. handler.step = "commit" /\ stored' = handler.draft
  BY <1>1 DEF Commit, CommitFails, Land
<1>3. /\ stored \in [url : Urls, token : ValidTokens]
      /\ handler.new \in ValidTokens
      /\ handler.presented = stored.token
      /\ handler.draft = [stored EXCEPT !.token = handler.new]
  BY <1>2 DEF LinkInv, TypeOK, RequestIsAuthorized
<1> QED
  BY <1>2, <1>3, DraftKeepsUrl

\* A rotation changes the token alone, never to none (agent.rs:217-230).
THEOREM RotationAlwaysKeepsIdentity == Spec => RotationKeepsIdentity
<1>1. LinkInv /\ [Next]_vars =>
        [stored'.url = stored.url /\ stored'.token \in ValidTokens]_vars
  <2> SUFFICES ASSUME LinkInv, [Next]_vars
               PROVE  stored'.url = stored.url /\ stored'.token \in ValidTokens
    OBVIOUS
  <2>1. CASE stored' = stored
    BY <2>1 DEF LinkInv, TypeOK
  <2>2. CASE stored' # stored
    BY <2>2, OnlyCommitsWrite
  <2> QED
    BY <2>1, <2>2
<1> QED
  BY <1>1, LinkInvariance, PTL DEF Spec, RotationKeepsIdentity

\* The token changes only for a request that presented the one in force
\* (agent.rs:191-197, http/api.rs:117).
THEOREM RotationIsAlwaysAuthorized == Spec => RotationIsAuthorized
<1>1. LinkInv /\ [Next]_vars =>
        [stored'.token # stored.token =>
           handler.presented = stored.token /\ handler.new = stored'.token]_vars
  BY OnlyCommitsWrite
<1> QED
  BY <1>1, LinkInvariance, PTL DEF Spec, RotationIsAuthorized

-----------------------------------------------------------------------------
(* The token in force is reported with.                                    *)

\* The heartbeat task works with the ctrl_url that is stored.
LEMMA UrlIsKept ==
  ASSUME LinkInv, SessionKeepsUrl, [Next]_vars
  PROVE  SessionKeepsUrl'
<1>1. stored'.url = stored.url
  <2>1. CASE stored' = stored
    BY <2>1
  <2>2. CASE stored' # stored
    BY <2>2, OnlyCommitsWrite
  <2> QED
    BY <2>1, <2>2
<1>2. hb \in Heartbeats
  BY DEF LinkInv, TypeOK
<1>3. CASE UNCHANGED hb
  BY <1>1, <1>3 DEF SessionKeepsUrl
<1>4. CASE ReadUrl
  BY <1>1, <1>4 DEF ReadUrl, Read, NoSession, NoIdentity, SessionKeepsUrl
<1>5. CASE ReadToken
  BY <1>1, <1>2, <1>5 DEF ReadToken, SessionKeepsUrl, Heartbeats
<1>6. CASE Connect \/ ConnectFails \/ CheckUrl \/ CheckToken \/ Send
           \/ SendFails \/ KeepAlive \/ SessionEnds
  <2>1. hb.at \notin {"url", "wait"}
    BY <1>6 DEF Connect, ConnectFails, CheckUrl, CheckToken, Send, SendFails,
       KeepAlive, SessionEnds
  <2>2. hb'.url = hb.url
    BY <1>2, <1>6 DEF Connect, ConnectFails, CheckUrl, CheckToken, Send,
       SendFails, KeepAlive, SessionEnds, HeartbeatGoesTo, Heartbeats
  <2> QED
    BY <1>1, <2>1, <2>2 DEF SessionKeepsUrl
<1>7. CASE PeriodElapses
  BY <1>1, <1>2, <1>7 DEF PeriodElapses, NoSession, SessionKeepsUrl, Heartbeats
<1>8. CASE Reset
  BY <1>8 DEF Reset, NoSession, SessionKeepsUrl
<1> QED
  BY <1>3, <1>4, <1>5, <1>6, <1>7, <1>8 DEF Next, Rotation, HeartbeatStep, vars,
     AskRotation, Authorize, LoadIdentity, LoadFails, Commit, CommitFails,
     ReadBack, Answer

\* heartbeat.rs:198: whatever rotations it has missed, each step of the
\* heartbeat task that nothing hinders brings the report with the token in
\* force nearer, which is never more than twelve steps away.
THEOREM TokenIsSoonReported == Spec => EveryStepReports
<1>1. Init => SessionKeepsUrl
  BY DEF Init, NoSession, SessionKeepsUrl
<1>2. LinkInv /\ SessionKeepsUrl /\ [Next]_vars => SessionKeepsUrl'
  BY UrlIsKept
<1>3. ASSUME LinkInv, SessionKeepsUrl, HeartbeatStep, Unhindered,
             stored.url = "host"
      PROVE  sent' = stored.token \/ StepsToReport' < StepsToReport
  <2>0. /\ hb \in Heartbeats
        /\ stored.token # NoToken
        /\ hb.at \notin {"url", "wait"} => hb.url = "host"
    BY <1>3, TokensAssumption DEF LinkInv, TypeOK, SessionKeepsUrl
  <2>1. UNCHANGED stored
    BY <1>3 DEF HeartbeatStep, ReadUrl, ReadToken, Connect, ConnectFails,
       CheckUrl, CheckToken, Send, SendFails, KeepAlive, SessionEnds,
       PeriodElapses
  <2>2. ASSUME NEW object, Read(object) PROVE object = stored
    BY <1>3, <2>2 DEF Read, Unhindered, LinkInv, TypeOK
  <2>3. CASE ReadUrl
    BY <1>3, <2>1, <2>2, <2>3 DEF ReadUrl, NoSession, StepsToReport
  <2>4. CASE ReadToken
    BY <1>3, <2>0, <2>1, <2>2, <2>4 DEF ReadToken, StepsToReport, Heartbeats
  <2>5. CASE Connect
    BY <2>0, <2>1, <2>5 DEF Connect, HeartbeatGoesTo, StepsToReport, Heartbeats
  <2>6. CASE CheckUrl
    BY <1>3, <2>0, <2>1, <2>2, <2>6 DEF CheckUrl, HeartbeatGoesTo,
       StepsToReport, Heartbeats
  <2>7. CASE CheckToken
    BY <2>0, <2>1, <2>2, <2>7 DEF CheckToken, HeartbeatGoesTo, StepsToReport,
       Heartbeats
  <2>8. CASE Send
    BY <2>0, <2>1, <2>8 DEF Send, HeartbeatGoesTo, StepsToReport, Heartbeats
  <2>9. CASE KeepAlive \/ SessionEnds
    BY <2>0, <2>1, <2>9 DEF KeepAlive, SessionEnds, HeartbeatGoesTo,
       StepsToReport, Heartbeats
  <2>10. CASE PeriodElapses
    BY <2>0, <2>1, <2>10 DEF PeriodElapses, NoSession, StepsToReport, Heartbeats
  <2> QED
    BY <1>3, <2>3, <2>4, <2>5, <2>6, <2>7, <2>8, <2>9, <2>10
    DEF HeartbeatStep, Unhindered
<1>4. LinkInv /\ SessionKeepsUrl /\ [Next]_vars =>
        [HeartbeatStep /\ Unhindered /\ stored.url = "host" =>
           sent' = stored.token \/ StepsToReport' < StepsToReport]_vars
  BY <1>3
<1> QED
  BY <1>1, <1>2, <1>4, LinkInvariance, PTL DEF Spec, EveryStepReports

================================================================================
