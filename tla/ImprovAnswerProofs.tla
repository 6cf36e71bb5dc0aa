-------------------------- MODULE ImprovAnswerProofs --------------------------
(***************************************************************************)
(* While the line has lost nothing, what the browser awaits is under way,  *)
(* for any number of reloads and any length of the line; and serving and   *)
(* reading take away from the work that is left.                           *)
(***************************************************************************)
EXTENDS ImprovAnswer, ImprovProofs, SequenceTheorems

-----------------------------------------------------------------------------
(* Commands that are read, frames that are sent.                           *)

\* Reading another command leaves the pending one in the queue.
LEMMA TakeLeavesQueued ==
  ASSUME ImprovTypeOK, NEW c, c # pending, Take(c), UNCHANGED pending, Queued
  PROVE  Queued'
<1>1. PICK i \in 1..Len(commands) : commands[i] = pending
  BY DEF Queued
<1>2. /\ commands \in Seq(Commands) /\ commands # <<>>
      /\ commands' = Tail(commands) /\ commands[1] = c
  BY DEF Take, ImprovTypeOK
<1>3. /\ Len(commands') = Len(commands) - 1
      /\ \A k \in 1..Len(commands') : commands'[k] = commands[k + 1]
  BY <1>2
<1>4. i # 1 /\ i - 1 \in 1..Len(commands')
  BY <1>1, <1>2, <1>3
<1>5. commands'[i - 1] = pending'
  BY <1>1, <1>3, <1>4
<1> QED
  BY <1>4, <1>5 DEF Queued

\* Frames are sent behind those that are on the line.
SentBehind ==
  /\ frames \in Seq(Frames) /\ frames' \in Seq(Frames)
  /\ Len(frames) <= Len(frames')
  /\ \A i \in 1..Len(frames) : frames'[i] = frames[i]

LEMMA SendIsBehind ==
  ASSUME frames \in Seq(Frames), NEW f \in Frames, Send(f)
  PROVE  /\ SentBehind
         /\ Len(frames') = Len(frames) + 1
         /\ frames'[Len(frames')] = f
BY DEF Send, SentBehind

\* One frame after another is two.
LEMMA OneAfterAnother ==
  ASSUME NEW s \in Seq(Frames), NEW e \in Frames, NEW f \in Frames
  PROVE  /\ (s \o <<>>) \o <<f>> = Append(s, f)
         /\ (s \o <<e>>) \o <<f>> = s \o <<e, f>>
<1>1. (s \o <<>>) \o <<f>> = Append(s, f)
  <2>1. s \o <<>> = s
    OBVIOUS
  <2>2. s \o <<f>> = Append(s, f)
    OBVIOUS
  <2> QED
    BY <2>1, <2>2
<1>2. (s \o <<e>>) \o <<f>> = s \o <<e, f>>
  <2> DEFINE a == (s \o <<e>>) \o <<f>>
             b == s \o <<e, f>>
  <2>1. /\ <<e>> \in Seq(Frames) /\ Len(<<e>>) = 1 /\ <<e>>[1] = e
        /\ <<f>> \in Seq(Frames) /\ Len(<<f>>) = 1 /\ <<f>>[1] = f
        /\ <<e, f>> \in Seq(Frames) /\ Len(<<e, f>>) = 2
        /\ <<e, f>>[1] = e /\ <<e, f>>[2] = f
    OBVIOUS
  <2>2. /\ a \in Seq(Frames) /\ b \in Seq(Frames)
        /\ Len(a) = Len(s) + 2 /\ Len(b) = Len(s) + 2
    BY <2>1
  <2>3. ASSUME NEW i \in 1..(Len(s) + 2) PROVE a[i] = b[i]
    BY <2>1
  <2> HIDE DEF a, b
  <2> QED
    BY <2>2, <2>3, SeqEqual DEF a, b
<1> QED
  BY <1>1, <1>2

LEMMA SendTwoIsBehind ==
  ASSUME frames \in Seq(Frames), NEW e \in Frames, NEW f \in Frames,
         frames' = frames \o <<e, f>>
  PROVE  /\ SentBehind
         /\ Len(frames') = Len(frames) + 2
         /\ frames'[Len(frames) + 1] = e
         /\ frames'[Len(frames) + 2] = f
<1>1. <<e, f>> \in Seq(Frames) /\ Len(<<e, f>>) = 2
  OBVIOUS
<1> QED
  BY <1>1 DEF SentBehind

\* A result that comes after a frame still does when others are sent behind.
LEMMA ResultStaysAhead ==
  ASSUME SentBehind, UNCHANGED pending, NEW i \in 0..Len(frames),
         \E j \in (i + 1)..Len(frames) : EndsWait(frames[j])
  PROVE  ResultComesAfter(i)'
<1>1. PICK j \in (i + 1)..Len(frames) : EndsWait(frames[j])
  OBVIOUS
<1>2. j \in (i + 1)..Len(frames') /\ frames'[j] = frames[j]
  BY DEF SentBehind
<1> QED
  BY <1>1, <1>2 DEF ResultComesAfter, EndsWait

\* So does one that is the last of what is sent.
LEMMA ResultIsSent ==
  ASSUME SentBehind, UNCHANGED pending, NEW i \in 0..Len(frames),
         NEW k \in (Len(frames) + 1)..Len(frames'), EndsWait(frames'[k])
  PROVE  ResultComesAfter(i)'
<1>1. k \in (i + 1)..Len(frames')
  BY DEF SentBehind
<1> QED
  BY <1>1 DEF ResultComesAfter, EndsWait

\* What a handler must do to keep what the browser awaits under way.
LEMMA SendKeeps ==
  ASSUME SentBehind, AnswerIsUnderWay, FailureIsTold,
         UNCHANGED <<pending, awaits, losses>>,
         \A i \in 0..Len(frames) : ResultComesAfter(i) => ResultComesAfter(i)',
         (awaits = "state" /\ pending = "current" /\ Queued) =>
            Queued' \/ \E i \in (Len(frames) + 1)..Len(frames') :
                         EndsStateWait(frames'[i]),
         \A i \in (Len(frames) + 1)..Len(frames') :
            IsProvisioned(frames'[i]) =>
              /\ state' # "Authorized"
              /\ at' = "current" \/ UNCHANGED commands,
         state' = "Authorized" =>
            \/ state = "Authorized"
            \/ \E i \in (Len(frames) + 1)..Len(frames') :
                 frames'[i].kind = "error"
  PROVE  AnswerIsUnderWay' /\ FailureIsTold'
<1> USE DEF SentBehind
<1>n. Len(frames) \in Nat /\ Len(frames') \in Nat
  OBVIOUS
<1>1. ASSUME losses' = 0, awaits' = "result" PROVE ResultComesAfter(0)'
  BY <1>1, <1>n DEF AnswerIsUnderWay
<1>2. ASSUME losses' = 0, awaits' = "state"
      PROVE  /\ pending' = "current"
             /\ Queued' \/ (\E i \in 1..Len(frames) : EndsStateWait(frames[i]))'
  <2>1. pending = "current"
    BY <1>2 DEF AnswerIsUnderWay
  <2>2. CASE Queued
    BY <1>2, <2>1, <2>2, <1>n DEF EndsStateWait, EndsWait
  <2>3. CASE \E i \in 1..Len(frames) : EndsStateWait(frames[i])
    <3>1. PICK i \in 1..Len(frames) : EndsStateWait(frames[i])
      BY <2>3
    <3>2. i \in 1..Len(frames') /\ EndsStateWait(frames'[i])
      BY <3>1, <1>n
    <3> QED
      BY <2>1, <3>2 DEF EndsStateWait, EndsWait
  <2> QED
    BY <1>2, <2>1, <2>2, <2>3 DEF AnswerIsUnderWay
<1>3. ASSUME losses' = 0, awaits' = "state", NEW i \in 1..Len(frames'),
             IsProvisioned(frames'[i]),
             (\A k \in 1..(i - 1) : ~EndsStateWait(frames[k]))'
      PROVE  ResultComesAfter(i)'
  <2>0. losses = 0 /\ awaits = "state" /\ pending = "current"
    BY <1>3 DEF AnswerIsUnderWay
  <2>1. CASE i \in 1..Len(frames)
    <3>1. IsProvisioned(frames[i])
      BY <1>3, <2>1
    <3>2. \A k \in 1..(i - 1) : ~EndsStateWait(frames[k])
      BY <1>3, <2>1, <1>n DEF EndsStateWait, EndsWait
    <3>3. ResultComesAfter(i)
      BY <2>0, <2>1, <3>1, <3>2 DEF AnswerIsUnderWay
    <3> QED
      BY <2>1, <3>3
  <2>2. CASE i \in (Len(frames) + 1)..Len(frames')
    <3>1. /\ state' # "Authorized"
          /\ at' = "current" \/ UNCHANGED commands
      BY <1>3, <2>2
    <3>2. \A k \in 1..Len(frames) : ~EndsStateWait(frames[k])
      BY <1>3, <2>2, <1>n DEF EndsStateWait, EndsWait
    <3>3. Queued
      BY <2>0, <3>2 DEF AnswerIsUnderWay
    <3> QED
      BY <2>0, <3>1, <3>3 DEF ResultComesAfter, Queued, StepsOf
  <2> QED
    BY <1>n, <2>1, <2>2
<1>4. AnswerIsUnderWay'
  BY <1>1, <1>2, <1>3 DEF AnswerIsUnderWay
<1>5. FailureIsTold'
  <2> SUFFICES ASSUME NEW i \in 1..Len(frames'), IsProvisioned(frames'[i]),
                      state' = "Authorized"
               PROVE  \E j \in (i + 1)..Len(frames') : frames'[j].kind = "error"
    BY DEF FailureIsTold, IsProvisioned
  <2>1. i \in 1..Len(frames)
    BY <1>n
  <2>2. CASE state = "Authorized"
    <3>1. IsProvisioned(frames[i])
      BY <2>1
    <3>2. PICK j \in (i + 1)..Len(frames) : frames[j].kind = "error"
      BY <2>1, <2>2, <3>1 DEF FailureIsTold
    <3> QED
      BY <1>n, <2>1, <3>2
  <2>3. CASE state # "Authorized"
    BY <1>n, <2>1, <2>3
  <2> QED
    BY <2>2, <2>3
<1> QED
  BY <1>4, <1>5
-----------------------------------------------------------------------------
(* The steps.                                                              *)

\* The handlers keep what the browser awaits under way.
LEMMA HandleKeeps ==
  ASSUME ImprovTypeOK, AnswerInv, Handle
  PROVE  AnswerInv'
<1>0. /\ AnswerIsUnderWay /\ StateFollows /\ FailureIsTold
      /\ frames \in Seq(Frames) /\ state \in States /\ Len(frames) \in Nat
  BY DEF AnswerInv, ImprovTypeOK
<1> USE <1>0
<1>p. UNCHANGED <<pending, awaits, losses>>
  BY DEF Handle, GetCurrentState, SendUrl, GetDeviceInfo, GetNetworkState,
     Unsupported, GetWifiNetworks, Scanned, WifiSettings, Connected, Refused,
     browser, bounds
<1>q. StateFollows'
  BY DEF Handle, GetCurrentState, SendUrl, GetDeviceInfo, GetNetworkState,
     Unsupported, GetWifiNetworks, Scanned, WifiSettings, Connected, Refused,
     Take, StateFollows, device
<1>r. \A i \in 0..Len(frames) :
        ResultComesAfter(i) <=>
          \/ \E j \in (i + 1)..Len(frames) : EndsWait(frames[j])
          \/ at \in StepsOf(pending)
          \/ Queued /\ (pending = "current" => state # "Authorized")
  BY DEF ResultComesAfter
<1>s. ASSUME SentBehind, NEW i \in 0..Len(frames), ResultComesAfter(i),
             at \notin StepsOf(pending),
             ~(Queued /\ (pending = "current" => state # "Authorized"))
      PROVE  ResultComesAfter(i)'
  BY <1>p, <1>r, <1>s, ResultStaysAhead
<1>1. CASE GetCurrentState
  <2>1. /\ Take("current") /\ Send(StateFrame(state)) /\ state' = state
        /\ at' = IF state = "Provisioned" THEN "current" ELSE "listen"
        /\ at = "listen"
    BY <1>1 DEF GetCurrentState, Take
  <2>2. /\ SentBehind /\ Len(frames') = Len(frames) + 1
        /\ frames'[Len(frames')] = StateFrame(state)
    BY <2>1, FramesTyped, SendIsBehind
  <2>3. ASSUME NEW i \in 0..Len(frames), ResultComesAfter(i)
        PROVE  ResultComesAfter(i)'
    <3>1. at \notin StepsOf(pending)
      BY <2>1 DEF StepsOf
    <3>2. CASE Queued /\ (pending = "current" => state # "Authorized")
      <4>1. CASE pending = "current"
        <5>1. state = "Provisioned"
          BY <2>1, <3>2, <4>1 DEF StateFollows, States
        <5> QED
          BY <1>p, <2>1, <4>1, <5>1 DEF ResultComesAfter, StepsOf
      <4>2. CASE pending # "current"
        BY <1>p, <2>1, <3>2, <4>2, TakeLeavesQueued DEF ResultComesAfter
      <4> QED
        BY <4>1, <4>2
    <3> QED
      BY <1>s, <2>2, <2>3, <3>1, <3>2
  <2>4. EndsStateWait(frames'[Len(frames')])
    BY <2>2 DEF EndsStateWait, StateFrame
  <2>5. ASSUME NEW i \in (Len(frames) + 1)..Len(frames'),
               IsProvisioned(frames'[i])
        PROVE  state' # "Authorized" /\ at' = "current"
    <3>1. i = Len(frames')
      BY <2>2, <2>5
    <3>2. state = "Provisioned"
      BY <2>2, <2>5, <3>1 DEF IsProvisioned, StateFrame
    <3> QED
      BY <2>1, <3>2
  <2>6. Len(frames') \in (Len(frames) + 1)..Len(frames')
    BY <2>2
  <2> QED
    BY <1>p, <1>q, <2>1, <2>2, <2>3, <2>4, <2>5, <2>6, SendKeeps DEF AnswerInv
<1>2. CASE SendUrl
  <2>1. /\ at \in {"current", "settings"} /\ Send(Result(at, link = "up"))
        /\ UNCHANGED <<state, commands>>
    BY <1>2 DEF SendUrl
  <2>2. Result(at, link = "up") \in Frames
    BY <2>1, FramesTyped DEF Commands
  <2>3. /\ SentBehind /\ Len(frames') = Len(frames) + 1
        /\ frames'[Len(frames')] = Result(at, link = "up")
    BY <2>1, <2>2, SendIsBehind
  <2>4. ~IsProvisioned(frames'[Len(frames')])
    BY <2>3 DEF IsProvisioned, Result
  <2>5. ASSUME NEW i \in 0..Len(frames), ResultComesAfter(i)
        PROVE  ResultComesAfter(i)'
    <3>1. CASE at \in StepsOf(pending)
      <4>1. at = pending
        BY <2>1, <3>1 DEF StepsOf
      <4>2. EndsWait(frames'[Len(frames')])
        BY <2>3, <4>1 DEF EndsWait, Result
      <4>3. Len(frames') \in (Len(frames) + 1)..Len(frames')
        BY <2>3
      <4> QED
        BY <1>p, <2>3, <4>2, <4>3, ResultIsSent
    <3>2. CASE Queued /\ (pending = "current" => state # "Authorized")
      BY <1>p, <2>1, <3>2 DEF ResultComesAfter, Queued
    <3> QED
      BY <1>s, <2>3, <2>5, <3>1, <3>2
  <2>6. Queued => Queued'
    BY <1>p, <2>1 DEF Queued
  <2>7. \A i \in (Len(frames) + 1)..Len(frames') : i = Len(frames')
    BY <2>3
  <2> QED
    BY <1>p, <1>q, <2>1, <2>3, <2>4, <2>5, <2>6, <2>7, SendKeeps DEF AnswerInv
<1>3. ASSUME NEW c \in Commands \ {"current"}, NEW f \in Frames,
             Take(c), Send(f), UNCHANGED <<at, state>>, ~IsProvisioned(f),
             pending = c => EndsWait(f)
      PROVE  AnswerInv'
  <2>1. /\ SentBehind /\ Len(frames') = Len(frames) + 1
        /\ frames'[Len(frames')] = f
    BY <1>3, SendIsBehind
  <2>2. at = "listen"
    BY <1>3 DEF Take
  <2>3. Len(frames') \in (Len(frames) + 1)..Len(frames')
    BY <2>1
  <2>4. ASSUME NEW i \in 0..Len(frames), ResultComesAfter(i)
        PROVE  ResultComesAfter(i)'
    <3>1. at \notin StepsOf(pending)
      BY <2>2 DEF StepsOf
    <3>2. CASE pending = c
      BY <1>3, <1>p, <2>1, <2>3, <3>2, ResultIsSent
    <3>3. CASE pending # c /\ Queued /\ (pending = "current" => state # "Authorized")
      BY <1>3, <1>p, <3>3, TakeLeavesQueued DEF ResultComesAfter
    <3> QED
      BY <1>s, <2>1, <2>4, <3>1, <3>2, <3>3
  <2>5. (pending = "current" /\ Queued) => Queued'
    BY <1>3, <1>p, TakeLeavesQueued
  <2>6. \A i \in (Len(frames) + 1)..Len(frames') : i = Len(frames')
    BY <2>1
  <2> QED
    BY <1>3, <1>p, <1>q, <2>1, <2>4, <2>5, <2>6, SendKeeps DEF AnswerInv
<1>4. CASE GetDeviceInfo
  <2>1. /\ Result("info", FALSE) \in Frames
        /\ ~IsProvisioned(Result("info", FALSE))
        /\ pending = "info" => EndsWait(Result("info", FALSE))
    BY FramesTyped DEF Commands, IsProvisioned, EndsWait, Result
  <2> QED
    BY <1>3, <1>4, <2>1 DEF GetDeviceInfo, Commands, device
<1>5. CASE GetNetworkState
  <2> DEFINE f == Result("network_state", link = "up")
  <2>1. f \in Frames
    BY FramesTyped DEF Commands
  <2>2. ~IsProvisioned(f) /\ (pending = "network_state" => EndsWait(f))
    BY DEF IsProvisioned, EndsWait, Result
  <2>3. Take("network_state") /\ Send(f) /\ UNCHANGED <<at, state>>
    BY <1>5 DEF GetNetworkState, device
  <2>4. "network_state" \in Commands \ {"current"}
    BY DEF Commands
  <2> HIDE DEF f
  <2> QED
    BY <1>3, <2>1, <2>2, <2>3, <2>4
<1>6. CASE Unsupported
  <2>1. Error \in Frames /\ ~IsProvisioned(Error) /\ EndsWait(Error)
    BY FramesTyped DEF IsProvisioned, EndsWait, Error
  <2> QED
    BY <1>3, <1>6, <2>1 DEF Unsupported, Commands, device
<1>7. CASE GetWifiNetworks
  <2>1. /\ Take("networks") /\ at = "listen" /\ at' = "scan"
        /\ UNCHANGED <<state, frames>>
    BY <1>7 DEF GetWifiNetworks, Take
  <2>2. SentBehind /\ Len(frames') = Len(frames)
    BY <2>1 DEF SentBehind
  <2>3. ASSUME NEW i \in 0..Len(frames), ResultComesAfter(i)
        PROVE  ResultComesAfter(i)'
    <3>1. at \notin StepsOf(pending)
      BY <2>1 DEF StepsOf
    <3>2. CASE pending = "networks"
      BY <1>p, <2>1, <3>2 DEF ResultComesAfter, StepsOf
    <3>3. CASE pending # "networks" /\ Queued
               /\ (pending = "current" => state # "Authorized")
      BY <1>p, <2>1, <3>3, TakeLeavesQueued DEF ResultComesAfter
    <3> QED
      BY <1>s, <2>2, <2>3, <3>1, <3>2, <3>3
  <2>4. (pending = "current" /\ Queued) => Queued'
    BY <1>p, <2>1, TakeLeavesQueued
  <2>5. (Len(frames) + 1)..Len(frames') = {}
    BY <2>2
  <2> QED
    BY <1>p, <1>q, <2>1, <2>2, <2>3, <2>4, <2>5, SendKeeps DEF AnswerInv
<1>8. CASE Scanned
  <2>1. /\ at = "scan" /\ at' = "listen" /\ UNCHANGED <<state, commands>>
        /\ Entry \in Frames /\ Result("networks", FALSE) \in Frames
    BY <1>8, FramesTyped DEF Scanned, Commands
  <2>2. PICK found \in {<<>>, <<Entry>>} :
          frames' = frames \o found \o <<Result("networks", FALSE)>>
    BY <1>8 DEF Scanned
  <2>3. /\ SentBehind /\ Len(frames') \in {Len(frames) + 1, Len(frames) + 2}
        /\ frames'[Len(frames')] = Result("networks", FALSE)
        /\ Len(frames') = Len(frames) + 2 =>
              frames'[Len(frames) + 1] = Entry
    <3>1. CASE found = <<>>
      <4> DEFINE r == Result("networks", FALSE)
      <4>1. frames' = Append(frames, r) /\ r \in Frames
        BY <2>1, <2>2, <3>1, OneAfterAnother
      <4> HIDE DEF r
      <4>2. SentBehind /\ Len(frames') = Len(frames) + 1 /\ frames'[Len(frames')] = r
        BY <4>1, SendIsBehind DEF Send
      <4>3. Len(frames') # Len(frames) + 2
        BY <4>2
      <4>4. frames'[Len(frames')] = Result("networks", FALSE)
        BY <4>2 DEF r
      <4> QED
        BY <4>2, <4>3, <4>4
    <3>2. CASE found = <<Entry>>
      <4> DEFINE r == Result("networks", FALSE)
      <4>1. frames' = frames \o <<Entry, r>>
        BY <2>1, <2>2, <3>2, OneAfterAnother
      <4>2. r \in Frames
        BY <2>1
      <4> HIDE DEF r
      <4>3. /\ SentBehind /\ Len(frames') = Len(frames) + 2
            /\ frames'[Len(frames) + 1] = Entry
            /\ frames'[Len(frames) + 2] = r
        BY <2>1, <4>1, <4>2, SendTwoIsBehind
      <4>4. frames'[Len(frames')] = r
        BY <4>3
      <4> QED
        BY <4>3, <4>4 DEF r
    <3> QED
      BY <3>1, <3>2
  <2>4. Len(frames') \in (Len(frames) + 1)..Len(frames')
    BY <2>3
  <2>5. \A i \in (Len(frames) + 1)..Len(frames') : ~IsProvisioned(frames'[i])
    <3>1. ~IsProvisioned(Entry) /\ ~IsProvisioned(Result("networks", FALSE))
      BY DEF IsProvisioned, Entry, Result
    <3>2. \A i \in (Len(frames) + 1)..Len(frames') :
            i = Len(frames') \/ (i = Len(frames) + 1 /\ Len(frames') = Len(frames) + 2)
      BY <2>3
    <3> QED
      BY <2>3, <3>1, <3>2
  <2>6. ASSUME NEW i \in 0..Len(frames), ResultComesAfter(i)
        PROVE  ResultComesAfter(i)'
    <3>1. CASE at \in StepsOf(pending)
      <4>1. pending = "networks"
        BY <2>1, <3>1 DEF StepsOf
      <4>2. EndsWait(frames'[Len(frames')])
        BY <2>3, <4>1 DEF EndsWait, Result
      <4> QED
        BY <1>p, <2>3, <2>4, <4>2, ResultIsSent
    <3>2. CASE Queued /\ (pending = "current" => state # "Authorized")
      BY <1>p, <2>1, <3>2 DEF ResultComesAfter, Queued
    <3> QED
      BY <1>s, <2>3, <2>6, <3>1, <3>2
  <2>7. Queued => Queued'
    BY <1>p, <2>1 DEF Queued
  <2> QED
    BY <1>p, <1>q, <2>1, <2>3, <2>5, <2>6, <2>7, SendKeeps DEF AnswerInv
<1>9. CASE WifiSettings
  <2>1. /\ Take("settings") /\ at = "listen" /\ at' = "connect"
        /\ state' = "Provisioning" /\ Send(StateFrame("Provisioning"))
    BY <1>9 DEF WifiSettings, Take
  <2>2. /\ SentBehind /\ Len(frames') = Len(frames) + 1
        /\ frames'[Len(frames')] = StateFrame("Provisioning")
    BY <2>1, FramesTyped, SendIsBehind DEF States
  <2>3. \A i \in (Len(frames) + 1)..Len(frames') : ~IsProvisioned(frames'[i])
    <3>1. ~IsProvisioned(StateFrame("Provisioning"))
      BY DEF IsProvisioned, StateFrame
    <3>2. \A i \in (Len(frames) + 1)..Len(frames') : i = Len(frames')
      BY <2>2
    <3> QED
      BY <2>2, <3>1, <3>2
  <2>4. ASSUME NEW i \in 0..Len(frames), ResultComesAfter(i)
        PROVE  ResultComesAfter(i)'
    <3>1. at \notin StepsOf(pending)
      BY <2>1 DEF StepsOf
    <3>2. CASE pending = "settings"
      BY <1>p, <2>1, <3>2 DEF ResultComesAfter, StepsOf
    <3>3. CASE pending # "settings" /\ Queued
      BY <1>p, <2>1, <3>3, TakeLeavesQueued DEF ResultComesAfter
    <3> QED
      BY <1>s, <2>2, <2>4, <3>1, <3>2, <3>3
  <2>5. (pending = "current" /\ Queued) => Queued'
    BY <1>p, <2>1, TakeLeavesQueued
  <2> QED
    BY <1>p, <1>q, <2>1, <2>2, <2>3, <2>4, <2>5, SendKeeps DEF AnswerInv
<1>10. CASE Connected
  <2>1. /\ at = "connect" /\ at' = "settings" /\ UNCHANGED commands
        /\ state' = "Provisioned" /\ Send(StateFrame("Provisioned"))
    BY <1>10 DEF Connected
  <2>2. SentBehind /\ Len(frames') = Len(frames) + 1
    BY <2>1, FramesTyped, SendIsBehind DEF States
  <2>3. ASSUME NEW i \in 0..Len(frames), ResultComesAfter(i)
        PROVE  ResultComesAfter(i)'
    <3>1. CASE at \in StepsOf(pending)
      <4>1. pending = "settings"
        BY <2>1, <3>1 DEF StepsOf
      <4> QED
        BY <1>p, <2>1, <4>1 DEF ResultComesAfter, StepsOf
    <3>2. CASE Queued
      BY <1>p, <2>1, <3>2 DEF ResultComesAfter, Queued
    <3> QED
      BY <1>s, <2>2, <2>3, <3>1, <3>2
  <2>4. Queued => Queued'
    BY <1>p, <2>1 DEF Queued
  <2> QED
    BY <1>p, <1>q, <2>1, <2>2, <2>3, <2>4, SendKeeps DEF AnswerInv
<1>11. CASE Refused
  <2>1. /\ at = "connect" /\ at' = "listen" /\ UNCHANGED commands
        /\ state' = "Authorized"
        /\ frames' = frames \o <<Error, StateFrame("Authorized")>>
    BY <1>11 DEF Refused
  <2>2. /\ SentBehind /\ Len(frames') = Len(frames) + 2
        /\ frames'[Len(frames) + 1] = Error
        /\ frames'[Len(frames) + 2] = StateFrame("Authorized")
    BY <2>1, FramesTyped, SendTwoIsBehind DEF States
  <2>3. Len(frames) + 1 \in (Len(frames) + 1)..Len(frames')
    BY <2>2
  <2>4. EndsWait(frames'[Len(frames) + 1]) /\ frames'[Len(frames) + 1].kind = "error"
    BY <2>2 DEF EndsWait, Error
  <2>5. \A i \in 0..Len(frames) : ResultComesAfter(i)'
    BY <1>p, <2>2, <2>3, <2>4, ResultIsSent
  <2>6. \A i \in (Len(frames) + 1)..Len(frames') : ~IsProvisioned(frames'[i])
    <3>1. ~IsProvisioned(Error) /\ ~IsProvisioned(StateFrame("Authorized"))
      BY DEF IsProvisioned, Error, StateFrame
    <3>2. \A i \in (Len(frames) + 1)..Len(frames') :
            i \in {Len(frames) + 1, Len(frames) + 2}
      BY <2>2
    <3> QED
      BY <2>2, <3>1, <3>2
  <2>7. Queued => Queued'
    BY <1>p, <2>1 DEF Queued
  <2> QED
    BY <1>p, <1>q, <2>2, <2>3, <2>4, <2>5, <2>6, <2>7, SendKeeps DEF AnswerInv
<1> QED
  BY <1>1, <1>2, <1>4, <1>5, <1>6, <1>7, <1>8, <1>9, <1>10, <1>11 DEF Handle

-----------------------------------------------------------------------------
(* The boot, the browser and the line.                                     *)

\* A device that has not got to serve yet changes nothing of an answer.
LEMMA QuietKeeps ==
  ASSUME AnswerInv, UNCHANGED <<line, browser, bounds>>,
         at \in StepsOf(pending) => at' \in StepsOf(pending),
         state # "Authorized" => state' # "Authorized",
         StateFollows'
  PROVE  AnswerInv'
<1>1. UNCHANGED <<frames, commands, pending, awaits, losses>>
  BY DEF line, browser, bounds
<1>2. \A i \in 0..Len(frames) : ResultComesAfter(i) => ResultComesAfter(i)'
  BY <1>1 DEF ResultComesAfter, EndsWait, Queued
<1>3. FailureIsTold'
  BY <1>1 DEF AnswerInv, FailureIsTold, IsProvisioned
<1>4. AnswerIsUnderWay'
  <2>1. losses' = 0 /\ awaits' = "result" => ResultComesAfter(0)'
    <3>1. 0 \in 0..Len(frames) \/ Len(frames) \notin Nat
      OBVIOUS
    <3> QED
      BY <1>1 DEF AnswerInv, AnswerIsUnderWay, ResultComesAfter, EndsWait, Queued
  <2>2. losses' = 0 /\ awaits' = "state" =>
          /\ pending' = "current"
          /\ Queued' \/ (\E i \in 1..Len(frames) : EndsStateWait(frames[i]))'
    BY <1>1 DEF AnswerInv, AnswerIsUnderWay, EndsStateWait, EndsWait, Queued
  <2>3. ASSUME losses' = 0, awaits' = "state", NEW i \in 1..Len(frames'),
               IsProvisioned(frames'[i]),
               (\A k \in 1..(i - 1) : ~EndsStateWait(frames[k]))'
        PROVE  ResultComesAfter(i)'
    <3>1. ResultComesAfter(i)
      BY <1>1, <2>3 DEF AnswerInv, AnswerIsUnderWay, EndsStateWait, EndsWait
    <3> QED
      BY <1>1, <3>1 DEF ResultComesAfter, EndsWait, Queued
  <2> QED
    BY <2>1, <2>2, <2>3 DEF AnswerIsUnderWay
<1> QED
  BY <1>3, <1>4 DEF AnswerInv

LEMMA BootKeeps ==
  ASSUME ImprovTypeOK, AnswerInv, Reconnect \/ Run \/ LinkLost \/ LinkBack
  PROVE  AnswerInv'
<1>1. CASE Reconnect
  BY <1>1, QuietKeeps DEF Reconnect, StepsOf, AnswerInv, StateFollows
<1>2. CASE Run
  BY <1>2, QuietKeeps DEF Run, StepsOf, AnswerInv, StateFollows
<1>3. CASE LinkLost \/ LinkBack
  BY <1>3, QuietKeeps DEF LinkLost, LinkBack, AnswerInv, StateFollows, device
<1> QED
  BY <1>1, <1>2, <1>3

\* A command that is sent is queued.  A browser that will read Provisioned
\* first reads of the failure that followed it, or of a device that still is.
LEMMA AskKeeps ==
  ASSUME ImprovTypeOK, AnswerInv, NEW c \in Commands, Ask(c)
  PROVE  AnswerInv'
<1>1. /\ frames \in Seq(Frames) /\ commands \in Seq(Commands)
      /\ commands' = Append(commands, c) /\ pending' = c
      /\ awaits' = IF c = "current" THEN "state" ELSE "result"
      /\ UNCHANGED <<at, state, frames>>
  BY DEF Ask, ImprovTypeOK, device
<1>2. Queued'
  <2>1. Len(commands') \in 1..Len(commands') /\ commands'[Len(commands')] = c
    BY <1>1
  <2> QED
    BY <1>1, <2>1 DEF Queued
<1>3. StateFollows' /\ FailureIsTold'
  BY <1>1 DEF AnswerInv, StateFollows, FailureIsTold, IsProvisioned
<1>4. CASE c # "current"
  BY <1>1, <1>2, <1>3, <1>4 DEF AnswerInv, AnswerIsUnderWay, ResultComesAfter
<1>5. CASE c = "current"
  <2>1. ASSUME NEW i \in 1..Len(frames), IsProvisioned(frames[i])
        PROVE  ResultComesAfter(i)'
    <3>1. CASE state # "Authorized"
      BY <1>1, <1>2, <3>1 DEF ResultComesAfter
    <3>2. CASE \E j \in (i + 1)..Len(frames) : frames[j].kind = "error"
      BY <1>1, <3>2 DEF ResultComesAfter, EndsWait
    <3> QED
      BY <2>1, <3>1, <3>2 DEF AnswerInv, FailureIsTold
  <2>2. \A i \in 1..Len(frames') : IsProvisioned(frames'[i]) => ResultComesAfter(i)'
    BY <1>1, <2>1
  <2>3. AnswerIsUnderWay'
    BY <1>1, <1>2, <1>5, <2>2 DEF AnswerIsUnderWay, IsProvisioned
  <2> QED
    BY <1>3, <2>3 DEF AnswerInv
<1> QED
  BY <1>4, <1>5

\* A frame that is taken off the line.
TakenOff ==
  /\ frames \in Seq(Frames) /\ frames # <<>>
  /\ frames' = Tail(frames)
  /\ UNCHANGED state

LEMMA TakenOffShifts ==
  ASSUME TakenOff
  PROVE  /\ Len(frames) \in Nat /\ Len(frames') = Len(frames) - 1
         /\ Head(frames) = frames[1]
         /\ \A i \in 1..Len(frames') : frames'[i] = frames[i + 1]
BY DEF TakenOff

LEMMA TakenOffKeepsFailure ==
  ASSUME TakenOff, FailureIsTold
  PROVE  FailureIsTold'
<1> SUFFICES ASSUME NEW i \in 1..Len(frames'), IsProvisioned(frames'[i]),
                    state' = "Authorized"
             PROVE  \E j \in (i + 1)..Len(frames') : frames'[j].kind = "error"
  BY DEF FailureIsTold, IsProvisioned
<1>1. i + 1 \in 1..Len(frames) /\ IsProvisioned(frames[i + 1])
  BY TakenOffShifts
<1>2. state = "Authorized"
  BY DEF TakenOff
<1>3. PICK j \in (i + 2)..Len(frames) : frames[j].kind = "error"
  BY <1>1, <1>2, TakenOffShifts DEF FailureIsTold
<1>4. j - 1 \in (i + 1)..Len(frames') /\ frames'[j - 1] = frames[j]
  BY <1>3, TakenOffShifts
<1> QED
  BY <1>3, <1>4

\* What comes after a frame comes one place earlier.
LEMMA TakenOffKeepsResult ==
  ASSUME TakenOff, UNCHANGED <<at, commands, pending>>,
         NEW i \in 0..Len(frames'), ResultComesAfter(i + 1)
  PROVE  ResultComesAfter(i)'
<1>1. CASE \E j \in (i + 2)..Len(frames) : EndsWait(frames[j])
  <2>1. PICK j \in (i + 2)..Len(frames) : EndsWait(frames[j])
    BY <1>1
  <2>2. j - 1 \in (i + 1)..Len(frames') /\ frames'[j - 1] = frames[j]
    BY <2>1, TakenOffShifts
  <2> QED
    BY <2>1, <2>2 DEF ResultComesAfter, EndsWait
<1>2. CASE \/ at \in StepsOf(pending)
           \/ Queued /\ (pending = "current" => state # "Authorized")
  BY <1>2 DEF TakenOff, ResultComesAfter, Queued
<1>3. i + 1 + 1 = i + 2
  BY TakenOffShifts
<1> QED
  BY <1>1, <1>2, <1>3 DEF ResultComesAfter

\* The browser reads: an answer ends its wait, Provisioned makes it wait for
\* the result that comes after, and what else it reads it did not wait for.
LEMMA ReceiveKeeps ==
  ASSUME ImprovTypeOK, AnswerInv, Receive
  PROVE  AnswerInv'
<1> DEFINE f == Head(frames)
<1>1. /\ TakenOff
      /\ UNCHANGED <<at, state, commands, losses>>
      /\ Await(AwaitsAfter(f))
  BY DEF Receive, TakenOff, ImprovTypeOK, device, bounds
<1>2. /\ Len(frames) \in Nat \ {0} /\ Len(frames') = Len(frames) - 1
      /\ f = frames[1]
      /\ \A i \in 1..Len(frames') : frames'[i] = frames[i + 1]
  BY <1>1, TakenOffShifts DEF TakenOff
<1> HIDE DEF f
<1>3. StateFollows' /\ FailureIsTold'
  BY <1>1, TakenOffKeepsFailure DEF AnswerInv, StateFollows
<1>4. CASE AwaitsAfter(f) = "nothing"
  BY <1>1, <1>3, <1>4 DEF Await, AnswerInv, AnswerIsUnderWay
<1>5. CASE AwaitsAfter(f) # "nothing"
  <2>1. ~Answers(f) /\ UNCHANGED pending /\ awaits' = AwaitsAfter(f)
    BY <1>1, <1>5 DEF Await, AwaitsAfter
  <2>2. ~EndsWait(frames[1])
    BY <1>2, <2>1 DEF EndsWait, Answers
  <2>3. CASE losses = 0 /\ awaits = "result"
    <3>1. awaits' = "result"
      BY <2>1, <2>3 DEF AwaitsAfter
    <3>2. ResultComesAfter(0)
      BY <2>3 DEF AnswerInv, AnswerIsUnderWay
    <3>3. ResultComesAfter(0 + 1)
      <4>1. \A j \in 1..Len(frames) : EndsWait(frames[j]) => j \in 2..Len(frames)
        BY <1>2, <2>2
      <4> QED
        BY <3>2, <4>1 DEF ResultComesAfter
    <3>4. ResultComesAfter(0)'
      BY <1>1, <1>2, <2>1, <3>3, TakenOffKeepsResult
    <3> QED
      BY <1>3, <3>1, <3>4 DEF AnswerInv, AnswerIsUnderWay
  <2>4. CASE losses = 0 /\ awaits = "state" /\ f.kind = "state"
    <3>1. awaits' = "result" /\ IsProvisioned(frames[1])
      BY <1>2, <2>1, <2>4 DEF AwaitsAfter, Answers, IsProvisioned
    <3>2. ResultComesAfter(1)
      BY <1>2, <2>4, <3>1 DEF AnswerInv, AnswerIsUnderWay
    <3>3. ResultComesAfter(0)'
      BY <1>1, <1>2, <2>1, <3>2, TakenOffKeepsResult
    <3> QED
      BY <1>3, <3>1, <3>3 DEF AnswerInv, AnswerIsUnderWay
  <2>5. CASE losses = 0 /\ awaits = "state" /\ f.kind # "state"
    <3>1. awaits' = "state" /\ pending = "current" /\ ~EndsStateWait(frames[1])
      BY <1>2, <2>1, <2>2, <2>5
      DEF AwaitsAfter, AnswerInv, AnswerIsUnderWay, EndsStateWait
    <3>2. Queued' \/ (\E i \in 1..Len(frames) : EndsStateWait(frames[i]))'
      <4>1. CASE Queued
        BY <1>1, <2>1, <4>1 DEF Queued
      <4>2. CASE \E i \in 1..Len(frames) : EndsStateWait(frames[i])
        <5>1. PICK i \in 1..Len(frames) : EndsStateWait(frames[i])
          BY <4>2
        <5>2. i # 1 /\ i - 1 \in 1..Len(frames') /\ frames'[i - 1] = frames[i]
          BY <1>2, <3>1, <5>1
        <5> QED
          BY <2>1, <5>1, <5>2 DEF EndsStateWait, EndsWait
      <4> QED
        BY <2>5, <4>1, <4>2 DEF AnswerInv, AnswerIsUnderWay
    <3>3. ASSUME NEW i \in 1..Len(frames'), IsProvisioned(frames'[i]),
                 (\A k \in 1..(i - 1) : ~EndsStateWait(frames[k]))'
          PROVE  ResultComesAfter(i)'
      <4>1. i + 1 \in 1..Len(frames) /\ IsProvisioned(frames[i + 1])
        BY <1>2, <3>3
      <4>2. ASSUME NEW k \in 1..i PROVE ~EndsStateWait(frames[k])
        <5>1. CASE k = 1
          BY <3>1, <5>1
        <5>2. CASE k # 1
          <6>1. k - 1 \in 1..(i - 1) /\ frames'[k - 1] = frames[k]
            BY <1>2, <5>2
          <6> QED
            BY <2>1, <3>3, <6>1 DEF EndsStateWait, EndsWait
        <5> QED
          BY <5>1, <5>2
      <4>3. (i + 1) - 1 = i
        OBVIOUS
      <4>4. ResultComesAfter(i + 1)
        BY <2>5, <4>1, <4>2, <4>3 DEF AnswerInv, AnswerIsUnderWay
      <4>5. i \in 0..Len(frames')
        OBVIOUS
      <4> QED
        BY <1>1, <2>1, <4>4, <4>5, TakenOffKeepsResult
    <3> QED
      BY <1>3, <2>1, <3>1, <3>2, <3>3 DEF AnswerInv, AnswerIsUnderWay
  <2>6. awaits # "nothing"
    BY <1>5, <2>1 DEF AwaitsAfter
  <2>7. CASE losses # 0
    BY <1>1, <1>3, <2>7 DEF AnswerInv, AnswerIsUnderWay
  <2> QED
    BY <2>3, <2>4, <2>5, <2>6, <2>7 DEF ImprovTypeOK
<1> QED
  BY <1>4, <1>5

\* A browser that gives up or is reloaded awaits nothing; when something has
\* been lost nothing is promised.
LEMMA LineKeeps ==
  ASSUME ImprovTypeOK, AnswerInv, GiveUp \/ Reload \/ LoseFrame \/ LoseCommand
  PROVE  AnswerInv'
<1>1. CASE GiveUp
  BY <1>1 DEF GiveUp, Await, AnswerInv, AnswerIsUnderWay, StateFollows,
     FailureIsTold, IsProvisioned, device, line
<1>2. CASE Reload
  <2>1. 1..Len(frames') = {}
    BY <1>2 DEF Reload
  <2> QED
    BY <1>2, <2>1 DEF Reload, Await, AnswerInv, AnswerIsUnderWay, StateFollows,
       FailureIsTold, device
<1>3. CASE LoseFrame
  <2>1. TakenOff /\ losses' # 0
    BY <1>3 DEF LoseFrame, TakenOff, ImprovTypeOK, device
  <2> QED
    BY <1>3, <2>1, TakenOffKeepsFailure
    DEF LoseFrame, AnswerInv, AnswerIsUnderWay, StateFollows, device
<1>4. CASE LoseCommand
  <2>1. losses' # 0
    BY <1>4 DEF LoseCommand, ImprovTypeOK
  <2> QED
    BY <1>4, <2>1 DEF LoseCommand, AnswerInv, AnswerIsUnderWay, StateFollows,
       FailureIsTold, IsProvisioned, device
<1> QED
  BY <1>1, <1>2, <1>3, <1>4

-----------------------------------------------------------------------------
(* The theorems.                                                           *)

LEMMA AnswerNext ==
  ASSUME ImprovTypeOK, AnswerInv, [Next]_vars
  PROVE  AnswerInv'
<1>1. CASE UNCHANGED vars
  BY <1>1 DEF vars, device, line, browser, bounds, AnswerInv, AnswerIsUnderWay,
     ResultComesAfter, EndsWait, EndsStateWait, IsProvisioned, Queued,
     StateFollows, FailureIsTold
<1>2. CASE Next
  BY <1>2, HandleKeeps, BootKeeps, AskKeeps, ReceiveKeeps, LineKeeps DEF Next
<1> QED
  BY <1>1, <1>2

\* provisioning.rs:137: at all times, for any length of the line and any
\* number of reloads, what the browser awaits is under way.
THEOREM AnswerInvariance == Spec => []AnswerInv
<1>1. Init => AnswerInv
  BY DEF Init, AnswerInv, AnswerIsUnderWay, StateFollows, FailureIsTold
<1>2. ImprovTypeOK /\ AnswerInv /\ [Next]_vars => AnswerInv'
  BY AnswerNext
<1> QED
  BY <1>1, <1>2, ImprovTypeCorrect, PTL DEF Spec

\* provisioning.rs:137: while nothing has been lost, a browser that waits
\* never waits for a device that has nothing left to read, to do or to send.
THEOREM BrowserNeverWaitsInVain == Spec => []NeverWaitsInVain
<1>1. ImprovTypeOK /\ AnswerInv => NeverWaitsInVain
  <2> SUFFICES ASSUME ImprovTypeOK, AnswerInv, losses = 0, awaits # "nothing",
                      at = "listen", commands = <<>>, frames = <<>>
               PROVE  FALSE
    BY DEF NeverWaitsInVain
  <2>1. ~Queued /\ 1..Len(frames) = {} /\ at \notin StepsOf(pending)
    BY DEF Queued, StepsOf
  <2>2. ~ResultComesAfter(0)
    BY <2>1 DEF ResultComesAfter
  <2> QED
    BY <2>1, <2>2 DEF AnswerInv, AnswerIsUnderWay, ImprovTypeOK
<1> QED
  BY <1>1, AnswerInvariance, ImprovTypeCorrect, PTL

\* provisioning.rs:71: serving and reading take away from the work that is
\* left, so that only a browser that asks makes the device serve on.
THEOREM AnswersComeToAnEnd == Spec => EveryStepAnswers
<1>1. ASSUME ImprovTypeOK, Reconnect \/ Run \/ Handle \/ Receive
      PROVE  WorkLeft' < WorkLeft
  <2>0. /\ frames \in Seq(Frames) /\ commands \in Seq(Commands)
        /\ Len(frames) \in Nat /\ Len(commands) \in Nat
    BY <1>1 DEF ImprovTypeOK
  <2>1. CASE Reconnect \/ Run
    BY <2>0, <2>1 DEF Reconnect, Run, WorkLeft, WorkAt, line
  <2>2. CASE Receive
    <3>1. Len(frames') = Len(frames) - 1
      BY <2>0, <2>2 DEF Receive
    <3>2. UNCHANGED <<commands, WorkAt>>
      BY <2>2 DEF Receive, device, WorkAt
    <3>3. WorkAt \in Nat
      BY <1>1 DEF WorkAt, ImprovTypeOK
    <3> QED
      BY <2>0, <3>1, <3>2, <3>3 DEF WorkLeft
  <2>3. ASSUME NEW c, Take(c)
        PROVE  Len(commands') = Len(commands) - 1 /\ WorkAt = 0
    BY <2>0, <2>3 DEF Take, WorkAt
  <2>4. ASSUME NEW f, Send(f) PROVE Len(frames') = Len(frames) + 1
    BY <2>0, <2>4 DEF Send
  <2>5. CASE GetCurrentState \/ GetDeviceInfo \/ GetNetworkState \/ Unsupported
    <3>1. \/ Take("current") \/ Take("info") \/ Take("network_state")
          \/ Take("other")
      BY <2>5 DEF GetCurrentState, GetDeviceInfo, GetNetworkState, Unsupported
    <3>2. Len(frames') = Len(frames) + 1
      BY <2>4, <2>5 DEF GetCurrentState, GetDeviceInfo, GetNetworkState, Unsupported
    <3>3. at' \in {"listen", "current"}
      BY <2>5 DEF GetCurrentState, GetDeviceInfo, GetNetworkState, Unsupported,
         Take, device
    <3>4. WorkAt' \in {0, 2}
      BY <3>3 DEF WorkAt
    <3> QED
      BY <2>0, <2>3, <3>1, <3>2, <3>4 DEF WorkLeft
  <2>6. CASE SendUrl
    <3>1. Len(frames') = Len(frames) + 1 /\ UNCHANGED commands
      BY <2>4, <2>6 DEF SendUrl
    <3>2. WorkAt = 2 /\ WorkAt' = 0
      BY <2>6 DEF SendUrl, WorkAt
    <3> QED
      BY <2>0, <3>1, <3>2 DEF WorkLeft
  <2>7. CASE GetWifiNetworks
    <3>1. Take("networks") /\ WorkAt' = 3 /\ UNCHANGED frames
      BY <2>7 DEF GetWifiNetworks, WorkAt
    <3> QED
      BY <2>0, <2>3, <3>1 DEF WorkLeft
  <2>8. CASE Scanned
    <3> DEFINE r == Result("networks", FALSE)
    <3>1. PICK found \in {<<>>, <<Entry>>} : frames' = frames \o found \o <<r>>
      BY <2>8 DEF Scanned
    <3>2. r \in Frames /\ Entry \in Frames
      BY FramesTyped DEF Commands
    <3> HIDE DEF r
    <3>3. Len(frames') \in {Len(frames) + 1, Len(frames) + 2}
      <4>1. CASE found = <<>>
        BY <2>0, <3>1, <3>2, <4>1, OneAfterAnother
      <4>2. CASE found = <<Entry>>
        BY <2>0, <3>1, <3>2, <4>2, OneAfterAnother, SendTwoIsBehind
      <4> QED
        BY <4>1, <4>2
    <3>4. WorkAt = 3 /\ WorkAt' = 0 /\ UNCHANGED commands
      BY <2>8 DEF Scanned, WorkAt
    <3> QED
      BY <2>0, <3>3, <3>4 DEF WorkLeft
  <2>9. CASE WifiSettings
    <3>1. Take("settings") /\ WorkAt' = 4
      BY <2>9 DEF WifiSettings, WorkAt
    <3>2. Len(frames') = Len(frames) + 1
      BY <2>4, <2>9 DEF WifiSettings
    <3> QED
      BY <2>0, <2>3, <3>1, <3>2 DEF WorkLeft
  <2>10. CASE Connected
    <3>1. Len(frames') = Len(frames) + 1 /\ UNCHANGED commands
      BY <2>4, <2>10 DEF Connected
    <3>2. WorkAt = 4 /\ WorkAt' = 2
      BY <2>10 DEF Connected, WorkAt
    <3> QED
      BY <2>0, <3>1, <3>2 DEF WorkLeft
  <2>11. CASE Refused
    <3> DEFINE s == StateFrame("Authorized")
    <3>1. frames' = frames \o <<Error, s>> /\ s \in Frames /\ Error \in Frames
      BY <2>11, FramesTyped DEF Refused, States
    <3> HIDE DEF s
    <3>2. Len(frames') = Len(frames) + 2
      BY <2>0, <3>1, SendTwoIsBehind
    <3>3. WorkAt = 4 /\ WorkAt' = 0 /\ UNCHANGED commands
      BY <2>11 DEF Refused, WorkAt
    <3> QED
      BY <2>0, <3>2, <3>3 DEF WorkLeft
  <2> QED
    BY <1>1, <2>1, <2>2, <2>5, <2>6, <2>7, <2>8, <2>9, <2>10, <2>11 DEF Handle
<1>2. ImprovTypeOK /\ [Next]_vars =>
        [Reconnect \/ Run \/ Handle \/ Receive => WorkLeft' < WorkLeft]_vars
  BY <1>1
<1> QED
  BY <1>2, ImprovTypeCorrect, PTL DEF Spec, EveryStepAnswers

===============================================================================
