----------------------------- MODULE ImprovAnswer -----------------------------
(***************************************************************************)
(* Why a browser is answered (BrowserIsAnswered of Improv), as far as it   *)
(* does not depend on fairness: while nothing has been lost, the answer it *)
(* awaits is always under way, whatever it was reloaded in the middle of;  *)
(* and every step of the device or of the browser's reader takes away some *)
(* of the work that is left.                                               *)
(***************************************************************************)
EXTENDS Improv

\* Where the device is while it serves a command.
StepsOf(c) ==
  CASE c = "networks" -> {"scan"}
    [] c = "settings" -> {"connect", "settings"}
    [] c = "current"  -> {"current"}
    [] OTHER          -> {}

\* The pending command, or an older one of the same kind, has not been read.
Queued == \E i \in 1..Len(commands) : commands[i] = pending

\* A frame that ends the wait for a result, and one that ends that for a state.
EndsWait(f) == f.kind = "error" \/ (f.kind = "result" /\ f.of = pending /\ f.last)
EndsStateWait(f) == f.kind = "state" \/ EndsWait(f)
IsProvisioned(f) == f.kind = "state" /\ f.of = "Provisioned"

\* A frame that ends the wait for a result comes after the i-th: it has been
\* sent, or its command is being served, or it will be.  A device that is
\* Authorized answers a GetCurrentState with its state alone.
ResultComesAfter(i) ==
  \/ \E j \in (i + 1)..Len(frames) : EndsWait(frames[j])
  \/ at \in StepsOf(pending)
  \/ Queued /\ (pending = "current" => state # "Authorized")

\* What the browser awaits is under way.  The first frame that tells it that
\* the device is Provisioned is followed by the result it then waits for.
AnswerIsUnderWay ==
  losses = 0 =>
    /\ awaits = "result" => ResultComesAfter(0)
    /\ awaits = "state" =>
         /\ pending = "current"
         /\ Queued \/ \E i \in 1..Len(frames) : EndsStateWait(frames[i])
         /\ \A i \in 1..Len(frames) :
              IsProvisioned(frames[i])
                /\ (\A k \in 1..(i - 1) : ~EndsStateWait(frames[k]))
              => ResultComesAfter(i)

\* The Improv state follows what the device is at.
StateFollows ==
  /\ at \in {"boot", "start"} => state = "Authorized"
  /\ state = "Provisioning" => at = "connect"

\* Who was told Provisioned is told of the failure that ended it.
FailureIsTold ==
  \A i \in 1..Len(frames) :
    IsProvisioned(frames[i]) =>
      \/ state # "Authorized"
      \/ \E j \in (i + 1)..Len(frames) : frames[j].kind = "error"

AnswerInv == AnswerIsUnderWay /\ StateFollows /\ FailureIsTold

\* While the line has lost nothing, a browser that waits never waits for a
\* device that has nothing left to read, to do or to send.
NeverWaitsInVain ==
  (losses = 0 /\ awaits # "nothing") =>
    at # "listen" \/ commands # <<>> \/ frames # <<>>

\* What is left to do where the device is, and in all.
WorkAt ==
  CASE at = "boot"     -> 2
    [] at = "start"    -> 1
    [] at = "listen"   -> 0
    [] at = "current"  -> 2
    [] at = "settings" -> 2
    [] at = "scan"     -> 3
    [] at = "connect"  -> 4

WorkLeft == 8 * Len(commands) + Len(frames) + WorkAt

\* Serving and reading come to an end: each step leaves less to do, so that
\* only a browser that asks gives the device more.
EveryStepAnswers ==
  [][Reconnect \/ Run \/ Handle \/ Receive => WorkLeft' < WorkLeft]_vars

===============================================================================
