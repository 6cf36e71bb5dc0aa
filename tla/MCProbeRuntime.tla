--------------------------- MODULE MCProbeRuntime ---------------------------
(***************************************************************************)
(* One probe per fault, and two with a period longer than stop waits.      *)
(***************************************************************************)
EXTENDS ProbeRuntime

CONSTANTS plain, failing, freezing, ailing, resetting, quitting, slow,
          stuck

MCFault ==
  [a \in Artifacts |->
     CASE a = failing -> "fail_start"
       [] a \in {freezing, stuck} -> "freeze"
       [] a = ailing -> "health_fail"
       [] a = resetting -> "reset_on_start"
       [] a = quitting -> "reset_on_stop"
       [] OTHER -> "none"]

MCPeriod == [a \in Artifacts |-> IF a \in {slow, stuck} THEN 4 ELSE 1]

\* Every artifact that stops within the wait, and all of them.
MCPrompt == {plain, failing, freezing, ailing, resetting, quitting}
MCAll == MCPrompt \cup {slow, stuck}

=============================================================================
