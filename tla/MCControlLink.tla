---------------------------- MODULE MCControlLink ----------------------------
(***************************************************************************)
(* A Core with three good tokens and one too short, on a small instance.   *)
(***************************************************************************)
EXTENDS ControlLink

CONSTANTS t0, t1, t2, short

MCValidTokens == {t0, t1, t2}
MCTokens == MCValidTokens \cup {short}

\* Two are enough to see whether the agent follows a rotation.
MCTwoValidTokens == {t0, t1}
MCTwoTokens == MCTwoValidTokens \cup {short}

===============================================================================
