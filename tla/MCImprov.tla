------------------------------- MODULE MCImprov -------------------------------
(***************************************************************************)
(* The bounds of MCImprov.cfg let the browser be reloaded twice, so that   *)
(* it may send a command with the answers of two others still to come.     *)
(***************************************************************************)
EXTENDS ImprovAnswer

===============================================================================
