---------------------------- MODULE MCWorkloadBoot ----------------------------
(***************************************************************************)
(* One broken Workload and one that may be proven healthy and still crash. *)
(***************************************************************************)
EXTENDS WorkloadBoot

CONSTANTS broken, flaky

MCWorkloads == {broken, flaky}
MCBroken == {broken}

===============================================================================
