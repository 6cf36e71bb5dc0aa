------------------------------- MODULE MCDevice -------------------------------
(* Small instances of Device: images that start well, freeze or are refused, *)
(* and a second Workload that the factory agent cannot run.                  *)
EXTENDS DeviceSettling

CONSTANTS a0, a1, bad, junk, w0, w1

MCImages == {a0, a1, bad, junk}
MCWorkloads == {w0, w1}

MCKind ==
  [i \in MCImages |-> CASE i \in {a0, a1} -> "good"
                        [] i = bad  -> "faulty"
                        [] i = junk -> "unbootable"]

MCRuns == [i \in MCImages |-> IF i = a0 THEN {w0} ELSE MCWorkloads]
===============================================================================
