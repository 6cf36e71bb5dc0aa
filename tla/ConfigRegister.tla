---------------------------- MODULE ConfigRegister ----------------------------
(***************************************************************************)
(* What the configuration of an agent promises a Core (runtime_config.rs,  *)
(* the answers of POST /config), without requests, awaits, failures or     *)
(* repeats: one stored map with its generation, one push at a time, which  *)
(* is merged in one step and at most once; it is called saved only when    *)
(* the map holds it; and what is in effect is a whole stored map, taken up *)
(* by a boot.                                                              *)
(***************************************************************************)
EXTENDS Naturals

CONSTANTS
  Pushes,      \* what a Core may push
  NoPush,      \* the push of a Core that has not made one
  Start,       \* the register before any push
  Merge(_, _)  \* what a push makes of a map

VARIABLES
  stored,    \* the map and its generation
  effective, \* the map in effect and its generation, Start when nothing runs
  push,      \* the last push
  state,     \* whether it is open, was saved, or was given up
  base       \* the generation it was made on

Init ==
  /\ stored = Start
  /\ effective = Start
  /\ push = NoPush
  /\ state = "saved"
  /\ base = Start.generation

\* A Core that is done with its last push makes another.
Offer(p) ==
  /\ state # "open"
  /\ push' = p
  /\ state' = "open"
  /\ base' = stored.generation
  /\ UNCHANGED <<stored, effective>>

\* The open push makes one generation, and only if it changes the map.
Apply ==
  /\ state = "open"
  /\ stored.generation = base
  /\ Merge(stored.map, push) # stored.map
  /\ stored' = [generation |-> base + 1, map |-> Merge(stored.map, push)]
  /\ UNCHANGED <<effective, push, state, base>>

\* The Core learns that its push is stored.
Confirm ==
  /\ state = "open"
  /\ Merge(stored.map, push) = stored.map
  /\ state' = "saved"
  /\ UNCHANGED <<stored, effective, push, base>>

\* The Core gives up; the push may be stored all the same.
GiveUp ==
  /\ state = "open"
  /\ state' = "dropped"
  /\ UNCHANGED <<stored, effective, push, base>>

\* A boot takes up what is stored, a reset ends what runs.
TakeUp ==
  /\ effective' \in {stored, Start}
  /\ UNCHANGED <<stored, push, state, base>>

Next ==
  \/ \E p \in Pushes : Offer(p)
  \/ Apply \/ Confirm \/ GiveUp \/ TakeUp

Spec == Init /\ [][Next]_<<stored, effective, push, state, base>>
===============================================================================
