----------------------------- MODULE AtomicUpdate -----------------------------
(***************************************************************************)
(* What an A/B firmware update promises (ota.rs:1-25), without slots,      *)
(* records, boots or failures: the device has one installed firmware; an   *)
(* offer may be made and withdrawn at any time; and the installed firmware *)
(* changes in one step only, to the offer that stands, if that is sound.   *)
(***************************************************************************)
CONSTANTS
  Firmware, \* every intact firmware image
  Sound,    \* those that start, pass their self-check and may stay
  NoOffer   \* the absence of an offer

VARIABLES
  installed, \* the firmware the device returns to after any reset
  offered    \* the firmware offered for the next update

Init ==
  /\ installed \in Firmware
  /\ offered = NoOffer

Offer(firmware) ==
  /\ offered' = firmware
  /\ UNCHANGED installed

Withdraw ==
  /\ offered' = NoOffer
  /\ UNCHANGED installed

Install ==
  /\ offered \in Sound
  /\ installed' = offered
  /\ UNCHANGED offered

Next == Withdraw \/ Install \/ \E firmware \in Firmware : Offer(firmware)

Spec == Init /\ [][Next]_<<installed, offered>>
===============================================================================
