------------------------------ MODULE HBridge ------------------------------
(***************************************************************************)
(* What the two output pins of every motor promise to the hardware: a      *)
(* motor coasts, drives forward or drives back, and it changes direction   *)
(* only through coasting.  There is no state in which both inputs of the   *)
(* bridge are high.  A motor whose pins could not be written is out of     *)
(* order: nothing is promised of it until both have been written again.    *)
(***************************************************************************)
CONSTANTS
  Motors,
  CanFail   \* TRUE: a pin may be out of reach

VARIABLE drive

Drives == {"Coast", "Forward", "Back"}

TypeOK == drive \in [Motors -> Drives \cup {"OutOfOrder"}]

Init == drive = [m \in Motors |-> "Coast"]

Engage(m) == /\ drive[m] = "Coast"
             /\ \E d \in Drives \ {"Coast"} : drive' = [drive EXCEPT ![m] = d]

Release(m) == /\ drive[m] \in Drives \ {"Coast"}
              /\ drive' = [drive EXCEPT ![m] = "Coast"]

Fail(m) == /\ CanFail
           /\ drive' = [drive EXCEPT ![m] = "OutOfOrder"]

Repair(m) == /\ drive[m] = "OutOfOrder"
             /\ \E d \in Drives : drive' = [drive EXCEPT ![m] = d]

Next == \E m \in Motors : Engage(m) \/ Release(m) \/ Fail(m) \/ Repair(m)

Spec == Init /\ [][Next]_drive
=============================================================================
