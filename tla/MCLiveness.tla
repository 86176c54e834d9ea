------------------------------ MODULE MCLiveness ------------------------------
(***************************************************************************)
(* The engine under an operator who gives at most MaxOrders orders and     *)
(* never steps back.  Without a bound on the orders nobody has to arrive:  *)
(* GO_TO_BASE starts a way home again that had begun.                      *)
(***************************************************************************)
EXTENDS MCEngine

CONSTANTS
    MaxOrders,
    Unlocated    \* whether the operator may send an order without a location

VARIABLE ordersLeft

LiveInit == Init /\ ordersLeft = MaxOrders

LiveNext ==
    \/ Step /\ UNCHANGED ordersLeft
    \/ /\ ordersLeft > 0 /\ ordersLeft' = ordersLeft - 1
       /\ OrderAt(IF Unlocated THEN SectorOrNone ELSE Sectors)

LiveSpec == /\ LiveInit /\ [][LiveNext]_<<vars, ordersLeft>>
            /\ WF_<<vars, ordersLeft>>(Step /\ UNCHANGED ordersLeft)

(***************************************************************************)
(* Every crew comes home for good: fires end, crews at a spent sector are  *)
(* recalled, crews that arrive too late turn round, and the way home takes *)
(* a bounded number of ticks (_tick_travel, _recall_brigades_from).        *)
(***************************************************************************)
CrewsComeHome == \A b \in Brigades : <>[](manager.brigades[b].state = "AVAILABLE")

(***************************************************************************)
(* The patrols cover the forest: a sector that can still burn is patrolled *)
(* again and again (_pick_patrol_target takes the one seen longest ago).   *)
(***************************************************************************)
ForestCovered ==
    \A s \in Sectors :
        []<>(\/ ~IsFlammable(sectors, s)
             \/ \E f \in Foresters : OnPatrol(manager, f) /\ manager.foresters[f].at = s)

==============================================================================
