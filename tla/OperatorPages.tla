------------------------------ MODULE OperatorPages ------------------------------
(***************************************************************************)
(* The main page and the simulation page with their maps (MapPages) and    *)
(* the bar of the latter (ControlBar).  While the dialog that moves a unit *)
(* is open nothing outside of it can be clicked.                           *)
(***************************************************************************)
EXTENDS MapPages, ControlBar

vars == <<mapVars, barVars>>

Init == MapInit /\ BarInit

\* The bar comes with the simulation page.
ChangePage(p) == GoTo(p) /\ (IF p = "simulation" THEN MountBar ELSE UNCHANGED barVars)

OnMap ==
    \/ Zoom \/ Fit \/ Refit \/ LoadConfiguration \/ Update
    \/ \E s \in SectorIds : ClickSector(s)
    \/ \E s \in SectorIds \cup {Null} : Hover(s)

Ordering ==
    \/ \E u \in Units : Apply(u) \/ OpenMoveModal(u)
    \/ HoverInDialog \/ ZoomInDialog \/ CloseMoveModal \/ SubmitTargetSector
    \/ \E s \in SectorIds : SelectTargetSector(s)

OnBar == page = "simulation" /\ dialog = Null /\ (TogglePause \/ Step \/ HandleToggle)

OverNetwork ==
    \/ page = "simulation" /\ (Answered \/ RequestFails \/ AnswerLost)
    \/ HostChanges

Next ==
    \/ \E p \in {"main", "simulation"} : ChangePage(p)
    \/ (OnMap \/ Ordering) /\ UNCHANGED barVars
    \/ (OnBar \/ OverNetwork) /\ UNCHANGED mapVars

Spec == Init /\ [][Next]_vars
================================================================================
