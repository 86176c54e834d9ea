-------------------------------- MODULE MapPages --------------------------------
(***************************************************************************)
(* The maps of the main page and the simulation page: which sector is      *)
(* selected, the tooltip, the view of the map, the dialog that moves a     *)
(* unit, and the orders the table of units and the dialog send.  Only one  *)
(* of the pages is mounted at a time.  A view is the whole forest, a       *)
(* sector, or whatever the operator zoomed to.                             *)
(***************************************************************************)
EXTENDS ForestGrid

CONSTANTS
    Rows, Columns, Side,    \* the grid and the side of a sector
    Units,                  \* of type u[1]; the table has a row for each
    Null,
    MaxUpdates              \* bound on the state updates of a run

\* The coordinates are fine enough to tell the outer tenth of a sector from its border.
ASSUME PagesAssumption ==
    /\ Rows \in Nat \ {0} /\ Columns \in Nat \ {0} /\ Side \in Nat /\ Side >= 10
    /\ MaxUpdates \in Nat

VARIABLES
    page,
    loaded,      \* a configuration has been chosen; the default one has no area
    updates,     \* state updates so far
    advice,      \* recommendations by unit
    selected,    \* currentSectorId
    tooltip,     \* the sector it tells of, or Null
    view,        \* of the page's map
    refit,       \* the main page's timer to fit the forest
    dialog,      \* the unit to move, its target and the map's view, or Null
    order,       \* the last order: what was chosen, where it leads
    clicked      \* for the properties: the last sector clicked on the page's map

mapVars == <<page, loaded, updates, advice, selected, tooltip, view, refit, dialog, order,
             clicked>>

SectorIds == 1..Rows * Columns
Corners == {0, Columns * Side} \X {0, Rows * Side}
Sectors == PreprocessSectors(CreateSectors(Rows, Columns), Rows, Columns, Corners)

Views == {"forest", "sector", "zoomed"}
Unknown == Rows * Columns + 1    \* a sector the configuration does not have

MapTypeOK ==
    /\ page \in {"main", "simulation"} /\ loaded \in BOOLEAN
    /\ updates \in 0..MaxUpdates
    /\ advice \in [Units -> SectorIds \cup {Unknown, Null}]
    /\ selected \in SectorIds \cup {Null} /\ clicked \in SectorIds \cup {Null}
    /\ tooltip \in SectorIds \cup {Null}
    /\ view \in Views /\ refit \in BOOLEAN
    /\ dialog = Null \/ dialog \in [unit : Units, target : SectorIds \cup {Null}, view : Views]
    /\ order = Null \/ order \in [unit : Units, sector : SectorIds, reached : SectorIds,
                                  resolved : SectorIds]

MapInit ==
    /\ page = "main" /\ loaded = FALSE /\ updates = 0
    /\ advice = [u \in Units |-> Null]
    /\ selected = Null /\ clicked = Null /\ tooltip = Null
    /\ view = "forest" /\ refit = FALSE
    /\ dialog = Null /\ order = Null

\* "No configuration selected!" stands in for the map of a forest without area.
HasMap == loaded

------------------------------------------------------------------------------
(* The view of the page's map *)

\* The handler that should hide the tooltip is the one of the first rendering,
\* which never sees one.
Zoom ==
    /\ HasMap /\ dialog = Null
    /\ view' = "zoomed"
    /\ UNCHANGED <<page, loaded, updates, advice, selected, tooltip, refit, dialog, order, clicked>>

Fit ==
    /\ HasMap /\ dialog = Null
    /\ view' = "forest"
    /\ UNCHANGED <<page, loaded, updates, advice, selected, tooltip, refit, dialog, order, clicked>>

\* On the main page the forest is fitted 100 ms after the map, its bounds or the
\* selection have changed.
Refit ==
    /\ refit /\ refit' = FALSE
    /\ view' = "forest"
    /\ UNCHANGED <<page, loaded, updates, advice, selected, tooltip, dialog, order, clicked>>

\* A map is created for its page, fitted to the forest.
MountMap(p) ==
    /\ view' = "forest" /\ refit' = (p = "main")
    /\ tooltip' = Null /\ dialog' = Null

\* Another map's bounds make the map fit them.
LoadConfiguration ==
    /\ page = "main" /\ ~loaded /\ loaded' = TRUE
    /\ MountMap("main")
    /\ UNCHANGED <<page, updates, advice, selected, order, clicked>>

GoTo(p) ==
    /\ page # p /\ page' = p
    /\ MountMap(p)
    /\ UNCHANGED <<loaded, updates, advice, selected, order, clicked>>

------------------------------------------------------------------------------
(* Selection and tooltip *)

\* The map's event; the same sector twice selects none.
SetCurrentSectorId(before, s) == IF before = s THEN Null ELSE s
Select(s) == selected' = SetCurrentSectorId(selected, s)

\* Without the look at what is selected already.
ClickSectorAgain(s) ==
    /\ HasMap /\ dialog = Null
    /\ clicked' = s
    /\ Select(s) /\ refit' = (refit \/ page = "main")
    /\ UNCHANGED <<page, loaded, updates, advice, tooltip, view, dialog, order>>

\* A click on the selected sector does nothing.
ClickSector(s) ==
    /\ HasMap /\ dialog = Null
    /\ clicked' = s
    /\ IF s = selected THEN UNCHANGED <<selected, refit>>
       ELSE Select(s) /\ refit' = (refit \/ page = "main")
    /\ UNCHANGED <<page, loaded, updates, advice, tooltip, view, dialog, order>>

\* The tooltip holds a copy of the sector, of when the pointer came.
Hover(s) ==
    /\ HasMap /\ dialog = Null
    /\ tooltip' = s
    /\ UNCHANGED <<page, loaded, updates, advice, selected, view, refit,
                   dialog, order, clicked>>

------------------------------------------------------------------------------
(* Updates of the running simulation *)

\* The bounds are compared by value, so an update moves the map of the page only
\* if the forest is another one, and it is not.
KeepBounds == UNCHANGED view

\* The patrol's map takes the same bounds for new ones and fits them again; the
\* brigade's fits its target sector, if one is chosen.
DialogAfter ==
    IF dialog = Null THEN Null
    ELSE [dialog EXCEPT !.view =
            IF dialog.unit[1] = "foresterPatrol" THEN "forest"
            ELSE IF dialog.target # Null THEN "sector" ELSE @]

Update ==
    /\ page = "simulation" /\ loaded /\ updates < MaxUpdates
    /\ updates' = updates + 1
    /\ \E u \in Units, s \in SectorIds \cup {Unknown, Null} : advice' = [advice EXCEPT ![u] = s]
    /\ KeepBounds
    /\ dialog' = DialogAfter
    /\ UNCHANGED <<page, loaded, selected, tooltip, refit, order, clicked>>

------------------------------------------------------------------------------
(* Orders *)

SectorKnown(s) == \E n \in DOMAIN Sectors : Sectors[n].sectorId = s
ContoursOf(s) == Sectors[CHOOSE n \in DOMAIN Sectors : Sectors[n].sectorId = s].contours

\* Any place of the sector, its borders too.
PlacesAnywhere(s) ==
    LET b == GetBoundsFromContours(ContoursOf(s)) IN (b.east..b.west) \X (b.south..b.north)

PlacesFor(s) == PositionsInSector(ContoursOf(s))

\* The place the order names leads to a sector in the simulator, and to one in
\* the backend.
Destinations ==
    [s \in SectorIds |->
        {[reached |-> FindSectorByLocation(Sectors, p), resolved |-> ResolveSectorId(Sectors, p)] :
            p \in PlacesFor(s)}]

SendMoveOrder(u, s) ==
    \E d \in Destinations[s] :
        order' = [unit |-> u, sector |-> s, reached |-> d.reached, resolved |-> d.resolved]

HandleRunRecommendation(u, s) ==
    IF SectorKnown(s) THEN SendMoveOrder(u, s) ELSE order' = order

\* The row's button is there only for a sector of the configuration.
Apply(u) ==
    /\ page = "simulation" /\ dialog = Null
    /\ advice[u] # Null /\ SectorKnown(advice[u])
    /\ HandleRunRecommendation(u, advice[u])
    /\ UNCHANGED <<page, loaded, updates, advice, selected, tooltip, view, refit,
                   dialog, clicked>>

OpenMoveModal(u) ==
    /\ page = "simulation" /\ loaded /\ dialog = Null
    /\ dialog' = [unit |-> u, target |-> Null, view |-> "forest"]
    /\ UNCHANGED <<page, loaded, updates, advice, selected, tooltip, view, refit,
                   order, clicked>>

\* Hovering in the dialog takes the tooltip of the page away; a click chooses the
\* target and selects nothing; the brigade's map shows it.
HoverInDialog ==
    /\ dialog # Null /\ tooltip' = Null
    /\ UNCHANGED <<page, loaded, updates, advice, selected, view, refit,
                   dialog, order, clicked>>

SelectTargetSector(s) ==
    /\ dialog # Null
    /\ dialog' = [dialog EXCEPT !.target = s,
                    !.view = IF dialog.unit[1] = "fireBrigade" THEN "sector" ELSE @]
    /\ UNCHANGED <<page, loaded, updates, advice, selected, tooltip, view, refit,
                   order, clicked>>

ZoomInDialog ==
    /\ dialog # Null
    /\ dialog' = [dialog EXCEPT !.view = "zoomed"]
    /\ UNCHANGED <<page, loaded, updates, advice, selected, tooltip, view, refit,
                   order, clicked>>

CloseMoveModal ==
    /\ dialog # Null /\ dialog' = Null
    /\ UNCHANGED <<page, loaded, updates, advice, selected, tooltip, view, refit,
                   order, clicked>>

SubmitTargetSector ==
    /\ dialog # Null /\ dialog.target # Null
    /\ HandleRunRecommendation(dialog.unit, dialog.target)
    /\ dialog' = Null
    /\ UNCHANGED <<page, loaded, updates, advice, selected, tooltip, view, refit,
                   clicked>>

------------------------------------------------------------------------------
(* Properties *)

\* An order takes the unit to the sector the operator pointed at: whatever place
\* of the sector the browser draws, the simulator and the backend find that
\* sector again (sendBrigadeOrForesterMoveOrder, _find_sector_by_location).
OrdersReachSector ==
    order # Null => order.reached = order.sector /\ order.resolved = order.sector

\* The sector last clicked on the page's map is the selected one, however often it
\* is clicked and whatever is clicked in the dialog's map (setCurrentSectorId
\* toggles; the dialog's click is its own).
SelectionIsLastClick == selected = clicked
================================================================================
