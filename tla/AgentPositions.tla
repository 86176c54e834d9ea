---------------------------- MODULE AgentPositions ----------------------------
(***************************************************************************)
(* The map of a running simulation: the loop of animation frames that      *)
(* reads the positions' buffer, the markers and trails of the open map,    *)
(* and the history paths beside them.                                      *)
(*                                                                         *)
(* A frame's interpolation between two reports always has its end as the   *)
(* result, because a report is stamped with the time of its arrival, so a  *)
(* frame hands on the reports themselves.  No key ever leaves the buffer,  *)
(* so the removal of stale markers is left out.  The views of the map are  *)
(* numbered; the operator zooms in and out in turn.                        *)
(***************************************************************************)
EXTENDS PositionBuffer

CONSTANTS
    Near,          \* how far a marker glides
    MinPixels,     \* TRAIL_MIN_PIXEL_DISTANCE
    Undefined,
    MaxViews,      \* bound on the changes of zoom
    MaxPoints,     \* length of a history path
    MaxReports     \* bound on the messages with positions

ASSUME MapAssumption ==
    /\ Near \in Nat /\ MaxPoints \in Nat \ {0} /\ MaxReports \in Nat
    /\ MinPixels \in Nat \ {0} /\ MaxViews \in Nat
    /\ Undefined \notin [at : Places, view : 0..MaxViews]

VARIABLES
    looping,      \* a frame is requested
    map,          \* the simulation page and its map
    markers,      \* the registry of the open map
    trails,       \* where the trail of each marker ends: the last place recorded
    view,         \* the changes of zoom so far
    showTrails, showHistory, historySwitch,    \* of markers, map and log tabs
    history,      \* the path of every unit while history is shown
    reports       \* messages so far

buffer == <<positions, looping, reports>>
toggles == <<showTrails, showHistory, historySwitch>>
mapVars == <<buffer, map, markers, trails, view, toggles, history>>

\* A place as it was projected in some view.
Projections == [at : Places, view : 0..MaxViews]

Marker == [target : Places, shown : Places, state : States, settled : BOOLEAN,
           lastProj : Projections \cup {Undefined}]

MapTypeOK ==
    /\ BufferTypeOK
    /\ looping \in BOOLEAN /\ reports \in 0..MaxReports
    /\ map \in {"closed", "loading", "open"}
    /\ markers \in Partial(Units, Marker)
    /\ trails \in [DOMAIN markers -> Places] /\ view \in 0..MaxViews
    /\ showTrails \in BOOLEAN /\ showHistory \in BOOLEAN /\ historySwitch \in BOOLEAN
    /\ history \in Partial(Units, BoundedSeq(Places, MaxPoints))

MapInit ==
    /\ BufferInit
    /\ looping = FALSE /\ reports = 0
    /\ map = "closed" /\ markers = <<>> /\ trails = <<>> /\ view = 0
    /\ showTrails = FALSE /\ showHistory = FALSE /\ historySwitch = FALSE
    /\ history = <<>>

------------------------------------------------------------------------------
(* Messages *)

\* What the backend's messages may say: the agents' channel some units of one
\* type, a full state all units, with or without locations.
Report ==
    /\ reports < MaxReports /\ reports' = reports + 1
    /\ \/ \E type \in {"fireBrigade", "foresterPatrol"} :
            \E moved \in (SUBSET UnitsOfType(type)) \ {{}} :
               \E says \in [moved -> Pos] : ParseAndWriteRaw(says)
       \/ \E says \in [Units -> Reported] : WriteBatch(says)
    /\ UNCHANGED <<looping, map, markers, trails, view, toggles, history>>

------------------------------------------------------------------------------
(* Drawing *)

Far(p, q) == p > q + Near \/ q > p + Near

CreateMarker(pos) ==
    [target |-> pos.at, shown |-> pos.at, state |-> pos.state, settled |-> FALSE,
     lastProj |-> Undefined]

Scale(v) == 1 + (v % 2)

Pixel(projection) == projection.at * Scale(projection.view)

Project(at) == [at |-> at, view |-> view]

\* Less than MinPixels apart.
Close(p, q) == Pixel(p) < Pixel(q) + MinPixels /\ Pixel(q) < Pixel(p) + MinPixels

\* A point is recorded after a jump, the first time a marker is updated, and when
\* it is a pixel or more from the last one, as that was projected.
IsRecorded(m, at) ==
    \/ Far(at, m.shown)
    \/ m.lastProj = Undefined
    \/ ~Close(Project(at), m.lastProj)

\* Moved along with a step too small to be recorded.
LastProjAlways(m, at) == Project(at)

LastProj(m, at) == IF IsRecorded(m, at) THEN Project(at) ELSE m.lastProj

\* A marker that is not moved keeps its colour.
UpdateMarkerMoved(m, pos) ==
    LET changes == m.target # pos.at /\ m.state # pos.state /\ m.settled
    IN  [target |-> pos.at,
         shown |-> IF Far(pos.at, m.shown) THEN pos.at ELSE m.shown,
         state |-> IF changes THEN pos.state ELSE m.state,
         settled |-> m.settled /\ ~changes,
         lastProj |-> LastProj(m, pos.at)]

\* A change of state shows once the previous one is 200 ms old; a marker glides
\* to its target unless that is far away.
UpdateMarker(m, pos) ==
    LET changes == m.state # pos.state /\ m.settled
    IN  [target |-> pos.at,
         shown |-> IF Far(pos.at, m.shown) THEN pos.at ELSE m.shown,
         state |-> IF changes THEN pos.state ELSE m.state,
         settled |-> m.settled /\ ~changes,
         lastProj |-> LastProj(m, pos.at)]

DrawMarkers ==
    [u \in DOMAIN positions |->
        IF u \in DOMAIN markers THEN UpdateMarker(markers[u], positions[u])
        ELSE CreateMarker(positions[u])]

\* Trails are kept whether or not they are drawn, from a marker's first place on.
RecordTrails ==
    [u \in DOMAIN positions |->
        IF u \in DOMAIN markers => IsRecorded(markers[u], positions[u].at)
        THEN positions[u].at ELSE trails[u]]

\* The last MaxPoints places, without repeating the last one.
Extend(path, at) ==
    IF path # <<>> /\ Last(path) = at THEN path
    ELSE LET longer == Append(path, at)
         IN  IF Len(longer) > MaxPoints THEN Tail(longer) ELSE longer

RecordHistory ==
    [u \in DOMAIN positions |->
        Extend(IF u \in DOMAIN history THEN history[u] ELSE <<>>, positions[u].at)]

\* A frame hands every subscriber the whole buffer: the markers of an open map,
\* the history while it is shown.
Frame ==
    /\ looping
    /\ markers' = IF map = "open" THEN DrawMarkers ELSE markers
    /\ trails' = IF map = "open" THEN RecordTrails ELSE trails
    /\ history' = IF showHistory THEN RecordHistory ELSE history
    /\ UNCHANGED <<buffer, map, view, toggles>>

\* The map's own loop moves every marker towards its target until it is there.
Animate ==
    /\ \E u \in DOMAIN markers : markers[u].shown # markers[u].target
    /\ markers' = [u \in DOMAIN markers |-> [markers[u] EXCEPT !.shown = markers[u].target]]
    /\ UNCHANGED <<buffer, map, trails, view, toggles, history>>

\* Zooming leaves lastProj as it was projected.
Zoom ==
    /\ map = "open" /\ view < MaxViews
    /\ view' = view + 1
    /\ UNCHANGED <<buffer, map, markers, trails, toggles, history>>

\* 200 ms after a marker's last change of state.
Settle(u) ==
    /\ u \in DOMAIN markers /\ ~markers[u].settled
    /\ markers' = [markers EXCEPT ![u].settled = TRUE]
    /\ UNCHANGED <<buffer, map, trails, view, toggles, history>>

------------------------------------------------------------------------------
(* The page *)

EnterPage ==
    /\ map = "closed" /\ map' = "loading"
    /\ UNCHANGED <<buffer, markers, trails, view, toggles, history>>

\* The map's children mount: the markers subscribe and the loop starts.
OpenMap ==
    /\ map = "loading" /\ map' = "open"
    /\ looping' = TRUE
    /\ UNCHANGED <<positions, reports, markers, trails, view, toggles, history>>

\* Unsubscribing does not stop the loop.  The buffer stays.
LeavePage ==
    /\ map # "closed" /\ map' = "closed"
    /\ markers' = <<>> /\ trails' = <<>> /\ history' = <<>>
    /\ showTrails' = FALSE /\ showHistory' = FALSE /\ historySwitch' = FALSE
    /\ UNCHANGED <<buffer, view>>

\* The History paths switch of the log tabs; only mounted listeners hear it.
ToggleHistory ==
    /\ map # "closed"
    /\ historySwitch' = ~historySwitch
    /\ showHistory' = historySwitch'
    /\ showTrails' = IF map = "open" THEN historySwitch' ELSE showTrails
    /\ looping' = (looping \/ showHistory')
    /\ UNCHANGED <<positions, reports, map, markers, trails, view, history>>

------------------------------------------------------------------------------
MapNext ==
    \/ Report
    \/ Frame \/ Animate \/ Zoom \/ \E u \in Units : Settle(u)
    \/ EnterPage \/ OpenMap \/ LeavePage \/ ToggleHistory

MapSpec == MapInit /\ [][MapNext]_mapVars

\* The browser's frames and its clock go on.
FairMapSpec ==
    MapSpec /\ WF_mapVars(Frame) /\ WF_mapVars(Animate) /\ \A u \in Units : WF_mapVars(Settle(u))

------------------------------------------------------------------------------
(* Properties *)

(***************************************************************************)
(* A marker's trail ends within a pixel of the place it was last sent to,  *)
(* through steps too small to be recorded, jumps and places gone back to,  *)
(* and whether or not trails are drawn, so that the switch shows the whole *)
(* way: "ALWAYS record, toggle only controls drawing", but for points less *)
(* than a pixel from the last one (AgentMarkerManager).  Only a change of  *)
(* zoom since that one may hide a step, whose pixel happens to be the old. *)
(***************************************************************************)
TrailsComplete ==
    \A u \in DOMAIN markers :
        LET m == markers[u]
        IN  m.lastProj = Undefined \/ m.lastProj.view = view =>
                Close(Project(m.target), Project(trails[u]))

\* On a map that stays open every marker comes to show its unit's state, though a
\* change waits until the one before is 200 ms old.
StatesShown ==
    \A u \in Units : \A s \in States :
        <>[](map = "open" /\ u \in DOMAIN positions /\ positions[u].state = s)
            => <>[](u \in DOMAIN markers /\ markers[u].state = s)

Feed == INSTANCE PositionFeed WITH
    TypeOf <- LAMBDA u : u[1],
    latest <- [u \in DOMAIN positions |-> positions[u].at],
    open <- (map = "open"),
    taken <- [u \in DOMAIN markers |-> markers[u].target],
    drawn <- [u \in DOMAIN markers |-> markers[u].shown]

\* The buffer and the map implement the position feed.
ImplementsFeed == Feed!Spec
===============================================================================
