-------------------------- MODULE OperatorPages_proofs --------------------------
(***************************************************************************)
(* Proofs about OperatorPages, for any forest, any units and any number of *)
(* updates: an order reaches the sector it names, the selected sector is   *)
(* the one clicked last, steps are offered for a simulation that is        *)
(* paused, and the switch that is on is on.  And about NewForest, where    *)
(* the sectors come from: a forest is created as the dialog showed it.     *)
(***************************************************************************)
EXTENDS OperatorPages, NewForest, ForestGrid_proofs, SequenceTheorems

(***************************************************************************)
(* The bar                                                                 *)
(***************************************************************************)
BarIInv == BarTypeOK /\ SwitchNeverOverstates /\ StepsOfferedInPause

\* A mounted page claims nothing; neither its switch nor its button is on.
LEMMA MountStep ==
    ASSUME BarIInv, MountBar
    PROVE  BarIInv'
<1>1. alone' \in BOOLEAN
  BY DEF MountBar
<1>2. QED
  BY <1>1 DEF MountBar, BarIInv, BarTypeOK, SwitchNeverOverstates, StepsOfferedInPause, Requests

\* Button and simulator change together, with the answer.
LEMMA AnsweredStep ==
    ASSUME BarIInv, Answered
    PROVE  BarIInv'
<1>1. alone' \in BOOLEAN
  BY DEF Answered
<1>2. CASE busy = "pause"
  BY <1>1, <1>2 DEF Answered, After, BarIInv, BarTypeOK, SwitchNeverOverstates,
                    StepsOfferedInPause, Requests
<1>3. CASE busy = "resume"
  BY <1>1, <1>3 DEF Answered, After, BarIInv, BarTypeOK, SwitchNeverOverstates,
                    StepsOfferedInPause, Requests
<1>4. CASE busy = "step"
  <2>1. hostPaused' = hostPaused /\ paused' = paused /\ (alone' <=> alone)
    BY <1>4 DEF Answered, After
  <2>2. UNCHANGED <<enabled, autoApply>> /\ busy' = "none"
    BY DEF Answered
  <2>3. QED
    BY <1>1, <2>1, <2>2 DEF BarIInv, BarTypeOK, SwitchNeverOverstates, StepsOfferedInPause, Requests
<1>5. QED  BY <1>2, <1>3, <1>4 DEF Answered, BarIInv, BarTypeOK, Requests

\* What is asked for shows nothing yet.
LEMMA AskStep ==
    ASSUME BarIInv, TogglePause \/ Step
    PROVE  BarIInv'
<1>1. busy' \in Requests
  BY DEF TogglePause, Step, Requested, Requests
<1>2. QED
  BY <1>1 DEF TogglePause, Step, BarIInv, BarTypeOK, SwitchNeverOverstates, StepsOfferedInPause

\* A failure leaves the bar as it is, a lost answer and another client end its claim.
LEMMA FailureStep ==
    ASSUME BarIInv, RequestFails \/ AnswerLost \/ HostChanges
    PROVE  BarIInv'
<1>1. CASE RequestFails
  BY <1>1 DEF RequestFails, BarIInv, BarTypeOK, SwitchNeverOverstates, StepsOfferedInPause, Requests
<1>2. CASE AnswerLost
  <2>1. hostPaused' \in BOOLEAN
    BY <1>2 DEF AnswerLost, After, BarIInv, BarTypeOK
  <2>2. QED
    BY <1>2, <2>1
    DEF AnswerLost, BarIInv, BarTypeOK, SwitchNeverOverstates, StepsOfferedInPause, Requests
<1>3. CASE HostChanges
  <2>1. hostPaused' \in BOOLEAN
    BY <1>3 DEF HostChanges
  <2>2. QED
    BY <1>3, <2>1
    DEF HostChanges, BarIInv, BarTypeOK, SwitchNeverOverstates, StepsOfferedInPause
<1>4. QED  BY <1>1, <1>2, <1>3

\* The switch takes the store's flag with it.
LEMMA ToggleStep ==
    ASSUME BarIInv, HandleToggle
    PROVE  BarIInv'
<1>1. enabled' \in BOOLEAN /\ autoApply' = enabled'
  BY DEF HandleToggle
<1>2. UNCHANGED playVars
  BY DEF HandleToggle
<1>3. QED
  BY <1>1, <1>2
  DEF playVars, BarIInv, BarTypeOK, SwitchNeverOverstates, StepsOfferedInPause

\* Every step of the pages keeps what the bar says.
LEMMA BarStep ==
    ASSUME BarIInv, [Next]_vars
    PROVE  BarIInv'
<1>1. ASSUME UNCHANGED barVars
      PROVE  BarIInv'
  BY <1>1
  DEF barVars, playVars, BarIInv, BarTypeOK, SwitchNeverOverstates, StepsOfferedInPause
<1>2. ASSUME NEW p \in {"main", "simulation"}, ChangePage(p)
      PROVE  BarIInv'
  BY <1>1, <1>2, MountStep DEF ChangePage
<1>3. CASE OnBar \/ OverNetwork
  BY <1>3, AskStep, ToggleStep, AnsweredStep, FailureStep DEF OnBar, OverNetwork
<1>4. CASE UNCHANGED vars
  BY <1>1, <1>4 DEF vars
<1>5. QED  BY <1>1, <1>2, <1>3, <1>4 DEF Next

\* The bar of a program that has just been opened claims nothing.
LEMMA BarInvariant == Spec => []BarIInv
<1>1. Init => BarIInv
  BY DEF Init, BarInit, BarIInv, BarTypeOK, SwitchNeverOverstates, StepsOfferedInPause, Requests
<1>2. QED  BY <1>1, BarStep, PTL DEF Spec

\* A switch that is on means that recommendations are applied, wherever the operator
\* has been since.
THEOREM SwitchIsTrue == Spec => []SwitchNeverOverstates
<1>1. BarIInv => SwitchNeverOverstates
  BY DEF BarIInv
<1>2. QED  BY <1>1, BarInvariant, PTL

\* Unless an answer was lost or somebody else interfered, steps are only offered for a
\* simulation that is paused, through requests that fail and pages that are left.
THEOREM StepsAreOfferedInPause == Spec => []StepsOfferedInPause
<1>1. BarIInv => StepsOfferedInPause
  BY DEF BarIInv
<1>2. QED  BY <1>1, BarInvariant, PTL

(***************************************************************************)
(* The maps                                                                *)
(***************************************************************************)

\* A click selects the sector that was clicked, the toggle notwithstanding.
LEMMA ClickSelects ==
    ASSUME NEW s, SelectionIsLastClick, ClickSector(s)
    PROVE  SelectionIsLastClick'
BY DEF SelectionIsLastClick, ClickSector, Select, SetCurrentSectorId

\* Nothing but a click on the page's map changes what is selected.
LEMMA SelectionStep ==
    ASSUME SelectionIsLastClick, [Next]_vars
    PROVE  SelectionIsLastClick'
<1> SUFFICES ASSUME UNCHANGED <<selected, clicked>> \/ \E s \in SectorIds : ClickSector(s)
             PROVE  SelectionIsLastClick'
  <2>1. ASSUME NEW p, GoTo(p)
        PROVE  UNCHANGED <<selected, clicked>>
    BY <2>1 DEF GoTo
  <2>2. CASE OnMap
    BY <2>2 DEF OnMap, Zoom, Fit, Refit, LoadConfiguration, Update, Hover
  <2>3. CASE Ordering
    BY <2>3 DEF Ordering, Apply, OpenMoveModal, HoverInDialog, ZoomInDialog, CloseMoveModal,
                SubmitTargetSector, SelectTargetSector
  <2>4. CASE UNCHANGED mapVars
    BY <2>4 DEF mapVars
  <2>5. QED  BY <2>1, <2>2, <2>3, <2>4 DEF Next, ChangePage, vars
<1>1. CASE UNCHANGED <<selected, clicked>>
  BY <1>1 DEF SelectionIsLastClick
<1>2. QED  BY <1>1, ClickSelects

\* The sector clicked last on a map of the pages is the selected one, in any forest
\* and whatever happens in between.
THEOREM LastClickIsSelected == Spec => []SelectionIsLastClick
<1>1. Init => SelectionIsLastClick
  BY DEF Init, MapInit, SelectionIsLastClick
<1>2. QED  BY <1>1, SelectionStep, PTL DEF Spec

(***************************************************************************)
(* The orders                                                              *)
(***************************************************************************)

\* The forest of the pages is a grid of squares.
LEMMA SquareCells == AreCells(Sectors, Rows, Columns, 0, 0, Side, Side)
<1>1. Rows \in Nat \ {0} /\ Columns \in Nat \ {0} /\ Side \in Nat
  BY PagesAssumption
<1>2. QED  BY <1>1, SquaresAreCells DEF Sectors, Corners

\* What the map draws for sector s is the sector numbered s.
LEMMA ContoursAreCell ==
    ASSUME NEW s \in SectorIds
    PROVE  ContoursOf(s) = Cell(0, 0, Side, Side, RowOf(s, Columns), ColumnOf(s, Columns))
           /\ ContoursOf(s) = Sectors[s].contours
<1>1. DOMAIN Sectors = SectorIds
      /\ \A n \in SectorIds : CellAt(Sectors, n, Columns, 0, 0, Side, Side)
  BY SquareCells DEF AreCells, SectorIds
<1>2. \A n \in SectorIds : Sectors[n].sectorId = n
  BY <1>1 DEF CellAt
<1>3. (CHOOSE n \in SectorIds : Sectors[n].sectorId = s) = s
  BY <1>2
<1>4. ContoursOf(s) = Sectors[s].contours
  BY <1>1, <1>3 DEF ContoursOf
<1>5. QED  BY <1>1, <1>4 DEF CellAt

\* Wherever in the sector the browser puts the order, both look-ups find the sector.
LEMMA PlaceLeadsToSector ==
    ASSUME NEW s \in SectorIds, NEW p \in PlacesFor(s)
    PROVE  FindSectorByLocation(Sectors, p) = s /\ ResolveSectorId(Sectors, p) = s
<1> DEFINE r == RowOf(s, Columns)
           c == ColumnOf(s, Columns)
<1>1. /\ Rows \in Nat \ {0} /\ Columns \in Nat \ {0} /\ Side \in Nat /\ Side >= 10
      /\ s \in 1..Rows * Columns
  BY PagesAssumption DEF SectorIds
<1>2. r \in Nat /\ c \in Nat
  BY <1>1, RowColumnNat
<1>3. PlacesFor(s) = PositionsInSector(Cell(0, 0, Side, Side, r, c))
  BY ContoursAreCell DEF PlacesFor
<1> HIDE DEF r, c
<1>4. /\ p \in Int \X Int
      /\ IsPointInBounds(p, GetBoundsFromContours(Cell(0, 0, Side, Side, r, c)))
  BY <1>1, <1>2, <1>3, PositionsAreInside
<1>5. IsPoint(p)
  BY <1>4 DEF IsPoint
<1>6. InsideOf(p, Sectors, s)
  BY <1>4, ContoursAreCell DEF InsideOf, r, c
<1>7. QED  BY <1>1, <1>5, <1>6, SquareCells, InsideIsFound

LEMMA SendStep ==
    ASSUME NEW u, NEW s \in SectorIds, SendMoveOrder(u, s)
    PROVE  OrdersReachSector'
<1>1. PICK p \in PlacesFor(s) :
          order' = [unit |-> u, sector |-> s, reached |-> FindSectorByLocation(Sectors, p),
                    resolved |-> ResolveSectorId(Sectors, p)]
  BY DEF SendMoveOrder, Destinations
<1>2. order'.sector = s /\ order'.reached = s /\ order'.resolved = s
  BY <1>1, PlaceLeadsToSector
<1>3. QED  BY <1>2 DEF OrdersReachSector

\* A recommendation for a sector the forest does not have is no order.
LEMMA RunStep ==
    ASSUME NEW u, NEW s, OrdersReachSector, HandleRunRecommendation(u, s)
    PROVE  OrdersReachSector'
<1>1. CASE SectorKnown(s)
  <2>1. s \in SectorIds
    BY <1>1, SquareCells DEF SectorKnown, AreCells, CellAt, SectorIds
  <2>2. QED  BY <1>1, <2>1, SendStep DEF HandleRunRecommendation
<1>2. CASE ~SectorKnown(s)
  BY <1>2 DEF HandleRunRecommendation, OrdersReachSector
<1>3. QED  BY <1>1, <1>2

LEMMA OrderStep ==
    ASSUME OrdersReachSector, [Next]_vars
    PROVE  OrdersReachSector'
<1>1. ASSUME UNCHANGED order
      PROVE  OrdersReachSector'
  BY <1>1 DEF OrdersReachSector
<1>2. ASSUME NEW p, GoTo(p)
      PROVE  UNCHANGED order
  BY <1>2 DEF GoTo
<1>3. CASE OnMap
  BY <1>1, <1>3
  DEF OnMap, Zoom, Fit, Refit, LoadConfiguration, Update, ClickSector, Hover
<1>4. CASE Ordering
  <2>1. ASSUME NEW u \in Units, Apply(u)
        PROVE  OrdersReachSector'
    BY <2>1, RunStep DEF Apply
  <2>2. CASE SubmitTargetSector
    BY <2>2, RunStep DEF SubmitTargetSector
  <2>3. CASE \/ \E u \in Units : OpenMoveModal(u)
             \/ HoverInDialog \/ ZoomInDialog \/ CloseMoveModal
             \/ \E s \in SectorIds : SelectTargetSector(s)
    BY <1>1, <2>3
    DEF OpenMoveModal, HoverInDialog, ZoomInDialog, CloseMoveModal, SelectTargetSector
  <2>4. QED  BY <1>4, <2>1, <2>2, <2>3 DEF Ordering
<1>5. CASE UNCHANGED mapVars
  BY <1>1, <1>5 DEF mapVars
<1>6. QED  BY <1>1, <1>2, <1>3, <1>4, <1>5 DEF Next, ChangePage, vars

\* In a forest of any size the place drawn for an order, which is what is sent, leads
\* the simulator and the backend to the sector the operator pointed at.
THEOREM OrdersArrive == Spec => []OrdersReachSector
<1>1. Init => OrdersReachSector
  BY DEF Init, MapInit, OrdersReachSector
<1>2. QED  BY <1>1, OrderStep, PTL DEF Spec

(***************************************************************************)
(* The dialog for a new forest                                             *)
(***************************************************************************)

\* The form has the location of the rectangle on the map, if that was taken.
LocationIsDrawn ==
    \/ values.location = DefaultLocation
    \/ /\ features # Nothing
       /\ IsTaken(features[1], features[2])
       /\ values.location = Region(features[1], features[2])

DrawingIInv == DrawingTypeOK /\ LocationIsDrawn /\ CreatedAsShown

\* The rectangle between two corners, from its southwest to its northeast.
LEMMA RegionBox ==
    ASSUME NEW a \in Int \X Int, NEW b \in Int \X Int
    PROVE  \E w, e, s, n \in Int :
              /\ w <= e /\ s <= n /\ Region(a, b) = {w, e} \X {s, n}
              /\ (w = a[1] /\ e = b[1]) \/ (w = b[1] /\ e = a[1])
              /\ (s = a[2] /\ n = b[2]) \/ (s = b[2] /\ n = a[2])
<1> DEFINE w == IF a[1] <= b[1] THEN a[1] ELSE b[1]
           e == IF a[1] <= b[1] THEN b[1] ELSE a[1]
           s == IF a[2] <= b[2] THEN a[2] ELSE b[2]
           n == IF a[2] <= b[2] THEN b[2] ELSE a[2]
<1>1. a[1] \in Int /\ a[2] \in Int /\ b[1] \in Int /\ b[2] \in Int
  OBVIOUS
<1>2. w \in Int /\ e \in Int /\ s \in Int /\ n \in Int /\ w <= e /\ s <= n
  BY <1>1
<1>3. {a[1], b[1]} = {w, e} /\ {a[2], b[2]} = {s, n}
  OBVIOUS
<1>4. /\ (w = a[1] /\ e = b[1]) \/ (w = b[1] /\ e = a[1])
      /\ (s = a[2] /\ n = b[2]) \/ (s = b[2] /\ n = a[2])
  OBVIOUS
<1> HIDE DEF w, e, s, n
<1>5. Region(a, b) = {w, e} \X {s, n}
  BY <1>3 DEF Region
<1>6. QED  BY <1>2, <1>4, <1>5

LEMMA CountFacts ==
    ASSUME NEW n \in Nat \ {0}
    PROVE  /\ Count(n) \in Nat
           /\ IsWhole(n) => n = Parts * Count(n) /\ Count(n) # 0
<1>1. Parts \in Nat \ {0}
  BY DrawingAssumption
<1>2. /\ n \div Parts \in Nat
      /\ n = (n \div Parts) * Parts + (n % Parts)
  BY <1>1, DivMod
<1>3. Count(n) = n \div Parts
  BY DEF Count
<1>4. n % Parts = 0 => n = Parts * Count(n)
  BY <1>1, <1>2, <1>3
<1>5. QED  BY <1>1, <1>2, <1>3, <1>4 DEF IsWhole

LEMMA NoFactor ==
    ASSUME NEW n \in Nat \ {0}, NEW x \in Int, n * x = 0
    PROVE  x = 0
OBVIOUS

\* Whole numbers of steps meet the end.
LEMMA WholeSteps ==
    ASSUME NEW d \in Nat, NEW n \in Nat \ {0}, IsWhole(n), (Parts * d) % n = 0
    PROVE  (Parts * d) \div n \in Nat /\ d = Count(n) * ((Parts * d) \div n)
<1> DEFINE q == (Parts * d) \div n
           c == Count(n)
<1>1. Parts \in Nat \ {0} /\ Parts * d \in Nat
  BY DrawingAssumption
<1>2. q \in Nat /\ Parts * d = q * n
  <2> DEFINE whole == Parts * d
  <2>1. whole \in Nat /\ whole % n = 0
    BY <1>1
  <2> HIDE DEF whole
  <2>2. whole \div n \in Nat /\ whole = (whole \div n) * n + 0
    BY <2>1, DivMod
  <2>3. (whole \div n) * n \in Nat
    BY <2>2
  <2>4. QED  BY <2>2, <2>3 DEF whole
<1>3. c \in Nat /\ n = Parts * c
  BY CountFacts
<1> HIDE DEF q, c
<1>4. Parts * (d - c * q) = 0
  <2>1. q * (Parts * c) = Parts * (c * q) /\ c * q \in Nat
    BY <1>1, <1>2, <1>3
  <2>2. Parts * (d - c * q) = Parts * d - Parts * (c * q)
    BY <1>1, <2>1
  <2>3. Parts * d = Parts * (c * q) /\ Parts * d \in Nat
    BY <1>1, <1>2, <1>3, <2>1
  <2>4. QED  BY <2>2, <2>3
<1>5. d - c * q = 0
  <2>1. d - c * q \in Int
    BY <1>2, <1>3
  <2>2. QED  BY <1>1, <1>4, <2>1, NoFactor
<1>6. d = c * q
  BY <1>2, <1>3, <1>5
<1>7. QED  BY <1>2, <1>6 DEF q, c

\* Any length is a whole number of steps of 1.
LEMMA WholeIsDivisible ==
    ASSUME NEW d \in Int
    PROVE  (Parts * d) % Parts = 0
<1>1. Parts \in Nat \ {0}
  BY DrawingAssumption
<1>2. Parts * d = d * Parts + 0 /\ 0 \in 0..Parts - 1
  BY <1>1
<1>3. QED  BY <1>1, <1>2

\* A line of the grid is a coordinate.
LEMMA LineIsPlace ==
    ASSUME NEW n \in Nat \ {0}, NEW start \in Int, NEW stop \in Int, NEW i \in 0..Count(n)
    PROVE  /\ LineAt(GridLines(start, stop, n), i)
                  = Line(start, (Parts * (stop - start)) \div n, i)
           /\ LineAt(GridLines(start, stop, n), i) \in Int
<1> DEFINE size == (Parts * (stop - start)) \div n
<1>1. Parts * (stop - start) \in Int
  BY DrawingAssumption
<1>2. size \in Int
  BY <1>1
<1> HIDE DEF size
<1>3. i \in Int
  BY CountFacts
<1>4. LineAt(GridLines(start, stop, n), i) = start + i * size
  BY DEF LineAt, GridLines, size
<1>5. start + i * size \in Int
  BY <1>2, <1>3
<1>6. QED  BY <1>4, <1>5 DEF Line, size

LEMMA LastCell ==
    ASSUME NEW rows \in Nat \ {0}, NEW columns \in Nat \ {0}
    PROVE  \E n \in 1..rows * columns :
              RowOf(n, columns) + 1 = rows /\ ColumnOf(n, columns) + 1 = columns
<1>1. ASSUME NEW r \in 0..rows - 1, NEW c \in 0..columns - 1, r + 1 = rows, c + 1 = columns
      PROVE  \E n \in 1..rows * columns :
                RowOf(n, columns) + 1 = rows /\ ColumnOf(n, columns) + 1 = columns
  <2> DEFINE n == r * columns + c + 1
  <2>1. n \in 1..rows * columns /\ RowOf(n, columns) = r /\ ColumnOf(n, columns) = c
    BY CellSector, SMTT(30)
  <2> HIDE DEF n
  <2>2. QED  BY <1>1, <2>1
<1>2. rows - 1 \in 0..rows - 1 /\ columns - 1 \in 0..columns - 1
  OBVIOUS
<1>3. QED  BY <1>1, <1>2

\* New sectors count from 1, and with a whole number of rows or of columns they are
\* found to.
LEMMA LastIsFound ==
    ASSUME NEW rows \in Nat \ {0}, NEW columns \in Nat \ {0},
           IsWhole(rows) \/ IsWhole(columns),
           NEW k \in 1..Count(rows) * Count(columns)
    PROVE  \E n \in 1..Count(rows) * Count(columns) :
              \/ Parts * CreatedSectors(rows, columns)[n].row = rows
              \/ Parts * CreatedSectors(rows, columns)[n].column = columns
<1> DEFINE R == Count(rows)
           C == Count(columns)
<1>1. R \in Nat /\ C \in Nat
  BY CountFacts
<1> HIDE DEF R, C
<1>2. R # 0 /\ C # 0
  <2>1. 1..0 = {} /\ 0 * C = 0 /\ R * 0 = 0
    BY <1>1
  <2>2. k \in 1..R * C
    BY DEF R, C
  <2>3. QED  BY <2>1, <2>2
<1>3. R \in Nat \ {0} /\ C \in Nat \ {0}
  BY <1>1, <1>2
<1>4. PICK n \in 1..R * C : RowOf(n, C) + 1 = R /\ ColumnOf(n, C) + 1 = C
  BY <1>3, LastCell
<1>5. /\ CreatedSectors(rows, columns)[n].row = R
      /\ CreatedSectors(rows, columns)[n].column = C
  <2>1. /\ CreatedSectors(rows, columns)[n].row = RowOf(n, C) + 1
        /\ CreatedSectors(rows, columns)[n].column = ColumnOf(n, C) + 1
    BY <1>4 DEF CreatedSectors, CreateSectors, RowOf, ColumnOf, R, C
  <2>2. QED  BY <1>4, <2>1
<1>6. (IsWhole(rows) => Parts * R = rows) /\ (IsWhole(columns) => Parts * C = columns)
  BY CountFacts DEF R, C
<1>7. QED  BY <1>4, <1>5, <1>6 DEF R, C

\* Then a sector has the lines around its row and column for contours.
LEMMA NewSector ==
    ASSUME NEW rows \in Nat \ {0}, NEW columns \in Nat \ {0},
           IsWhole(rows) \/ IsWhole(columns),
           NEW location, NEW sectors,
           sectors = Preprocess(CreatedSectors(rows, columns), rows, columns, location),
           NEW k \in 1..Count(rows) * Count(columns),
           NEW lat, NEW lng,
           lat = GridLines(GetBounds(location).south, GetBounds(location).north, rows),
           lng = GridLines(GetBounds(location).west, GetBounds(location).east, columns),
           NEW r, NEW c, r = RowOf(k, Count(columns)), c = ColumnOf(k, Count(columns))
    PROVE  /\ sectors[k].sectorId = k
           /\ sectors[k].contours =
                 {LineAt(lng, c), LineAt(lng, c + 1)} \X {LineAt(lat, r), LineAt(lat, r + 1)}
           /\ r \in 0..Count(rows) /\ r + 1 \in 0..Count(rows)
           /\ c \in 0..Count(columns) /\ c + 1 \in 0..Count(columns)
<1> DEFINE R == Count(rows)
           C == Count(columns)
           cells == CreatedSectors(rows, columns)
<1>1. R \in Nat /\ C \in Nat
  BY CountFacts
<1>2. R # 0 /\ C # 0
  <2>1. 1..0 = {} /\ 0 * C = 0 /\ R * 0 = 0
    BY <1>1
  <2>2. QED  BY <2>1
<1>3. r \in 0..R - 1 /\ c \in 0..C - 1
  BY <1>1, <1>2, SectorCell
<1>4. DOMAIN cells = 1..R * C
  BY DEF CreatedSectors, CreateSectors
<1>5. cells[k].sectorId = k /\ cells[k].row = r + 1 /\ cells[k].column = c + 1
  BY DEF CreatedSectors, CreateSectors, RowOf, ColumnOf
<1>6. \E n \in DOMAIN cells :
          Parts * cells[n].row = rows \/ Parts * cells[n].column = columns
  BY <1>4, LastIsFound
<1>7. (r + 1) - 1 = r /\ (c + 1) - 1 = c
  BY <1>1, <1>3
<1> HIDE DEF cells
<1>8. /\ sectors[k].sectorId = cells[k].sectorId
      /\ sectors[k].contours =
            {LineAt(lng, cells[k].column - 1), LineAt(lng, (cells[k].column - 1) + 1)}
               \X {LineAt(lat, cells[k].row - 1), LineAt(lat, (cells[k].row - 1) + 1)}
  BY <1>4, <1>6 DEF Preprocess, cells
<1>9. /\ sectors[k].sectorId = k
      /\ sectors[k].contours =
            {LineAt(lng, c), LineAt(lng, c + 1)} \X {LineAt(lat, r), LineAt(lat, r + 1)}
  BY <1>5, <1>7, <1>8
<1>10. r \in 0..R /\ r + 1 \in 0..R /\ c \in 0..C /\ c + 1 \in 0..C
  BY <1>1, <1>3
<1>11. QED  BY <1>9, <1>10 DEF R, C

\* Corners between lines of the grid are places, so the preview leaves no such sector out.
LEMMA NewSectorIsValid ==
    ASSUME NEW a \in Points, NEW b \in Points,
           NEW rows \in Nat \ {0}, NEW columns \in Nat \ {0},
           IsWhole(rows) \/ IsWhole(columns),
           NEW sectors,
           sectors = Preprocess(CreatedSectors(rows, columns), rows, columns, Region(a, b)),
           NEW k \in 1..Count(rows) * Count(columns)
    PROVE  HasValidContours(sectors[k])
<1> DEFINE bounds == GetBounds(Region(a, b))
           lat == GridLines(bounds.south, bounds.north, rows)
           lng == GridLines(bounds.west, bounds.east, columns)
           r == RowOf(k, Count(columns))
           c == ColumnOf(k, Count(columns))
<1>1. a \in Int \X Int /\ b \in Int \X Int
  BY DrawingAssumption
<1>2. PICK w \in Int, e \in Int, s \in Int, n \in Int :
          /\ w <= e /\ s <= n /\ Region(a, b) = {w, e} \X {s, n}
          /\ (w = a[1] /\ e = b[1]) \/ (w = b[1] /\ e = a[1])
          /\ (s = a[2] /\ n = b[2]) \/ (s = b[2] /\ n = a[2])
  BY <1>1, RegionBox
<1>3. bounds = Box(w, e, s, n)
  BY <1>2, CornersBounds
<1>4. bounds.south \in Int /\ bounds.north \in Int /\ bounds.west \in Int /\ bounds.east \in Int
  BY <1>3 DEF Box
<1>5. /\ sectors[k].contours =
            {LineAt(lng, c), LineAt(lng, c + 1)} \X {LineAt(lat, r), LineAt(lat, r + 1)}
      /\ r \in 0..Count(rows) /\ r + 1 \in 0..Count(rows)
      /\ c \in 0..Count(columns) /\ c + 1 \in 0..Count(columns)
  BY NewSector
<1> HIDE DEF bounds
<1>6. /\ LineAt(lng, c) \in Int /\ LineAt(lng, c + 1) \in Int
      /\ LineAt(lat, r) \in Int /\ LineAt(lat, r + 1) \in Int
  <2>1. LineAt(lng, c) \in Int /\ LineAt(lng, c + 1) \in Int
    BY <1>4, <1>5, LineIsPlace
  <2>2. LineAt(lat, r) \in Int /\ LineAt(lat, r + 1) \in Int
    BY <1>4, <1>5, LineIsPlace
  <2>3. QED  BY <2>1, <2>2
<1> HIDE DEF lat, lng, r, c
<1>7. Undefined \notin Int
  BY DrawingAssumption
<1>8. \A p \in sectors[k].contours : p[1] \in Int /\ p[2] \in Int
  BY <1>5, <1>6
<1>9. QED  BY <1>7, <1>8 DEF HasValidContours

\* Sectors cut from the rectangle that is on the map span it, when both numbers are whole.
LEMMA SectorsSpanRegion ==
    ASSUME NEW a \in Points, NEW b \in Points, OnEarth(a), OnEarth(b),
           NEW rows \in Numbers \cup {Parts}, NEW columns \in Numbers \cup {Parts},
           rows \in 1..Limit * Parts, columns \in 1..Limit * Parts,
           IsWhole(rows), IsWhole(columns),
           NEW sectors,
           sectors = Preprocess(CreatedSectors(rows, columns), rows, columns, Region(a, b))
    PROVE  GetBounds(AllCorners(sectors)) = GetBounds(Region(a, b))
<1>1. /\ a \in Int \X Int /\ b \in Int \X Int
      /\ Parts \in Nat \ {0} /\ Limit * Parts \in Nat
  BY DrawingAssumption
<1>2. PICK w \in Int, e \in Int, s \in Int, n \in Int :
          /\ w <= e /\ s <= n /\ Region(a, b) = {w, e} \X {s, n}
          /\ (w = a[1] /\ e = b[1]) \/ (w = b[1] /\ e = a[1])
          /\ (s = a[2] /\ n = b[2]) \/ (s = b[2] /\ n = a[2])
  BY <1>1, RegionBox
<1>3. rows \in Nat \ {0} /\ columns \in Nat \ {0}
  BY <1>1
<1>4. ASSUME NEW k \in Numbers \cup {Parts}, k \in 1..Limit * Parts
      PROVE  (Parts * (e - w)) % k = 0 /\ (Parts * (n - s)) % k = 0
  <2>1. CASE k = Parts
    BY <1>1, <1>2, <2>1, WholeIsDivisible
  <2>2. CASE k \in Numbers \cap 1..Limit * Parts
    <3>1. /\ (Parts * (b[1] - a[1])) % k = 0 /\ (Parts * (a[1] - b[1])) % k = 0
          /\ (Parts * (b[2] - a[2])) % k = 0 /\ (Parts * (a[2] - b[2])) % k = 0
      BY <2>2, DrawingAssumption
    <3>2. QED  BY <1>2, <3>1
  <2>3. QED  BY <1>4, <2>1, <2>2
<1> DEFINE R == Count(rows)
           C == Count(columns)
           wide == (Parts * (e - w)) \div columns
           high == (Parts * (n - s)) \div rows
<1>5. wide \in Nat /\ e = w + C * wide
  <2>1. e - w \in Nat
    BY <1>2
  <2>2. wide \in Nat /\ e - w = C * wide
    BY <1>3, <1>4, <2>1, WholeSteps
  <2>3. QED  BY <1>2, <2>2
<1>6. high \in Nat /\ n = s + R * high
  <2>1. n - s \in Nat
    BY <1>2
  <2>2. high \in Nat /\ n - s = R * high
    BY <1>3, <1>4, <2>1, WholeSteps
  <2>3. QED  BY <1>2, <2>2
<1>7. R \in Nat \ {0} /\ C \in Nat \ {0}
  BY <1>3, CountFacts
<1>8. GetBounds(Region(a, b)) = Box(w, e, s, n)
  BY <1>2, CornersBounds
<1>9. GetBounds(Region(a, b)) = Area(w, s, wide, high, R, C)
  BY <1>5, <1>6, <1>8 DEF Area
<1>10. AreCells(sectors, R, C, w, s, wide, high)
  <2>1. DOMAIN sectors = 1..R * C
    BY DEF Preprocess, CreatedSectors, CreateSectors
  <2>2. ASSUME NEW k \in 1..R * C
        PROVE  CellAt(sectors, k, C, w, s, wide, high)
    <3> DEFINE lat == GridLines(s, n, rows)
               lng == GridLines(w, e, columns)
               r == RowOf(k, C)
               c == ColumnOf(k, C)
    <3>1. /\ lat = GridLines(GetBounds(Region(a, b)).south, GetBounds(Region(a, b)).north, rows)
          /\ lng = GridLines(GetBounds(Region(a, b)).west, GetBounds(Region(a, b)).east, columns)
      BY <1>8 DEF Box
    <3> HIDE DEF lat, lng
    <3>2. /\ sectors[k].sectorId = k
          /\ sectors[k].contours =
                {LineAt(lng, c), LineAt(lng, c + 1)} \X {LineAt(lat, r), LineAt(lat, r + 1)}
          /\ r \in 0..R /\ r + 1 \in 0..R /\ c \in 0..C /\ c + 1 \in 0..C
      BY <1>3, <3>1, NewSector
    <3> HIDE DEF r, c
    <3>3. /\ LineAt(lng, c) = Line(w, wide, c) /\ LineAt(lng, c + 1) = Line(w, wide, c + 1)
      BY <1>2, <1>3, <3>2, LineIsPlace DEF lng
    <3>4. /\ LineAt(lat, r) = Line(s, high, r) /\ LineAt(lat, r + 1) = Line(s, high, r + 1)
      BY <1>2, <1>3, <3>2, LineIsPlace DEF lat
    <3>5. QED  BY <3>2, <3>3, <3>4 DEF CellAt, Cell, r, c
  <2>3. QED  BY <2>1, <2>2 DEF AreCells
<1> HIDE DEF R, C, wide, high
<1>11. GetBounds(AllCorners(sectors)) = Area(w, s, wide, high, R, C)
  BY <1>2, <1>5, <1>6, <1>7, <1>10, CellsSpan
<1>12. QED  BY <1>9, <1>11

\* There are as many sectors as rows times columns.
LEMMA SectorsCount ==
    ASSUME NEW rows \in Nat \ {0}, NEW columns \in Nat \ {0}, NEW location
    PROVE  Len(Preprocess(CreatedSectors(rows, columns), rows, columns, location))
               = Count(rows) * Count(columns)
<1> DEFINE sectors == Preprocess(CreatedSectors(rows, columns), rows, columns, location)
           N == Count(rows) * Count(columns)
<1>1. N \in Nat
  <2>1. Count(rows) \in Nat /\ Count(columns) \in Nat
    BY CountFacts
  <2>2. QED  BY <2>1
<1>2. DOMAIN CreatedSectors(rows, columns) = 1..N
  BY DEF CreatedSectors, CreateSectors
<1>3. sectors = [k \in 1..N |-> sectors[k]]
  BY <1>2 DEF Preprocess
<1> HIDE DEF sectors, N
<1>4. sectors \in Seq({sectors[k] : k \in 1..N})
  BY <1>1, <1>3, SeqDef
<1>5. Len(sectors) \in Nat /\ DOMAIN sectors = 1..Len(sectors)
  BY <1>4, LenProperties
<1> DEFINE L == Len(sectors)
<1>6. 1..N = 1..L /\ L \in Nat
  BY <1>3, <1>5
<1> HIDE DEF L
<1>7. ~(N < L) /\ ~(L < N)
  <2>1. ASSUME N < L PROVE FALSE
    <3>1. L \in 1..L /\ L \notin 1..N
      BY <1>1, <1>6, <2>1
    <3>2. QED  BY <1>6, <3>1
  <2>2. ASSUME L < N PROVE FALSE
    <3>1. N \in 1..N /\ N \notin 1..L
      BY <1>1, <1>6, <2>2
    <3>2. QED  BY <1>6, <3>1
  <2>3. QED  BY <2>1, <2>2
<1>8. QED  BY <1>1, <1>6, <1>7 DEF L, sectors, N

LEMMA SubmitStep ==
    ASSUME DrawingIInv, HandleSubmit
    PROVE  CreatedAsShown'
<1> DEFINE opened == SetConfiguration(NewFile)
           rows == values.rows
           columns == values.columns
<1>1. /\ rows \in Numbers \cup {Parts} /\ columns \in Numbers \cup {Parts}
      /\ features \in (Points \X Points) \cup {Nothing}
  BY DEF DrawingIInv, DrawingTypeOK, FormValues
<1>2. opened = Preprocess(CreatedSectors(rows, columns), rows, columns, values.location)
  BY DEF SetConfiguration, NewFile
<1>3. /\ created'.file = NewFile /\ created'.drawn = features
      /\ created'.shown = IF HasPreview THEN TempConfiguration ELSE Nothing
  BY DEF HandleSubmit
<1>4. NewFile.values = values
  BY DEF NewFile
<1>5. SUFFICES ASSUME HasPreview
               PROVE  /\ IsWhole(rows) \/ IsWhole(columns) =>
                            TempConfiguration.sectors = {opened[n] : n \in DOMAIN opened}
                      /\ features # Nothing
                      /\ IsWhole(rows) /\ IsWhole(columns) =>
                            /\ Len(opened) = Count(rows) * Count(columns)
                            /\ GetBounds(AllCorners(opened))
                                  = GetBounds(Region(features[1], features[2]))
  BY <1>3, <1>4 DEF CreatedAsShown, AllCorners
<1> HIDE DEF opened
<1>6. rows \in 1..Limit * Parts /\ columns \in 1..Limit * Parts
  BY <1>5 DEF HasPreview
<1>7. rows \in Nat \ {0} /\ columns \in Nat \ {0}
  <2>1. Limit * Parts \in Nat
    BY DrawingAssumption
  <2>2. QED  BY <1>6, <2>1
<1>8. values.location # DefaultLocation
  <2>1. <<0, 0>> \in DefaultLocation
    BY DEF DefaultLocation
  <2>2. <<0, 0>> \notin values.location
    BY <1>5 DEF HasPreview, HasValidLocation
  <2>3. QED  BY <2>1, <2>2
<1>9. /\ features # Nothing /\ IsTaken(features[1], features[2])
      /\ values.location = Region(features[1], features[2])
  BY <1>8 DEF DrawingIInv, LocationIsDrawn
<1>10. features[1] \in Points /\ features[2] \in Points
  BY <1>1, <1>9
<1>11. DOMAIN opened = 1..Count(rows) * Count(columns)
  BY <1>2 DEF Preprocess, CreatedSectors, CreateSectors
<1>12. ASSUME IsWhole(rows) \/ IsWhole(columns)
       PROVE  TempConfiguration.sectors = {opened[n] : n \in DOMAIN opened}
  <2>1. TempConfiguration.sectors =
            {x \in {opened[n] : n \in DOMAIN opened} : HasValidContours(x)}
    BY <1>2 DEF TempConfiguration
  <2>2. ASSUME NEW n \in DOMAIN opened
        PROVE  HasValidContours(opened[n])
    BY <1>2, <1>7, <1>9, <1>10, <1>11, <1>12, <2>2, NewSectorIsValid
  <2>3. QED  BY <2>1, <2>2
<1>13. Len(opened) = Count(rows) * Count(columns)
  BY <1>2, <1>7, SectorsCount
<1>14. ASSUME IsWhole(rows), IsWhole(columns)
       PROVE  GetBounds(AllCorners(opened)) = GetBounds(Region(features[1], features[2]))
  BY <1>1, <1>2, <1>6, <1>9, <1>10, <1>14, SectorsSpanRegion DEF IsTaken
<1>15. QED  BY <1>9, <1>12, <1>13, <1>14

LEMMA NoValuesYet == DefaultValues \in FormValues
<1>1. DefaultLocation \in Locations
  BY DEF Locations
<1>2. QED  BY <1>1 DEF DefaultValues, FormValues

\* The form keeps its types, and its location that of the map.
LEMMA FormStep ==
    ASSUME DrawingIInv, [DrawingNext]_drawingVars
    PROVE  DrawingTypeOK' /\ LocationIsDrawn'
<1>1. CASE OpenModal
  <2>1. values'.location = DefaultLocation
    BY <1>1 DEF OpenModal, DefaultValues
  <2>2. /\ open' = TRUE /\ isDrawing' = FALSE /\ features' = Nothing
        /\ values' = DefaultValues
    BY <1>1 DEF OpenModal
  <2>3. QED  BY <2>1, <2>2, NoValuesYet DEF DrawingTypeOK, LocationIsDrawn
<1>2. CASE CloseModal \/ HandleSubmit \/ UNCHANGED drawingVars \/ ToggleDrawing
  <2>1. open' \in BOOLEAN /\ isDrawing' \in BOOLEAN
    BY <1>2 DEF CloseModal, HandleSubmit, ToggleDrawing, drawingVars, DrawingIInv, DrawingTypeOK
  <2>2. features' = features /\ values' = values
    BY <1>2 DEF CloseModal, HandleSubmit, ToggleDrawing, drawingVars
  <2>3. LocationIsDrawn'
    BY <2>2 DEF DrawingIInv, LocationIsDrawn
  <2>4. DrawingTypeOK'
    BY <2>1, <2>2 DEF DrawingIInv, DrawingTypeOK
  <2>5. QED  BY <2>3, <2>4
<1>3. CASE Clear
  <2>1. /\ open' = open /\ isDrawing' = FALSE /\ features' = Nothing
        /\ values' = [values EXCEPT !.location = DefaultLocation]
    BY <1>3 DEF Clear
  <2>2. DefaultLocation \in Locations /\ values \in FormValues /\ open \in BOOLEAN
    BY DEF DrawingIInv, DrawingTypeOK, Locations
  <2>3. values' \in FormValues /\ values'.location = DefaultLocation
    BY <2>1, <2>2 DEF FormValues
  <2>4. QED  BY <2>1, <2>2, <2>3 DEF DrawingTypeOK, LocationIsDrawn
<1>4. ASSUME NEW a \in Points, NEW b \in Points, HandleEdit(a, b)
      PROVE  DrawingTypeOK' /\ LocationIsDrawn'
  <2>1. features' = <<a, b>> /\ features'[1] = a /\ features'[2] = b /\ features' # Nothing
    BY <1>4 DEF HandleEdit, Nothing
  <2>2. values.location = DefaultLocation
    BY <1>4 DEF HandleEdit, DrawingIInv, LocationIsDrawn
  <2>3. Region(a, b) \in Locations
    BY DEF Locations
  <2>4. CASE IsTaken(a, b)
    BY <1>4, <2>1, <2>3, <2>4
    DEF HandleEdit, DrawingIInv, DrawingTypeOK, FormValues, LocationIsDrawn
  <2>5. CASE ~IsTaken(a, b)
    BY <1>4, <2>1, <2>2, <2>5 DEF HandleEdit, DrawingIInv, DrawingTypeOK, LocationIsDrawn
  <2>6. QED  BY <2>4, <2>5
<1>5. ASSUME NEW field \in {"rows", "columns"}, TypeNumber(field)
      PROVE  DrawingTypeOK' /\ LocationIsDrawn'
  BY <1>5 DEF TypeNumber, DrawingIInv, DrawingTypeOK, FormValues, LocationIsDrawn
<1>6. QED  BY <1>1, <1>2, <1>3, <1>4, <1>5 DEF DrawingNext

LEMMA CreatedStep ==
    ASSUME DrawingIInv, [DrawingNext]_drawingVars
    PROVE  CreatedAsShown'
<1>1. CASE UNCHANGED created
  BY <1>1 DEF DrawingIInv, CreatedAsShown
<1>2. CASE HandleSubmit
  BY <1>2, SubmitStep
<1>3. QED
  BY <1>1, <1>2
  DEF DrawingNext, OpenModal, CloseModal, ToggleDrawing, Clear, HandleEdit, TypeNumber, drawingVars

\* Whatever rectangle is drawn, after however many tries, and whichever numbers are
\* typed, with any number of parts to a whole: with a whole number of rows or of columns
\* the file opens with the sectors that were shown, and when both are whole there are
\* rows times columns of them and they span the rectangle on the map.
THEOREM ForestsAreCreatedAsShown == DrawingSpec => []CreatedAsShown
<1>1. DrawingInit => DrawingIInv
  <2>1. DefaultValues.location = DefaultLocation
    BY DEF DefaultValues
  <2>2. QED
    BY <2>1, NoValuesYet
    DEF DrawingInit, DrawingIInv, DrawingTypeOK, LocationIsDrawn, CreatedAsShown
<1>2. DrawingIInv /\ [DrawingNext]_drawingVars => DrawingIInv'
  BY FormStep, CreatedStep DEF DrawingIInv
<1>3. DrawingIInv => CreatedAsShown
  BY DEF DrawingIInv
<1>4. QED  BY <1>1, <1>2, <1>3, PTL DEF DrawingSpec
================================================================================
