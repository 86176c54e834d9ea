-------------------------------- MODULE NewForest --------------------------------
(***************************************************************************)
(* The dialog for a new configuration: the operator draws the rectangle of *)
(* the forest on a map, types the numbers of rows and columns, sees the    *)
(* sectors that makes, and creates the file.  The drawn rectangle is state *)
(* of the map, the location and the numbers are fields of the form; the    *)
(* name and the folder of the file are in Workspace.                       *)
(*                                                                         *)
(* Nothing checks the numbers: a field takes fractions and negative        *)
(* numbers, and an empty one stands for 0.  They are counted in parts, of  *)
(* which Parts make a whole.                                               *)
(***************************************************************************)
EXTENDS ForestGrid

CONSTANTS
    Points,      \* where the operator may press and release on the map
    World,       \* the greatest coordinate on earth
    Limit,       \* of rows and columns with a preview: 100 in the code
    Parts,       \* of a whole number
    Numbers,     \* of parts the operator may type
    Undefined    \* a coordinate that no line of the grid gives

OnEarth(p) == p[1] \in -World..World /\ p[2] \in -World..World

\* Rectangles are multiples of the numbers of rows and columns they may be cut into,
\* fractions too.
ASSUME DrawingAssumption ==
    /\ Points \subseteq Int \X Int
    /\ World \in Nat /\ Limit \in Nat \ {0} /\ Parts \in Nat \ {0}
    /\ Numbers \subseteq Int /\ Undefined \notin Int
    /\ \A a, b \in {p \in Points : OnEarth(p)}, n \in Numbers \cap 1..Limit * Parts :
          (Parts * (b[1] - a[1])) % n = 0 /\ (Parts * (b[2] - a[2])) % n = 0

VARIABLES
    open,         \* the dialog is there
    isDrawing,
    features,     \* corners pressed and released of the rectangle on the map, or Nothing
    values,       \* of the form
    created       \* the last file, and what the dialog showed at its creation, or Nothing

drawingVars == <<open, isDrawing, features, values, created>>

Nothing == <<>>    \* no rectangle, no preview, no file
DefaultLocation == {<<0, 0>>}

\* The corners of the rectangle between two points, whichever was pressed first.
Region(a, b) == {a[1], b[1]} \X {a[2], b[2]}

Locations == {DefaultLocation} \cup {Region(a, b) : a \in Points, b \in Points}
FormValues ==
    [location : Locations, rows : Numbers \cup {Parts}, columns : Numbers \cup {Parts}]

DrawingTypeOK ==
    /\ open \in BOOLEAN /\ isDrawing \in BOOLEAN
    /\ features \in (Points \X Points) \cup {Nothing}
    /\ values \in FormValues

DefaultValues == [location |-> DefaultLocation, rows |-> Parts, columns |-> Parts]

DrawingInit ==
    /\ open = FALSE /\ isDrawing = FALSE
    /\ features = Nothing /\ values = DefaultValues /\ created = Nothing

\* The form and the map start anew with the dialog.
OpenModal ==
    /\ ~open /\ open' = TRUE
    /\ isDrawing' = FALSE /\ features' = Nothing /\ values' = DefaultValues
    /\ UNCHANGED created

CloseModal == open /\ open' = FALSE /\ UNCHANGED <<isDrawing, features, values, created>>

------------------------------------------------------------------------------
(* Drawing *)

\* Clear is the only button of a map with a rectangle, taken or not.
ToggleDrawing ==
    /\ open /\ features = Nothing
    /\ isDrawing' = ~isDrawing
    /\ UNCHANGED <<open, features, values, created>>

\* Whether a drawn rectangle becomes the forest's.
IsTaken(a, b) == OnEarth(a) /\ OnEarth(b) /\ a[1] # b[1] /\ a[2] # b[2]

\* The location taken from a second rectangle, which the map does not show.
HandleEditAgain(a, b) ==
    /\ open /\ isDrawing
    /\ features' = IF features = Nothing THEN <<a, b>> ELSE features
    /\ IF IsTaken(a, b)
       THEN values' = [values EXCEPT !.location = Region(a, b)] /\ isDrawing' = FALSE
       ELSE UNCHANGED <<values, isDrawing>>
    /\ UNCHANGED <<open, created>>

\* The rectangle is on the map before it is found unusable; a second one is
\* ignored until the first is cleared.
HandleEdit(a, b) ==
    /\ open /\ isDrawing /\ features = Nothing
    /\ features' = <<a, b>>
    /\ IF IsTaken(a, b)
       THEN values' = [values EXCEPT !.location = Region(a, b)] /\ isDrawing' = FALSE
       ELSE UNCHANGED <<values, isDrawing>>
    /\ UNCHANGED <<open, created>>

Clear ==
    /\ open /\ features # Nothing
    /\ features' = Nothing /\ isDrawing' = FALSE
    /\ values' = [values EXCEPT !.location = DefaultLocation]
    /\ UNCHANGED <<open, created>>

TypeNumber(field) ==
    /\ open
    /\ \E n \in Numbers : values' = [values EXCEPT ![field] = n]
    /\ UNCHANGED <<open, isDrawing, features, created>>

------------------------------------------------------------------------------
(* Sectors of a number of rows and columns that need not be whole *)

IsWhole(number) == number % Parts = 0

\* The steps of a loop from 1 to a number.
Count(number) == IF number < 0 THEN 0 ELSE number \div Parts

\* createSectors
CreatedSectors(rows, columns) == CreateSectors(Count(rows), Count(columns))

\* linspace: as many lines as whole steps fit, and one.
GridLines(start, stop, number) ==
    [i \in 0..Count(number) |-> start + i * ((Parts * (stop - start)) \div number)]

LineAt(lines, i) == IF i \in DOMAIN lines THEN lines[i] ELSE Undefined

\* preprocessSectors: no row or column is the last one when both numbers are
\* fractions, and sectors that count from 1 are then taken to count from 0.
Preprocess(sectors, rows, columns, location) ==
    LET last(s) == Parts * s.row = rows \/ Parts * s.column = columns
        first == IF \E n \in DOMAIN sectors : last(sectors[n]) THEN 1 ELSE 0
        lat == GridLines(GetBounds(location).south, GetBounds(location).north, rows)
        lng == GridLines(GetBounds(location).west, GetBounds(location).east, columns)
    IN  [n \in DOMAIN sectors |->
            LET row == sectors[n].row - first
                column == sectors[n].column - first
            IN  [sectorId |-> sectors[n].sectorId, row |-> row + 1, column |-> column + 1,
                 contours |-> {LineAt(lng, column), LineAt(lng, column + 1)}
                                  \X {LineAt(lat, row), LineAt(lat, row + 1)}]]

------------------------------------------------------------------------------
(* Preview and creation *)

\* Places on the equator or the meridian of Greenwich count as not given.
HasValidLocation == \A p \in values.location : p[1] # 0 /\ p[2] # 0

HasPreview ==
    /\ HasValidLocation
    /\ values.rows \in 1..Limit * Parts /\ values.columns \in 1..Limit * Parts

HasValidContours(sector) == \A p \in sector.contours : p[1] # Undefined /\ p[2] # Undefined

\* The sectors the map of the dialog shows.
TempConfiguration ==
    LET sectors == Preprocess(CreatedSectors(values.rows, values.columns),
                              values.rows, values.columns, values.location)
    IN  [sectors |-> {s \in {sectors[n] : n \in DOMAIN sectors} : HasValidContours(s)}]

\* The file holds the sectors without contours, which opening it computes again.
NewFile == [values |-> values, sectors |-> CreatedSectors(values.rows, values.columns)]

\* The preview's filter is not here.
SetConfiguration(file) ==
    Preprocess(file.sectors, file.values.rows, file.values.columns, file.values.location)

\* With or without a preview.
HandleSubmit ==
    /\ open
    /\ created' = [file |-> NewFile,
                   shown |-> IF HasPreview THEN TempConfiguration ELSE Nothing,
                   drawn |-> features]
    /\ UNCHANGED <<open, isDrawing, features, values>>

------------------------------------------------------------------------------
DrawingNext ==
    \/ OpenModal \/ CloseModal
    \/ ToggleDrawing \/ Clear
    \/ \E a, b \in Points : HandleEdit(a, b)
    \/ \E field \in {"rows", "columns"} : TypeNumber(field)
    \/ HandleSubmit

DrawingSpec == DrawingInit /\ [][DrawingNext]_drawingVars

------------------------------------------------------------------------------
(* Properties *)

\* A configuration created while the dialog showed sectors, with a whole number of rows
\* or of columns, opens with just these sectors.  When both are whole there are rows
\* times columns of them, and together they span the rectangle that was on the map
\* then, in whichever direction and after however many tries it was drawn (handleEdit,
\* clear, handleSubmit, setConfiguration).
\* Of fractions less is true.  With 1.5 columns and a whole number of rows a third of
\* the rectangle is left out; with 1.5 rows as well no sector is shown, and the file
\* has one, of the row and column 2, with corners that are no places.
CreatedAsShown ==
    created # Nothing /\ created.shown # Nothing =>
        LET opened == SetConfiguration(created.file)
            rows == created.file.values.rows
            columns == created.file.values.columns
        IN  /\ IsWhole(rows) \/ IsWhole(columns) =>
                   created.shown.sectors = {opened[n] : n \in DOMAIN opened}
            /\ created.drawn # Nothing
            /\ IsWhole(rows) /\ IsWhole(columns) =>
                   /\ Len(opened) = Count(rows) * Count(columns)
                   /\ LET drawn == Region(created.drawn[1], created.drawn[2]) IN
                      GetBounds(UNION {opened[n].contours : n \in DOMAIN opened})
                          = GetBounds(drawn)
================================================================================
