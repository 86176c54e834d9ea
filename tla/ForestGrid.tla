------------------------------- MODULE ForestGrid -------------------------------
(***************************************************************************)
(* The forest's grid: the browser cuts the rectangle of a configuration    *)
(* into rows and columns of sectors, tells which sensors lie in a sector,  *)
(* and picks the place an order names; the simulator and the backend look  *)
(* the sector of a place up again.  Coordinates are integers, and the      *)
(* rectangle's sides are multiples of its rows and columns: the rounding   *)
(* of floating point is left out.                                          *)
(***************************************************************************)
EXTENDS Integers, Sequences

\* A point is <<longitude, latitude>>; a region the set of its corners.
Most(S) == CHOOSE x \in S : \A y \in S : x >= y
Least(S) == CHOOSE x \in S : \A y \in S : x <= y

GetBounds(location) ==
    [east  |-> Most({p[1] : p \in location}),  west  |-> Least({p[1] : p \in location}),
     north |-> Most({p[2] : p \in location}),  south |-> Least({p[2] : p \in location})]

Linspace(start, stop, num) ==
    [i \in 0..num - 1 |-> start + i * ((stop - start) \div (num - 1))]

\* Row by row from 1, with the next number each.
CreateSectors(rows, columns) ==
    [n \in 1..rows * columns |->
        [sectorId |-> n, row |-> ((n - 1) \div columns) + 1, column |-> ((n - 1) % columns) + 1]]

\* Rows and columns may count from 0 in a configuration made elsewhere; the last
\* row or column tells.
OneIndexed(sectors, rows, columns) ==
    \E n \in DOMAIN sectors : sectors[n].row = rows \/ sectors[n].column = columns

\* The corners of a cell, counted from 0, southwest first.
Contours(bounds, rows, columns, row, column) ==
    LET lat == Linspace(bounds.south, bounds.north, rows + 1)
        lng == Linspace(bounds.west, bounds.east, columns + 1)
    IN  {<<lng[column], lat[row]>>, <<lng[column], lat[row + 1]>>,
         <<lng[column + 1], lat[row + 1]>>, <<lng[column + 1], lat[row]>>}

\* setConfiguration: rows and columns from 1, and the contours anew.
PreprocessSectors(sectors, rows, columns, location) ==
    LET first == IF OneIndexed(sectors, rows, columns) THEN 1 ELSE 0
    IN  [n \in DOMAIN sectors |->
            [sectorId |-> sectors[n].sectorId,
             row |-> sectors[n].row - first + 1,
             column |-> sectors[n].column - first + 1,
             contours |-> Contours(GetBounds(location), rows, columns,
                                   sectors[n].row - first, sectors[n].column - first)]]

------------------------------------------------------------------------------
(* Places and sectors *)

\* East is the least and west the greatest longitude here.
GetBoundsFromContours(contours) ==
    [east  |-> Least({p[1] : p \in contours}),  west  |-> Most({p[1] : p \in contours}),
     south |-> Least({p[2] : p \in contours}),  north |-> Most({p[2] : p \in contours})]

\* With the borders.
IsPointInOrOnBounds(p, b) ==
    b.east <= p[1] /\ p[1] <= b.west /\ b.south <= p[2] /\ p[2] <= b.north

\* A point on a border is in no sector.
IsPointInBounds(p, b) ==
    b.east < p[1] /\ p[1] < b.west /\ b.south < p[2] /\ p[2] < b.north

SectorOf(sectors, id) == {n \in DOMAIN sectors : sectors[n].sectorId = id}

\* What the list of a sector shows: borders count.
ObjectWithinSector(sectors, id, p) ==
    \E n \in SectorOf(sectors, id) : IsPointInOrOnBounds(p, GetBoundsFromContours(sectors[n].contours))

\* Any place of the sector but the outer tenth of it on each side.
PositionsInSector(contours) ==
    LET b == GetBoundsFromContours(contours)
        marginLon == (b.west - b.east) \div 10
        marginLat == (b.north - b.south) \div 10
    IN  (b.east + marginLon..b.west - marginLon) \X (b.south + marginLat..b.north - marginLat)

Square(x) == x * x

\* Twice the centroid of a sector, and four times the square of a distance to it.
Centroid2(contours) ==
    LET b == GetBoundsFromContours(contours) IN <<b.east + b.west, b.south + b.north>>
Distance4(p, contours) ==
    Square(2 * p[1] - Centroid2(contours)[1]) + Square(2 * p[2] - Centroid2(contours)[2])

\* The simulator's sectors nearest to a place, of which it takes the first.
Nearest(sectors, p) ==
    {n \in DOMAIN sectors :
        \A k \in DOMAIN sectors :
            Distance4(p, sectors[n].contours) <= Distance4(p, sectors[k].contours)}

FindSectorByLocation(sectors, p) == sectors[Least(Nearest(sectors, p))].sectorId

\* The backend's: the first whose rectangle has the place, borders too, else the
\* nearest one.
ResolveSectorId(sectors, p) ==
    LET within == {n \in DOMAIN sectors :
            IsPointInOrOnBounds(p, GetBoundsFromContours(sectors[n].contours))}
    IN  IF within # {} THEN sectors[Least(within)].sectorId
        ELSE FindSectorByLocation(sectors, p)
================================================================================
