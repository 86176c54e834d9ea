-------------------------- MODULE ForestGrid_proofs --------------------------
(***************************************************************************)
(* Lemmas about the grid of a forest, for any numbers of rows and columns: *)
(* which rectangle a sector is, that the sectors are all of the grid's     *)
(* cells and a place inside of one is in no other, and that the simulator  *)
(* and the backend find the sector such a place was taken from.            *)
(***************************************************************************)
EXTENDS ForestGrid, TLAPS

------------------------------------------------------------------------------
(* Bounds *)

LEMMA LeastIs ==
    ASSUME NEW S \in SUBSET Int, NEW x \in S, \A y \in S : x <= y
    PROVE  Least(S) = x
<1>1. Least(S) \in S /\ \A y \in S : Least(S) <= y
  BY DEF Least
<1>2. Least(S) \in Int /\ Least(S) <= x /\ x <= Least(S)
  BY <1>1
<1>3. QED  BY <1>2

LEMMA MostIs ==
    ASSUME NEW S \in SUBSET Int, NEW x \in S, \A y \in S : y <= x
    PROVE  Most(S) = x
<1>1. Most(S) \in S /\ \A y \in S : Most(S) >= y
  BY DEF Most
<1>2. Most(S) \in Int /\ Most(S) <= x /\ x <= Most(S)
  BY <1>1
<1>3. QED  BY <1>2

\* The bounds with the given sides, as GetBounds and as GetBoundsFromContours names them.
Box(w, e, s, n) == [east |-> e, west |-> w, north |-> n, south |-> s]
ContoursBox(w, e, s, n) == [east |-> w, west |-> e, south |-> s, north |-> n]

\* The bounds of a set of points that has points on all four sides.
LEMMA BoundsAre ==
    ASSUME NEW S \in SUBSET (Int \X Int),
           NEW w, NEW e, NEW s, NEW n,
           \E p \in S : p[1] = w, \E p \in S : p[1] = e,
           \E p \in S : p[2] = s, \E p \in S : p[2] = n,
           \A p \in S : w <= p[1] /\ p[1] <= e /\ s <= p[2] /\ p[2] <= n
    PROVE  /\ GetBounds(S) = Box(w, e, s, n)
           /\ GetBoundsFromContours(S) = ContoursBox(w, e, s, n)
<1> DEFINE X == {p[1] : p \in S}
           Y == {p[2] : p \in S}
<1>1. X \in SUBSET Int /\ Y \in SUBSET Int
  OBVIOUS
<1>2. \A x \in X : w <= x /\ x <= e
  OBVIOUS
<1>3. \A y \in Y : s <= y /\ y <= n
  OBVIOUS
<1>4. w \in X /\ e \in X /\ s \in Y /\ n \in Y
  OBVIOUS
<1>5. /\ GetBounds(S) = Box(Least(X), Most(X), Least(Y), Most(Y))
      /\ GetBoundsFromContours(S) = ContoursBox(Least(X), Most(X), Least(Y), Most(Y))
  BY DEF GetBounds, GetBoundsFromContours, Box, ContoursBox
<1> HIDE DEF X, Y
<1>6. Least(X) = w /\ Most(X) = e /\ Least(Y) = s /\ Most(Y) = n
  BY <1>1, <1>2, <1>3, <1>4, LeastIs, MostIs
<1>7. QED  BY <1>5, <1>6

\* The borders of a rectangle are those of its corners, whatever their order.
LEMMA CornersBounds ==
    ASSUME NEW w \in Int, NEW e \in Int, NEW s \in Int, NEW n \in Int, w <= e, s <= n,
           NEW corners, corners = {w, e} \X {s, n}
    PROVE  /\ GetBounds(corners) = Box(w, e, s, n)
           /\ GetBoundsFromContours(corners) = ContoursBox(w, e, s, n)
<1>1. corners \in SUBSET (Int \X Int)
  OBVIOUS
<1>2. <<w, s>> \in corners /\ <<e, n>> \in corners
  OBVIOUS
<1>3. (\E p \in corners : p[1] = w) /\ (\E p \in corners : p[1] = e)
  BY <1>2
<1>4. (\E p \in corners : p[2] = s) /\ (\E p \in corners : p[2] = n)
  BY <1>2
<1>5. \A p \in corners : w <= p[1] /\ p[1] <= e /\ s <= p[2] /\ p[2] <= n
  OBVIOUS
<1>6. QED  BY <1>1, <1>3, <1>4, <1>5, BoundsAre

------------------------------------------------------------------------------
(* Arithmetic of rows and columns *)

LEMMA DivMod ==
    ASSUME NEW columns \in Nat \ {0}, NEW k \in Nat
    PROVE  /\ k \div columns \in Nat /\ k % columns \in 0..columns - 1
           /\ k = (k \div columns) * columns + (k % columns)
OBVIOUS

LEMMA DivModUnique ==
    ASSUME NEW columns \in Nat \ {0}, NEW r \in Nat, NEW c \in 0..columns - 1
    PROVE  /\ (r * columns + c) \div columns = r
           /\ (r * columns + c) % columns = c
OBVIOUS

LEMMA TimesMonotone ==
    ASSUME NEW a \in Int, NEW b \in Int, NEW s \in Nat, a <= b
    PROVE  a * s <= b * s
OBVIOUS

LEMMA TimesDiv ==
    ASSUME NEW n \in Nat \ {0}, NEW s \in Nat
    PROVE  (n * s) \div n = s
OBVIOUS

\* Row and column of the k-th sector, counted from 0.
RowOf(k, columns) == (k - 1) \div columns
ColumnOf(k, columns) == (k - 1) % columns

\* A sector's row and column are of the grid, and tell the sector.
LEMMA SectorCell ==
    ASSUME NEW rows \in Nat \ {0}, NEW columns \in Nat \ {0}, NEW k \in 1..rows * columns
    PROVE  /\ RowOf(k, columns) \in 0..rows - 1
           /\ ColumnOf(k, columns) \in 0..columns - 1
           /\ k = RowOf(k, columns) * columns + ColumnOf(k, columns) + 1
<1> DEFINE r == RowOf(k, columns)
           c == ColumnOf(k, columns)
<1>1. r \in Nat /\ c \in 0..columns - 1 /\ k - 1 = r * columns + c
  <2>1. k - 1 \in Nat
    OBVIOUS
  <2>2. QED  BY <2>1, DivMod DEF RowOf, ColumnOf
<1>2. r <= rows - 1
  <2>1. SUFFICES ASSUME r >= rows PROVE FALSE
    BY <1>1
  <2>2. rows * columns <= r * columns
    BY <1>1, <2>1, TimesMonotone
  <2>3. rows * columns \in Nat /\ r * columns \in Nat
    BY <1>1
  <2>4. QED  BY <1>1, <2>2, <2>3
<1> HIDE DEF r, c
<1>3. r * columns \in Nat
  BY <1>1
<1>4. QED  BY <1>1, <1>2, <1>3 DEF r, c

LEMMA RowColumnNat ==
    ASSUME NEW rows \in Nat \ {0}, NEW columns \in Nat \ {0}, NEW k \in 1..rows * columns
    PROVE  RowOf(k, columns) \in Nat /\ ColumnOf(k, columns) \in Nat
<1>1. RowOf(k, columns) \in 0..rows - 1 /\ ColumnOf(k, columns) \in 0..columns - 1
  BY SectorCell
<1>2. QED  BY <1>1

\* Every cell of the grid is a sector.
LEMMA CellSector ==
    ASSUME NEW rows \in Nat \ {0}, NEW columns \in Nat \ {0},
           NEW r \in 0..rows - 1, NEW c \in 0..columns - 1
    PROVE  /\ r * columns + c + 1 \in 1..rows * columns
           /\ RowOf(r * columns + c + 1, columns) = r
           /\ ColumnOf(r * columns + c + 1, columns) = c
<1>1. r * columns \in Nat /\ (r + 1) * columns = r * columns + columns
  OBVIOUS
<1>2. (r + 1) * columns <= rows * columns /\ rows * columns \in Nat
  BY TimesMonotone
<1>3. (r * columns + c + 1) - 1 = r * columns + c
  BY <1>1
<1>4. QED  BY <1>1, <1>2, <1>3, DivModUnique DEF RowOf, ColumnOf

------------------------------------------------------------------------------
(* Sectors *)

\* The rectangle of a forest with its southwest corner, and the width and height
\* of its cells.
Area(west, south, wide, high, rows, columns) ==
    Box(west, west + columns * wide, south, south + rows * high)

\* The k-th line of the grid in one direction, counted from the side at base.
Line(base, size, k) == base + k * size

LEMMA LineFacts ==
    ASSUME NEW base \in Int, NEW size \in Nat, NEW k \in Nat
    PROVE  /\ Line(base, size, k) \in Int
           /\ Line(base, size, k + 1) = Line(base, size, k) + size
<1>1. k * size \in Nat /\ (k + 1) * size = k * size + size
  OBVIOUS
<1>2. QED  BY <1>1 DEF Line

LEMMA LinesApart ==
    ASSUME NEW base \in Int, NEW size \in Nat, NEW a \in Nat, NEW b \in Nat, a + 1 <= b
    PROVE  Line(base, size, a) + size <= Line(base, size, b)
<1>1. (a + 1) * size <= b * size /\ (a + 1) * size = a * size + size
  BY TimesMonotone
<1>2. a * size \in Nat /\ b * size \in Nat
  OBVIOUS
<1>3. QED  BY <1>1, <1>2 DEF Line

\* The points of a cell's corners.
Cell(west, south, wide, high, row, column) ==
    {Line(west, wide, column), Line(west, wide, column + 1)}
        \X {Line(south, high, row), Line(south, high, row + 1)}

\* The lines of the grid are as far apart as cells are wide or high.
LEMMA Lines ==
    ASSUME NEW n \in Nat \ {0}, NEW start \in Int, NEW size \in Nat, NEW i \in 0..n
    PROVE  Linspace(start, start + n * size, n + 1)[i] = Line(start, size, i)
<1>1. (start + n * size) - start = n * size /\ (n + 1) - 1 = n
  OBVIOUS
<1>2. (n * size) \div n = size
  BY TimesDiv
<1>3. Linspace(start, start + n * size, n + 1) = [k \in 0..n |-> start + k * size]
  BY <1>1, <1>2 DEF Linspace
<1>4. QED  BY <1>3 DEF Line

\* The last sector of the first row is in the last column, so the grid of new sectors
\* counts from 1.
LEMMA CreatedOneIndexed ==
    ASSUME NEW rows \in Nat \ {0}, NEW columns \in Nat \ {0}
    PROVE  OneIndexed(CreateSectors(rows, columns), rows, columns)
<1> DEFINE n == columns
<1>1. n \in 1..rows * columns /\ ColumnOf(n, columns) = columns - 1
  <2>1. 1 * columns <= rows * columns /\ 1 * columns = columns
    BY TimesMonotone
  <2>2. rows * columns \in Nat
    OBVIOUS
  <2>3. columns \in 1..rows * columns
    BY <2>1, <2>2
  <2>4. (columns - 1) % columns = columns - 1
    <3>1. columns - 1 \in 0..columns - 1 /\ 0 * columns + (columns - 1) = columns - 1
      OBVIOUS
    <3>2. QED  BY <3>1, DivModUnique
  <2>5. QED  BY <2>3, <2>4 DEF ColumnOf
<1>2. CreateSectors(rows, columns)[n].column = columns
  BY <1>1 DEF CreateSectors, ColumnOf
<1>3. DOMAIN CreateSectors(rows, columns) = 1..rows * columns
  BY DEF CreateSectors
<1>4. QED  BY <1>1, <1>2, <1>3 DEF OneIndexed

\* Sector k is the cell of its row and column.
CellAt(sectors, k, columns, west, south, wide, high) ==
    /\ sectors[k].sectorId = k
    /\ sectors[k].contours =
          Cell(west, south, wide, high, RowOf(k, columns), ColumnOf(k, columns))

\* Sectors of a new configuration are.
LEMMA SectorIsCell ==
    ASSUME NEW rows, NEW columns, NEW location, NEW west, NEW south, NEW wide, NEW high,
           NEW k, NEW sectors,
           rows \in Nat \ {0}, columns \in Nat \ {0}, west \in Int, south \in Int,
           wide \in Nat, high \in Nat,
           GetBounds(location) = Area(west, south, wide, high, rows, columns),
           sectors = PreprocessSectors(CreateSectors(rows, columns), rows, columns, location),
           k \in 1..rows * columns
    PROVE  /\ DOMAIN sectors = 1..rows * columns
           /\ CellAt(sectors, k, columns, west, south, wide, high)
<1> DEFINE created == CreateSectors(rows, columns)
           bounds == GetBounds(location)
           r == RowOf(k, columns)
           c == ColumnOf(k, columns)
<1>1. DOMAIN created = 1..rows * columns
  BY DEF CreateSectors
<1>2. created[k].sectorId = k /\ created[k].row = r + 1 /\ created[k].column = c + 1
  BY DEF CreateSectors, RowOf, ColumnOf
<1>3. r \in 0..rows - 1 /\ c \in 0..columns - 1
  BY SectorCell
<1>4. OneIndexed(created, rows, columns)
  BY CreatedOneIndexed
<1>5. (r + 1) - 1 = r /\ (c + 1) - 1 = c
  BY <1>3
<1>6. /\ DOMAIN sectors = 1..rows * columns
      /\ sectors[k].sectorId = k
      /\ sectors[k].contours = Contours(bounds, rows, columns, r, c)
  BY <1>1, <1>2, <1>4, <1>5 DEF PreprocessSectors
<1> HIDE DEF created, r, c
<1>7. Contours(bounds, rows, columns, r, c) = Cell(west, south, wide, high, r, c)
  <2> DEFINE lat == Linspace(bounds.south, bounds.north, rows + 1)
             lng == Linspace(bounds.west, bounds.east, columns + 1)
  <2>1. /\ bounds.south = south /\ bounds.north = south + rows * high
        /\ bounds.west = west /\ bounds.east = west + columns * wide
    BY DEF Area, Box
  <2>2. r \in 0..rows /\ r + 1 \in 0..rows /\ c \in 0..columns /\ c + 1 \in 0..columns
    BY <1>3
  <2>3. lat[r] = Line(south, high, r) /\ lat[r + 1] = Line(south, high, r + 1)
    <3>1. lat = Linspace(south, south + rows * high, rows + 1)
      BY <2>1
    <3> HIDE DEF lat
    <3>2. QED  BY <2>2, <3>1, Lines
  <2>4. lng[c] = Line(west, wide, c) /\ lng[c + 1] = Line(west, wide, c + 1)
    <3>1. lng = Linspace(west, west + columns * wide, columns + 1)
      BY <2>1
    <3> HIDE DEF lng
    <3>2. QED  BY <2>2, <3>1, Lines
  <2>5. Contours(bounds, rows, columns, r, c) =
            {<<lng[c], lat[r]>>, <<lng[c], lat[r + 1]>>,
             <<lng[c + 1], lat[r + 1]>>, <<lng[c + 1], lat[r]>>}
    BY DEF Contours
  <2> HIDE DEF lat, lng
  <2>6. Contours(bounds, rows, columns, r, c) = {lng[c], lng[c + 1]} \X {lat[r], lat[r + 1]}
    BY <2>5
  <2>7. QED  BY <2>3, <2>4, <2>6 DEF Cell
<1>8. QED  BY <1>6, <1>7 DEF CellAt, r, c

\* The bounds of a cell.
LEMMA CellSides ==
    ASSUME NEW west, NEW south, NEW wide, NEW high, NEW r, NEW c,
           west \in Int, south \in Int, wide \in Nat, high \in Nat, r \in Nat, c \in Nat
    PROVE  GetBoundsFromContours(Cell(west, south, wide, high, r, c)) =
               ContoursBox(Line(west, wide, c), Line(west, wide, c + 1),
                           Line(south, high, r), Line(south, high, r + 1))
<1> DEFINE w == Line(west, wide, c)
           e == Line(west, wide, c + 1)
           s == Line(south, high, r)
           n == Line(south, high, r + 1)
<1>1. w \in Int /\ s \in Int /\ e = w + wide /\ n = s + high
  BY LineFacts
<1>2. Cell(west, south, wide, high, r, c) = {w, e} \X {s, n}
  BY DEF Cell
<1> HIDE DEF w, e, s, n
<1>3. e \in Int /\ n \in Int /\ w <= e /\ s <= n
  BY <1>1
<1>4. GetBoundsFromContours({w, e} \X {s, n}) = ContoursBox(w, e, s, n)
  BY <1>1, <1>3, CornersBounds
<1>5. QED  BY <1>2, <1>4 DEF w, e, s, n

------------------------------------------------------------------------------
(* Places *)

\* A coordinate between two neighbouring lines is between, or on, no others.
LEMMA BetweenLines ==
    ASSUME NEW a, NEW b, NEW size, NEW base, NEW x,
           a \in Nat, b \in Nat, size \in Nat, base \in Int, x \in Int,
           Line(base, size, a) < x, x < Line(base, size, a + 1), Line(base, size, b) <= x,
           x <= Line(base, size, b + 1)
    PROVE  a = b
<1>1. /\ Line(base, size, a) \in Int /\ Line(base, size, a + 1) = Line(base, size, a) + size
      /\ Line(base, size, b) \in Int /\ Line(base, size, b + 1) = Line(base, size, b) + size
  BY LineFacts
<1>2. ~(a + 1 <= b)
  BY <1>1, LinesApart
<1>3. ~(b + 1 <= a)
  BY <1>1, LinesApart
<1>4. QED  BY <1>2, <1>3

LEMMA SquareSmaller ==
    ASSUME NEW u \in Int, NEW v \in Int, (-v < u /\ u < v) \/ (v < u /\ u < -v)
    PROVE  Square(u) < Square(v)
<1>1. u * u < v * v
  <2>1. ASSUME NEW w \in Int, -w < u, u < w
        PROVE  u * u < w * w
    <3>1. w - u > 0 /\ w + u > 0
      BY <2>1
    <3>2. (w - u) * (w + u) > 0
      BY <3>1
    <3>3. (w - u) * (w + u) = w * w - u * u
      OBVIOUS
    <3>4. QED  BY <3>2, <3>3
  <2>2. (-v) * (-v) = v * v
    OBVIOUS
  <2>3. QED  BY <2>1, <2>2
<1>2. QED  BY <1>1 DEF Square

\* Twice the distance of x to the middle between two lines.
Off2(x, base, size, k) == 2 * x - (Line(base, size, k) + Line(base, size, k + 1))

\* The middle of the lines around a coordinate is nearer than any other.
LEMMA NearerMiddle ==
    ASSUME NEW a, NEW b, NEW size, NEW base, NEW x,
           a \in Nat, b \in Nat, size \in Nat, base \in Int, x \in Int,
           Line(base, size, a) < x, x < Line(base, size, a + 1), a # b
    PROVE  Square(Off2(x, base, size, a)) < Square(Off2(x, base, size, b))
<1> DEFINE l == Line(base, size, a)
           m == Line(base, size, b)
           u == Off2(x, base, size, a)
           v == Off2(x, base, size, b)
<1>1. /\ l \in Int /\ Line(base, size, a + 1) = l + size
      /\ m \in Int /\ Line(base, size, b + 1) = m + size
  BY LineFacts
<1>2. u = 2 * x - (l + (l + size)) /\ v = 2 * x - (m + (m + size))
  BY <1>1 DEF Off2
<1>3. l < x /\ x < l + size
  BY <1>1
<1>4. (a + 1 <= b => l + size <= m) /\ (b + 1 <= a => m + size <= l)
  BY LinesApart
<1> HIDE DEF l, m, u, v
<1>5. u \in Int /\ v \in Int
  BY <1>1, <1>2
<1>6. CASE a + 1 <= b
  <2>1. v < u /\ u < -v
    BY <1>1, <1>2, <1>3, <1>4, <1>6
  <2>2. QED  BY <1>5, <2>1, SquareSmaller DEF u, v
<1>7. CASE b + 1 <= a
  <2>1. -v < u /\ u < v
    BY <1>1, <1>2, <1>3, <1>4, <1>7
  <2>2. QED  BY <1>5, <2>1, SquareSmaller DEF u, v
<1>8. QED  BY <1>6, <1>7

LEMMA OffInt ==
    ASSUME NEW x, NEW base, NEW size, NEW k,
           x \in Int, base \in Int, size \in Nat, k \in Nat
    PROVE  Square(Off2(x, base, size, k)) \in Int
<1>1. Line(base, size, k) \in Int /\ Line(base, size, k + 1) = Line(base, size, k) + size
  BY LineFacts
<1>2. Off2(x, base, size, k) \in Int
  BY <1>1 DEF Off2
<1>3. QED  BY <1>2 DEF Square

IsPoint(p) == p[1] \in Int /\ p[2] \in Int

\* A place inside of a cell, off its borders.
Inside(p, west, south, wide, high, r, c) ==
    /\ Line(west, wide, c) < p[1] /\ p[1] < Line(west, wide, c + 1)
    /\ Line(south, high, r) < p[2] /\ p[2] < Line(south, high, r + 1)

\* The same with the borders.
Within(p, west, south, wide, high, r, c) ==
    /\ Line(west, wide, c) <= p[1] /\ p[1] <= Line(west, wide, c + 1)
    /\ Line(south, high, r) <= p[2] /\ p[2] <= Line(south, high, r + 1)

LEMMA InsideWithin ==
    ASSUME NEW west, NEW south, NEW wide, NEW high, NEW r, NEW c, NEW p,
           west \in Int, south \in Int, wide \in Nat, high \in Nat, r \in Nat, c \in Nat,
           IsPoint(p), Inside(p, west, south, wide, high, r, c)
    PROVE  Within(p, west, south, wide, high, r, c)
<1>1. /\ Line(west, wide, c) \in Int /\ Line(west, wide, c + 1) = Line(west, wide, c) + wide
      /\ Line(south, high, r) \in Int /\ Line(south, high, r + 1) = Line(south, high, r) + high
  BY LineFacts
<1>2. QED  BY <1>1 DEF Inside, Within, IsPoint

\* What the bounds of a cell say of a place.
LEMMA InBounds ==
    ASSUME NEW west, NEW south, NEW wide, NEW high, NEW r, NEW c, NEW p,
           west \in Int, south \in Int, wide \in Nat, high \in Nat, r \in Nat, c \in Nat,
           IsPoint(p)
    PROVE  /\ IsPointInBounds(p, GetBoundsFromContours(Cell(west, south, wide, high, r, c)))
                  <=> Inside(p, west, south, wide, high, r, c)
           /\ IsPointInOrOnBounds(p, GetBoundsFromContours(Cell(west, south, wide, high, r, c)))
                  <=> Within(p, west, south, wide, high, r, c)
<1> DEFINE w == Line(west, wide, c)
           e == Line(west, wide, c + 1)
           s == Line(south, high, r)
           n == Line(south, high, r + 1)
           b == GetBoundsFromContours(Cell(west, south, wide, high, r, c))
<1>1. b = ContoursBox(w, e, s, n)
  BY CellSides
<1>2. /\ Inside(p, west, south, wide, high, r, c) <=> w < p[1] /\ p[1] < e /\ s < p[2] /\ p[2] < n
      /\ Within(p, west, south, wide, high, r, c) <=> w <= p[1] /\ p[1] <= e /\ s <= p[2] /\ p[2] <= n
  BY DEF Inside, Within
<1> HIDE DEF b, w, e, s, n
<1>3. b.east = w /\ b.west = e /\ b.south = s /\ b.north = n
  BY <1>1 DEF ContoursBox
<1>4. QED  BY <1>2, <1>3 DEF IsPointInBounds, IsPointInOrOnBounds, b

CellDistance(p, west, south, wide, high, i, j) ==
    Square(Off2(p[1], west, wide, j)) + Square(Off2(p[2], south, high, i))

LEMMA DistanceToCell ==
    ASSUME NEW west, NEW south, NEW wide, NEW high, NEW i, NEW j, NEW p,
           west \in Int, south \in Int, wide \in Nat, high \in Nat, i \in Nat, j \in Nat,
           IsPoint(p)
    PROVE  /\ Distance4(p, Cell(west, south, wide, high, i, j)) =
                 CellDistance(p, west, south, wide, high, i, j)
           /\ Distance4(p, Cell(west, south, wide, high, i, j)) \in Int
<1> DEFINE cell == Cell(west, south, wide, high, i, j)
<1>0. GetBoundsFromContours(cell) =
          ContoursBox(Line(west, wide, j), Line(west, wide, j + 1),
                      Line(south, high, i), Line(south, high, i + 1))
  BY CellSides
<1> HIDE DEF cell
<1>1. Centroid2(cell) = <<Line(west, wide, j) + Line(west, wide, j + 1),
                          Line(south, high, i) + Line(south, high, i + 1)>>
  BY <1>0 DEF Centroid2, ContoursBox
<1>2. Distance4(p, cell) =
          Square(Off2(p[1], west, wide, j)) + Square(Off2(p[2], south, high, i))
  BY <1>1 DEF Distance4, Off2
<1>3. p[1] \in Int /\ p[2] \in Int
  BY DEF IsPoint
<1>4. Square(Off2(p[1], west, wide, j)) \in Int /\ Square(Off2(p[2], south, high, i)) \in Int
  BY <1>3, OffInt
<1>5. QED  BY <1>2, <1>4 DEF cell, CellDistance

\* A place inside of a cell is nearer to its centre than to any other cell's.
LEMMA NearerCell ==
    ASSUME NEW west, NEW south, NEW wide, NEW high, NEW r, NEW c, NEW r2, NEW c2, NEW p,
           west \in Int, south \in Int, wide \in Nat, high \in Nat, r \in Nat, c \in Nat,
           r2 \in Nat, c2 \in Nat, IsPoint(p), Inside(p, west, south, wide, high, r, c),
           r # r2 \/ c # c2
    PROVE  CellDistance(p, west, south, wide, high, r, c)
               < CellDistance(p, west, south, wide, high, r2, c2)
<1> DEFINE x == Square(Off2(p[1], west, wide, c))
           x2 == Square(Off2(p[1], west, wide, c2))
           y == Square(Off2(p[2], south, high, r))
           y2 == Square(Off2(p[2], south, high, r2))
<1>2. c # c2 => x < x2
  BY NearerMiddle DEF Inside, IsPoint
<1>3. r # r2 => y < y2
  BY NearerMiddle DEF Inside, IsPoint
<1>4. x \in Int /\ x2 \in Int /\ y \in Int /\ y2 \in Int
  BY OffInt DEF IsPoint
<1>5. (c = c2 => x = x2) /\ (r = r2 => y = y2)
  OBVIOUS
<1> HIDE DEF x, x2, y, y2
<1>6. x + y < x2 + y2
  BY <1>2, <1>3, <1>4, <1>5
<1>7. QED  BY <1>6 DEF x, x2, y, y2, CellDistance

LEMMA NearerCentre ==
    ASSUME NEW west, NEW south, NEW wide, NEW high, NEW r, NEW c, NEW r2, NEW c2, NEW p,
           west \in Int, south \in Int, wide \in Nat, high \in Nat, r \in Nat, c \in Nat,
           r2 \in Nat, c2 \in Nat, IsPoint(p), Inside(p, west, south, wide, high, r, c),
           r # r2 \/ c # c2
    PROVE  Distance4(p, Cell(west, south, wide, high, r, c))
               < Distance4(p, Cell(west, south, wide, high, r2, c2))
<1>1. Distance4(p, Cell(west, south, wide, high, r, c))
          = CellDistance(p, west, south, wide, high, r, c)
  BY DistanceToCell
<1>2. Distance4(p, Cell(west, south, wide, high, r2, c2))
          = CellDistance(p, west, south, wide, high, r2, c2)
  BY DistanceToCell
<1>3. QED  BY <1>1, <1>2, NearerCell

\* Sectors that are the cells of a grid, in the order of their numbers.
AreCells(sectors, rows, columns, west, south, wide, high) ==
    /\ DOMAIN sectors = 1..rows * columns
    /\ \A k \in 1..rows * columns : CellAt(sectors, k, columns, west, south, wide, high)

\* The sectors of a new configuration are.
LEMMA SectorsAreCells ==
    ASSUME NEW rows, NEW columns, NEW location, NEW west, NEW south, NEW wide, NEW high,
           NEW sectors,
           rows \in Nat \ {0}, columns \in Nat \ {0}, west \in Int, south \in Int,
           wide \in Nat, high \in Nat,
           GetBounds(location) = Area(west, south, wide, high, rows, columns),
           sectors = PreprocessSectors(CreateSectors(rows, columns), rows, columns, location)
    PROVE  AreCells(sectors, rows, columns, west, south, wide, high)
<1>1. DOMAIN sectors = 1..rows * columns
  BY DEF PreprocessSectors, CreateSectors
<1>2. ASSUME NEW k \in 1..rows * columns
      PROVE  CellAt(sectors, k, columns, west, south, wide, high)
  BY SectorIsCell
<1>3. QED  BY <1>1, <1>2 DEF AreCells

\* The sectors of a rectangle at the origin with sides of equal sectors are squares.
LEMMA SquaresAreCells ==
    ASSUME NEW rows, NEW columns, NEW side, NEW sectors,
           rows \in Nat \ {0}, columns \in Nat \ {0}, side \in Nat,
           sectors = PreprocessSectors(CreateSectors(rows, columns), rows, columns,
                                       {0, columns * side} \X {0, rows * side})
    PROVE  AreCells(sectors, rows, columns, 0, 0, side, side)
<1> DEFINE w == columns * side
           h == rows * side
           corners == {0, w} \X {0, h}
<1>1. w \in Int /\ h \in Int /\ 0 <= w /\ 0 <= h /\ 0 \in Int /\ 0 + w = w /\ 0 + h = h
  OBVIOUS
<1>2. Area(0, 0, side, side, rows, columns) = Box(0, 0 + w, 0, 0 + h)
  BY DEF Area
<1>3. sectors = PreprocessSectors(CreateSectors(rows, columns), rows, columns, corners)
  OBVIOUS
<1> HIDE DEF w, h
<1>4. GetBounds(corners) = Box(0, w, 0, h)
  BY <1>1, CornersBounds
<1>5. GetBounds(corners) = Area(0, 0, side, side, rows, columns)
  BY <1>1, <1>2, <1>4
<1> HIDE DEF corners
<1>6. QED  BY <1>3, <1>5, SectorsAreCells

LEMMA LineBetween ==
    ASSUME NEW base, NEW size, NEW k, NEW last,
           base \in Int, size \in Nat, k \in Nat, last \in Nat, k <= last
    PROVE  base <= Line(base, size, k) /\ Line(base, size, k) <= Line(base, size, last)
<1>1. 0 <= k * size /\ k * size <= last * size
  BY TimesMonotone
<1>2. k * size \in Nat /\ last * size \in Nat
  OBVIOUS
<1>3. QED  BY <1>1, <1>2 DEF Line

\* The corners of all sectors, and the rectangle they span.
AllCorners(sectors) == UNION {sectors[n].contours : n \in DOMAIN sectors}

LEMMA CornerOfCell ==
    ASSUME NEW rows, NEW columns, NEW west, NEW south, NEW wide, NEW high, NEW sectors,
           NEW r, NEW c, NEW p,
           rows \in Nat \ {0}, columns \in Nat \ {0}, west \in Int, south \in Int,
           wide \in Nat, high \in Nat,
           AreCells(sectors, rows, columns, west, south, wide, high),
           r \in 0..rows - 1, c \in 0..columns - 1, p \in Cell(west, south, wide, high, r, c)
    PROVE  p \in AllCorners(sectors)
<1> DEFINE k == r * columns + c + 1
<1>1. k \in 1..rows * columns /\ RowOf(k, columns) = r /\ ColumnOf(k, columns) = c
  BY CellSector, SMTT(30)
<1> HIDE DEF k
<1>2. k \in DOMAIN sectors /\ CellAt(sectors, k, columns, west, south, wide, high)
  BY <1>1 DEF AreCells
<1>3. sectors[k].contours = Cell(west, south, wide, high, r, c)
  BY <1>1, <1>2 DEF CellAt
<1>4. QED  BY <1>2, <1>3 DEF AllCorners

LEMMA CellsSpan ==
    ASSUME NEW rows, NEW columns, NEW west, NEW south, NEW wide, NEW high, NEW sectors,
           rows \in Nat \ {0}, columns \in Nat \ {0}, west \in Int, south \in Int,
           wide \in Nat, high \in Nat,
           AreCells(sectors, rows, columns, west, south, wide, high)
    PROVE  GetBounds(AllCorners(sectors)) = Area(west, south, wide, high, rows, columns)
<1> DEFINE S == AllCorners(sectors)
           e == Line(west, wide, columns)
           n == Line(south, high, rows)
<1>1. ASSUME NEW p \in S
      PROVE  /\ p[1] \in Int /\ p[2] \in Int /\ p \in Int \X Int
             /\ west <= p[1] /\ p[1] <= e /\ south <= p[2] /\ p[2] <= n
  <2>1. PICK k \in 1..rows * columns : p \in sectors[k].contours
    BY <1>1 DEF AllCorners, AreCells
  <2> DEFINE r == RowOf(k, columns)
             c == ColumnOf(k, columns)
  <2>2. r \in 0..rows - 1 /\ c \in 0..columns - 1
    BY SectorCell
  <2>3. p \in Cell(west, south, wide, high, r, c)
    BY <2>1 DEF AreCells, CellAt
  <2> HIDE DEF r, c
  <2>4. r \in Nat /\ r + 1 \in Nat /\ r <= rows /\ r + 1 <= rows
    BY <2>2
  <2>5. c \in Nat /\ c + 1 \in Nat /\ c <= columns /\ c + 1 <= columns
    BY <2>2
  <2>6. \A i \in {c, c + 1} : /\ west <= Line(west, wide, i) /\ Line(west, wide, i) <= e
                             /\ Line(west, wide, i) \in Int
    BY <2>5, LineBetween, LineFacts
  <2>7. \A i \in {r, r + 1} : /\ south <= Line(south, high, i) /\ Line(south, high, i) <= n
                             /\ Line(south, high, i) \in Int
    BY <2>4, LineBetween, LineFacts
  <2>8. PICK i \in {c, c + 1}, j \in {r, r + 1} :
            p = <<Line(west, wide, i), Line(south, high, j)>>
    BY <2>3 DEF Cell
  <2>9. QED  BY <2>6, <2>7, <2>8
<1>2. Line(west, wide, 0) = west /\ Line(south, high, 0) = south
  BY DEF Line
<1>3. <<west, south>> \in S
  <2>1. 0 \in 0..rows - 1 /\ 0 \in 0..columns - 1
    OBVIOUS
  <2>2. <<west, south>> \in Cell(west, south, wide, high, 0, 0)
    BY <1>2 DEF Cell
  <2>3. QED  BY <2>1, <2>2, CornerOfCell
<1>4. <<e, n>> \in S
  <2>1. rows - 1 \in 0..rows - 1 /\ columns - 1 \in 0..columns - 1
    OBVIOUS
  <2>2. (rows - 1) + 1 = rows /\ (columns - 1) + 1 = columns
    OBVIOUS
  <2>3. <<e, n>> \in Cell(west, south, wide, high, rows - 1, columns - 1)
    BY <2>2 DEF Cell
  <2>4. QED  BY <2>1, <2>3, CornerOfCell
<1> HIDE DEF S, e, n
<1>5. S \in SUBSET (Int \X Int)
  BY <1>1
<1>6. (\E p \in S : p[1] = west) /\ (\E p \in S : p[2] = south)
  BY <1>3
<1>7. (\E p \in S : p[1] = e) /\ (\E p \in S : p[2] = n)
  BY <1>4
<1>8. GetBounds(S) = Box(west, e, south, n)
  BY <1>1, <1>5, <1>6, <1>7, BoundsAre
<1>9. QED  BY <1>8 DEF Area, Line, S, e, n

\* The area over two coordinates a whole number of sectors apart.
LEMMA Divides ==
    ASSUME NEW lo, NEW hi, NEW n,
           lo \in Int, hi \in Int, lo <= hi, n \in Nat \ {0}, (hi - lo) % n = 0
    PROVE  (hi - lo) \div n \in Nat /\ hi = lo + n * ((hi - lo) \div n)
<1>1. hi - lo \in Nat
  OBVIOUS
<1>2. /\ (hi - lo) \div n \in Nat
      /\ hi - lo = ((hi - lo) \div n) * n + ((hi - lo) % n)
  BY <1>1, DivMod
<1> DEFINE q == (hi - lo) \div n
<1> HIDE DEF q
<1>3. q \in Nat /\ hi - lo = q * n + 0
  BY <1>2 DEF q
<1>4. q * n = n * q /\ q * n \in Int
  BY <1>3
<1>5. QED  BY <1>3, <1>4 DEF q

\* A place off the borders of a sector, and one in it or on them.
InsideOf(p, sectors, k) == IsPointInBounds(p, GetBoundsFromContours(sectors[k].contours))
Touches(p, sectors, k) == IsPointInOrOnBounds(p, GetBoundsFromContours(sectors[k].contours))

\* A place inside of a sector is in no other sector and on no other one's border.
LEMMA InsideOfOne ==
    ASSUME NEW rows, NEW columns, NEW west, NEW south, NEW wide, NEW high, NEW sectors,
           NEW k, NEW j, NEW p,
           rows \in Nat \ {0}, columns \in Nat \ {0}, west \in Int, south \in Int,
           wide \in Nat, high \in Nat,
           AreCells(sectors, rows, columns, west, south, wide, high),
           k \in 1..rows * columns, j \in 1..rows * columns, IsPoint(p),
           InsideOf(p, sectors, k), Touches(p, sectors, j)
    PROVE  j = k
<1> DEFINE r == RowOf(k, columns)
           c == ColumnOf(k, columns)
           r2 == RowOf(j, columns)
           c2 == ColumnOf(j, columns)
<1>1. r \in Nat /\ c \in Nat /\ r2 \in Nat /\ c2 \in Nat
  BY RowColumnNat
<1>2. k = r * columns + c + 1 /\ j = r2 * columns + c2 + 1
  BY SectorCell
<1>3. /\ sectors[k].contours = Cell(west, south, wide, high, r, c)
      /\ sectors[j].contours = Cell(west, south, wide, high, r2, c2)
  BY DEF AreCells, CellAt
<1> HIDE DEF r, c, r2, c2
<1>4. Inside(p, west, south, wide, high, r, c)
  BY <1>1, <1>3, InBounds DEF InsideOf
<1>5. Within(p, west, south, wide, high, r2, c2)
  BY <1>1, <1>3, InBounds DEF Touches
<1>6. c = c2 /\ r = r2
  BY <1>1, <1>4, <1>5, BetweenLines DEF Inside, Within, IsPoint
<1>7. QED  BY <1>2, <1>6

\* An order to a place inside of a sector leads to that sector, by the distance of
\* the simulator and by the rectangles of the backend.
LEMMA InsideIsFound ==
    ASSUME NEW rows, NEW columns, NEW west, NEW south, NEW wide, NEW high, NEW sectors,
           NEW k, NEW p,
           rows \in Nat \ {0}, columns \in Nat \ {0}, west \in Int, south \in Int,
           wide \in Nat, high \in Nat,
           AreCells(sectors, rows, columns, west, south, wide, high),
           k \in 1..rows * columns, IsPoint(p),
           InsideOf(p, sectors, k)
    PROVE  FindSectorByLocation(sectors, p) = k /\ ResolveSectorId(sectors, p) = k
<1> DEFINE D(n) == Distance4(p, sectors[n].contours)
<1>1. DOMAIN sectors = 1..rows * columns
  BY DEF AreCells, CellAt
<1>2. ASSUME NEW n \in 1..rows * columns, n # k
      PROVE  D(k) < D(n)
  <2> DEFINE r == RowOf(k, columns)
             c == ColumnOf(k, columns)
             r2 == RowOf(n, columns)
             c2 == ColumnOf(n, columns)
  <2>1. r \in Nat /\ c \in Nat /\ r2 \in Nat /\ c2 \in Nat
    BY RowColumnNat
  <2>2. k = r * columns + c + 1 /\ n = r2 * columns + c2 + 1
    BY SectorCell
  <2>3. /\ sectors[k].contours = Cell(west, south, wide, high, r, c)
        /\ sectors[n].contours = Cell(west, south, wide, high, r2, c2)
    BY DEF AreCells, CellAt
  <2> HIDE DEF r, c, r2, c2
  <2>4. r # r2 \/ c # c2
    BY <1>2, <2>2
  <2>5. Inside(p, west, south, wide, high, r, c)
    BY <2>1, <2>3, InBounds DEF InsideOf
  <2>6. QED  BY <2>1, <2>3, <2>4, <2>5, NearerCentre
<1>3. \A n \in 1..rows * columns : D(n) \in Int
  <2>1. ASSUME NEW n \in 1..rows * columns
        PROVE  D(n) \in Int
    <3>1. RowOf(n, columns) \in Nat /\ ColumnOf(n, columns) \in Nat
      BY RowColumnNat
    <3>2. sectors[n].contours = Cell(west, south, wide, high, RowOf(n, columns),
                                     ColumnOf(n, columns))
      BY DEF AreCells, CellAt
    <3>3. Distance4(p, Cell(west, south, wide, high, RowOf(n, columns), ColumnOf(n, columns)))
              \in Int
      BY <3>1, DistanceToCell
    <3>4. QED  BY <3>2, <3>3
  <2>2. QED  BY <2>1
<1> HIDE DEF D
<1>4. Nearest(sectors, p) = {k}
  <2>1. Nearest(sectors, p) =
            {n \in 1..rows * columns : \A j \in 1..rows * columns : D(n) <= D(j)}
    BY <1>1 DEF Nearest, D
  <2>2. \A j \in 1..rows * columns : D(k) <= D(j)
    BY <1>2, <1>3
  <2>3. \A n \in 1..rows * columns : n # k => ~(D(n) <= D(k))
    BY <1>2, <1>3
  <2>4. QED  BY <2>1, <2>2, <2>3
<1>5. k \in Int /\ Least({k}) = k
  <2>1. k \in Int
    OBVIOUS
  <2>2. {k} \in SUBSET Int /\ \A y \in {k} : k <= y
    BY <2>1
  <2>3. k \in {k}
    OBVIOUS
  <2>4. QED  BY <2>1, <2>2, <2>3, LeastIs
<1>6. FindSectorByLocation(sectors, p) = k
  BY <1>4, <1>5 DEF FindSectorByLocation, AreCells, CellAt
<1>7. ASSUME NEW n \in 1..rows * columns, Touches(p, sectors, n)
      PROVE  n = k
  BY <1>7, InsideOfOne
<1> DEFINE within == {n \in DOMAIN sectors : Touches(p, sectors, n)}
<1>8. within = {k}
  <2>1. k \in within
    <3>1. RowOf(k, columns) \in Nat /\ ColumnOf(k, columns) \in Nat
      BY RowColumnNat
    <3>2. sectors[k].contours = Cell(west, south, wide, high, RowOf(k, columns),
                                     ColumnOf(k, columns))
      BY DEF AreCells, CellAt
    <3>3. Within(p, west, south, wide, high, RowOf(k, columns), ColumnOf(k, columns))
      <4>1. Inside(p, west, south, wide, high, RowOf(k, columns), ColumnOf(k, columns))
        BY <3>1, <3>2, InBounds DEF InsideOf
      <4>2. QED  BY <3>1, <4>1, InsideWithin
    <3>4. Touches(p, sectors, k)
      BY <3>1, <3>2, <3>3, InBounds DEF Touches
    <3>5. QED  BY <1>1, <3>4
  <2>2. \A n \in within : n = k
    BY <1>1, <1>7
  <2>3. QED  BY <2>1, <2>2
<1>9. ResolveSectorId(sectors, p) = k
  BY <1>5, <1>8 DEF ResolveSectorId, AreCells, CellAt, Touches
<1>10. QED  BY <1>6, <1>9

\* The places an order may name are off the borders if a tenth of a sector is a unit
\* or more.
LEMMA PositionsAreInside ==
    ASSUME NEW west, NEW south, NEW wide, NEW high, NEW r, NEW c, NEW p,
           west \in Int, south \in Int, wide \in Nat, high \in Nat, wide >= 10, high >= 10,
           r \in Nat, c \in Nat,
           p \in PositionsInSector(Cell(west, south, wide, high, r, c))
    PROVE  /\ p \in Int \X Int
           /\ IsPointInBounds(p, GetBoundsFromContours(Cell(west, south, wide, high, r, c)))
<1> DEFINE w == Line(west, wide, c)
           e == Line(west, wide, c + 1)
           s == Line(south, high, r)
           n == Line(south, high, r + 1)
           b == GetBoundsFromContours(Cell(west, south, wide, high, r, c))
<1>1. b = ContoursBox(w, e, s, n)
  BY CellSides
<1>2. b.east = w /\ b.west = e /\ b.south = s /\ b.north = n
  BY <1>1 DEF ContoursBox
<1>3. w \in Int /\ s \in Int /\ e = w + wide /\ n = s + high
  BY LineFacts
<1>4. PositionsInSector(Cell(west, south, wide, high, r, c)) =
          (b.east + ((b.west - b.east) \div 10)..b.west - ((b.west - b.east) \div 10))
          \X (b.south + ((b.north - b.south) \div 10)..b.north - ((b.north - b.south) \div 10))
  BY DEF PositionsInSector
<1> HIDE DEF b, w, e, s, n
<1>5. wide \div 10 >= 1 /\ wide \div 10 \in Int /\ high \div 10 >= 1 /\ high \div 10 \in Int
  OBVIOUS
<1>6. p \in (w + (wide \div 10)..e - (wide \div 10)) \X (s + (high \div 10)..n - (high \div 10))
  BY <1>2, <1>3, <1>4
<1>7. /\ p \in Int \X Int
      /\ w < p[1] /\ p[1] < e /\ s < p[2] /\ p[2] < n
  BY <1>3, <1>5, <1>6
<1>8. QED  BY <1>2, <1>7 DEF IsPointInBounds, b
================================================================================
