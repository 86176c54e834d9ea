--------------------------- MODULE EditorPages_proofs ---------------------------
(***************************************************************************)
(* The pages on the configuration service keep what they promise, for any  *)
(* grid, number of items and number of requests.                           *)
(***************************************************************************)
EXTENDS EditorPages, ForestGrid_proofs, FiniteSetTheorems, SequenceTheorems,
        WellFoundedInduction

------------------------------------------------------------------------------
(* The documents *)

\* The folders and files of the root, which is the first document, as the workspace
\* lists them, and all that is below these.
AtRoot ==
    {n \in DOMAIN nodes : nodes[n].parent = 1 /\ nodes[n].name \notin {"root", "settings"}}
Below == {n \in DOMAIN nodes : n \in AtRoot \/ nodes[n].above \cap AtRoot # {}}

\* Where items are: off the borders, or where the form has them before one is drawn.
Spots == {DefaultMapLocation} \cup
            {p \in Int \X Int : \E s \in SectorIds : InsideOf(p, Sectors, s)}
Items == [id : Nat, place : Spots, of : Nat]
Lists == Seq(Items)

Names == {"root", "other", "configuration", "settings", "sim_settings", "empty",
          "unparsable"}

Documents ==
    [name : Names, parent : {Null} \cup Nat, above : SUBSET Nat, folder : BOOLEAN,
     data : {Null} \cup Nat \cup Lists]

\* The documents are a forest: the folders above a folder are above what it holds.
\* One tree has the root, in which every file is a configuration but that of the
\* service's settings folder; the icon's settings folders are trees of their own.
TreeOK ==
    /\ nodes \in Seq(Documents)
    /\ TopLevel("root") = {1}
    /\ \A n \in DOMAIN nodes :
        /\ nodes[n].above \subseteq DOMAIN nodes
        /\ IF nodes[n].parent = Null THEN nodes[n].above = {}
           ELSE nodes[n].parent \in nodes[n].above
        /\ \A a \in nodes[n].above : nodes[a].above \subseteq nodes[n].above
    /\ \A n \in Below :
        /\ nodes[n].above \cap SettingsFolders = {}
        /\ ~nodes[n].folder => nodes[n].name = "configuration"
    /\ ConfigurationFiles \subseteq Below
    /\ \A n \in ConfigurationFiles : nodes[n].data \in Lists
    /\ \A n \in SettingsFiles : nodes[n].data \in {Null} \cup Nat

------------------------------------------------------------------------------
(* The workspace *)

Kinds == {"folder", "configuration", "select"}
Fetches == [of : {Null} \cup Below, n : Nat, for : {"list", "find"},
            nodes : {Null} \cup SUBSET Below]
Orders == [kind : Kinds, place : {Null} \cup Below, shown : {Null} \cup Below,
           n : Nat, served : BOOLEAN, mine : BOOLEAN]

FetchOK(f) == f \in Fetches /\ (f.for = "find" => f.nodes = Null)
OrderOK(o) == o \in Orders /\ (~o.served => o.place # Null)

WorkspaceOK ==
    /\ workspace \in [parent : {Null} \cup Below, nodes : SUBSET Below]
    /\ dialog \in {Null} \cup [kind : Kinds, selected : {Null} \cup Below]
    /\ \A f \in fetches : FetchOK(f)
    /\ \A o \in orders : OrderOK(o)

Listings == {f \in fetches : f.for = "list"}

\* A creation that was served and has not been answered: the list is read after it.
Made(o) == o.mine /\ o.served /\ o.kind # "select"

IsCurrent ==
    /\ \/ workspace.nodes \in {{}, ShownOf(workspace.parent)}
       \/ Listings # {}
       \/ \E o \in orders : Made(o)
    /\ \A f \in Listings : f.nodes # Null =>
        \/ f.nodes = ShownOf(f.of)
        \/ \E g \in Listings : g # f
        \/ \E o \in orders : Made(o)

Current == strains \cap {"unread", "outrun"} = {} => IsCurrent

------------------------------------------------------------------------------
(* The settings *)

Drawers == [type : {Null, "settings", "workspace"}, open : BOOLEAN]

SettingsOK ==
    /\ drawer \in Drawers
    /\ checks \subseteq [n : Nat, was : Drawers, folder : {Null} \cup Nat,
                         at : {"nodes", "folder", "children", "file", "done"}]
    /\ \A c \in checks : c.at \in {"children", "file"} => c.folder \in SettingsFolders
    /\ files \subseteq SettingsFiles
    /\ setting \in {Null, Custom} \cup SettingsFiles
    /\ settings \in Nat /\ isLoading \in BOOLEAN
    /\ reads \subseteq [of : SettingsFiles, n : Nat, data : {Null} \cup Nat, served : BOOLEAN]
    /\ writes \subseteq [file : SettingsFiles, data : Nat, at : {"get", "put", "answer"},
                         mine : BOOLEAN, n : Nat]

SimSettings == {n \in SettingsFiles : IsSimSettings(n)}

IsOneFolder ==
    /\ \A c, d \in checks : c = d
    /\ \A p, q \in SettingsFolders : p = q
    /\ \A m, n \in SimSettings : m = n
    /\ \A c \in checks : c.at = "folder" => SettingsFolders = {}
    /\ \A c \in checks : c.at = "file" => \A n \in GetNodeChildren(c.folder) : ~IsSimSettings(n)

OneFolder == "twice" \notin strains => IsOneFolder

AreOwn ==
    /\ \A n \in SettingsFiles : nodes[n].data = OwnData(n)
    /\ \A r \in reads : r.served => r.data = OwnData(r.of)
    /\ setting \notin {Null, Custom} /\ ~isLoading => settings = OwnData(setting)
    /\ \A w \in writes : w.data = OwnData(w.file)

OwnSettings == "misread" \notin strains => AreOwn

------------------------------------------------------------------------------
(* The editor *)

EditorOK ==
    /\ items \in Lists
    /\ file \in {Null} \cup ConfigurationFiles
    /\ sector \in {Null} \cup SectorIds
    /\ modal \in {Null} \cup [drawing : BOOLEAN, place : Spots]
    /\ modal # Null => sector # Null
    /\ sector # Null => file # Null
    /\ opens \subseteq [node : ConfigurationFiles, n : Nat, data : {Null} \cup Lists]
    /\ saves \subseteq [file : ConfigurationFiles, n : Nat, items : Lists,
                        item : {Null} \cup Items, served : BOOLEAN]

AllOf(list, f) == \A k \in DOMAIN list : list[k].of = f

AreApart ==
    /\ AllOf(items, file)
    /\ \A n \in ConfigurationFiles : AllOf(nodes[n].data, n)
    /\ \A o \in opens : o.data # Null => AllOf(o.data, o.node)
    /\ \A w \in saves :
        /\ w.file = file /\ AllOf(w.items, w.file)
        /\ w.item # Null => w.item.of = w.file

Apart == "mixed" \notin strains => AreApart

Distinct(list) == \A j, k \in DOMAIN list : list[j].id = list[k].id => j = k
Fresh(item, list) == \A k \in DOMAIN list : list[k].id # item.id

\* A new item under way is the only one, and neither the store nor another change
\* under way has its id.
AreUnique ==
    /\ Distinct(items)
    /\ \A n \in ConfigurationFiles : Distinct(nodes[n].data)
    /\ \A o \in opens : o.data # Null => Distinct(o.data)
    /\ \A w \in saves : Distinct(w.items)
    /\ \A w \in saves : w.item # Null =>
        /\ Fresh(w.item, items)
        /\ \A v \in saves : v # w => v.item = Null /\ Fresh(w.item, v.items)

Unique == strains \cap {"doubled", "mixed"} = {} => AreUnique

IInv ==
    /\ asked \in Nat
    /\ TreeOK /\ WorkspaceOK /\ SettingsOK /\ EditorOK
    /\ Current /\ OneFolder /\ OwnSettings /\ Apart /\ Unique
------------------------------------------------------------------------------
(* Numbers and lists *)

LEMMA LeastNumber ==
    ASSUME NEW S, S \subseteq Nat, S # {}
    PROVE  \E x \in S : \A y \in S : x <= y
<1>1. IsWellFoundedOn(OpToRel(<, Nat), Nat)
  BY NatLessThanWellFounded
<1>2. PICK x \in S : \A y \in S : <<y, x>> \notin OpToRel(<, Nat)
  BY <1>1, WFMin, Zenon
<1>3. ASSUME NEW y \in S
      PROVE  x <= y
  <2>1. ~(y < x)
    BY <1>2 DEF OpToRel
  <2>2. x \in Nat /\ y \in Nat
    OBVIOUS
  <2>3. QED  BY <2>1, <2>2
<1>4. QED  BY <1>3

LEMMA FirstIs ==
    ASSUME NEW S, S \subseteq Nat, S # {}
    PROVE  First(S) \in S
<1>1. \E n \in S : \A k \in S : n <= k
  BY LeastNumber
<1>2. QED  BY <1>1 DEF First

LEMMA ListFacts ==
    ASSUME NEW list, list \in Lists
    PROVE  /\ Len(list) \in Nat /\ DOMAIN list = 1..Len(list)
           /\ \A k \in DOMAIN list : list[k] \in Items
<1>1. QED  BY LenProperties, ElementOfSeq DEF Lists

\* The ids of a list have a greatest one.
LEMMA MostOfIds ==
    ASSUME NEW list, list \in Lists, list # <<>>
    PROVE  /\ Most(Ids(list)) \in Nat
           /\ \A k \in DOMAIN list : list[k].id <= Most(Ids(list))
<1> DEFINE last == Len(list)
           Bounded(n) == \E b \in Nat : \A k \in 1..n : list[k].id <= b
           failing == {n \in 0..last : ~Bounded(n)}
<1>1. /\ last \in Nat \ {0} /\ DOMAIN list = 1..last
      /\ \A k \in 1..last : list[k].id \in Nat
  BY ListFacts, EmptySeq DEF Items, Lists
<1> HIDE DEF last
<1>2. failing = {}
  <2>1. SUFFICES ASSUME failing # {}
                 PROVE  FALSE
    OBVIOUS
  <2>2. failing \subseteq Nat
    BY <1>1
  <2>3. PICK n \in failing : \A m \in failing : n <= m
    BY <2>1, <2>2, LeastNumber
  <2>4. Bounded(0)
    <3>1. \A k \in 1..0 : list[k].id <= 0
      OBVIOUS
    <3>2. QED  BY <3>1
  <2>5. n # 0 /\ n \in 0..last
    BY <2>3, <2>4
  <2>6. n \in Nat /\ n - 1 \in 0..last /\ ~(n <= n - 1)
    BY <1>1, <2>5
  <2>7. PICK b \in Nat : \A k \in 1..n - 1 : list[k].id <= b
    <3>1. n - 1 \notin failing
      BY <2>3, <2>6, Zenon
    <3>2. Bounded(n - 1)
      BY <2>6, <3>1, Zenon
    <3>3. QED  BY <3>2
  <2> HIDE DEF Bounded, failing
  <2>8. PICK i \in Nat : i = list[n].id
    <3>1. n \in 1..last
      BY <1>1, <2>5
    <3>2. QED  BY <1>1, <3>1
  <2>9. \A k \in 1..n : list[k].id <= b + i
    <3>1. ASSUME NEW k \in 1..n, k # n
          PROVE  list[k].id <= b
      <4>1. k \in 1..n - 1
        BY <2>6, <3>1
      <4>2. QED  BY <2>7, <4>1
    <3>2. \A k \in 1..n : list[k].id \in Nat
      BY <1>1, <2>5
    <3>3. \A a \in Nat : a <= b \/ a = i => a <= b + i
      OBVIOUS
    <3>4. QED  BY <2>8, <3>1, <3>2, <3>3
  <2>10. Bounded(n)
    <3>1. b + i \in Nat
      OBVIOUS
    <3>2. QED  BY <2>9, <3>1 DEF Bounded
  <2>11. QED  BY <2>3, <2>10 DEF failing
<1> DEFINE bounds == {b \in Nat : \A k \in 1..last : list[k].id <= b}
<1>3. bounds # {} /\ bounds \subseteq Nat
  <2>1. last \in 0..last
    BY <1>1
  <2>2. Bounded(last)
    BY <1>2, <2>1
  <2>3. QED  BY <2>2
<1>4. PICK top \in bounds : \A b \in bounds : top <= b
  BY <1>3, LeastNumber
<1>5. \E k \in 1..last : list[k].id = top
  <2>1. SUFFICES ASSUME \A k \in 1..last : list[k].id # top
                 PROVE  FALSE
    OBVIOUS
  <2>2. \A k \in 1..last : list[k].id <= top - 1
    BY <1>1, <1>4, <2>1
  <2>3. 1 \in 1..last
    BY <1>1
  <2>4. list[1].id \in Nat /\ list[1].id <= top - 1
    BY <1>1, <2>2, <2>3
  <2>5. top - 1 \in Nat
    BY <2>4
  <2>6. top - 1 \in bounds
    BY <2>2, <2>5
  <2>7. QED  BY <1>4, <2>6
<1>6. Ids(list) = {list[k].id : k \in 1..last}
  BY <1>1 DEF Ids
<1>7. Ids(list) \in SUBSET Int /\ top \in Ids(list) /\ \A y \in Ids(list) : y <= top
  BY <1>1, <1>4, <1>5, <1>6
<1>8. Most(Ids(list)) = top
  BY <1>7, MostIs
<1>9. QED  BY <1>1, <1>4, <1>8

\* The next id is free.
LEMMA NextIdIsFree ==
    ASSUME items \in Lists
    PROVE  NextId \in Nat /\ \A k \in DOMAIN items : items[k].id # NextId
<1>1. CASE items = <<>>
  BY <1>1, EmptySeq DEF NextId
<1>2. CASE items # <<>>
  <2>1. NextId = Most(Ids(items)) + 1
    BY <1>2 DEF NextId
  <2>2. /\ Most(Ids(items)) \in Nat
        /\ \A k \in DOMAIN items : items[k].id <= Most(Ids(items))
    BY <1>2, MostOfIds
  <2>3. \A k \in DOMAIN items : items[k].id \in Nat
    BY ListFacts DEF Items
  <2>4. QED  BY <2>1, <2>2, <2>3
<1>3. QED  BY <1>1, <1>2

\* A member of a set of numbers has every rank.
LEMMA Ranks ==
    ASSUME NEW n \in Nat, NEW kept, kept \subseteq 1..n
    PROVE  /\ Cardinality(kept) \in Nat
           /\ \A i \in 1..Cardinality(kept) :
                \E k \in kept : Cardinality({j \in kept : j <= k}) = i
<1> DEFINE UpTo(k) == {j \in kept : j <= k}
           card == Cardinality(kept)
           rank == [k \in kept |-> Cardinality(UpTo(k))]
<1>1. IsFiniteSet(kept) /\ card \in Nat
  <2>1. IsFiniteSet(1..n)
    BY FS_Interval
  <2>2. IsFiniteSet(kept)
    BY <2>1, FS_Subset
  <2>3. QED  BY <2>2, FS_CardinalityType
<1>2. ASSUME NEW k \in kept
      PROVE  IsFiniteSet(UpTo(k)) /\ Cardinality(UpTo(k)) \in 1..card
  <2>1. UpTo(k) \subseteq kept
    OBVIOUS
  <2>2. IsFiniteSet(UpTo(k)) /\ Cardinality(UpTo(k)) <= card
    BY <1>1, <2>1, FS_Subset
  <2>3. Cardinality(UpTo(k)) \in Nat
    BY <2>2, FS_CardinalityType
  <2>4. k \in UpTo(k)
    OBVIOUS
  <2>5. Cardinality(UpTo(k)) # 0
    BY <2>2, <2>4, FS_EmptySet
  <2> HIDE DEF UpTo, card
  <2>6. QED  BY <1>1, <2>2, <2>3, <2>5
<1>3. ASSUME NEW a \in kept, NEW b \in kept, a < b
      PROVE  Cardinality(UpTo(a)) # Cardinality(UpTo(b))
  <2>1. a \in 1..n /\ b \in 1..n
    OBVIOUS
  <2>2. UpTo(a) \subseteq UpTo(b) /\ b \in UpTo(b) /\ b \notin UpTo(a)
    <3>1. \A j \in kept : j \in Int
      OBVIOUS
    <3>2. \A j \in kept : j <= a => j <= b
      BY <1>3, <2>1, <3>1
    <3>3. b <= b /\ ~(b <= a)
      BY <1>3, <2>1
    <3>4. QED  BY <3>2, <3>3, Zenon
  <2>3. IsFiniteSet(UpTo(b))
    BY <1>2
  <2> HIDE DEF UpTo
  <2>4. QED  BY <2>2, <2>3, FS_Subset
<1>4. rank \in Injection(kept, 1..card)
  <2>1. rank \in [kept -> 1..card]
    BY <1>2
  <2>2. ASSUME NEW a \in kept, NEW b \in kept, a # b
        PROVE  Cardinality(UpTo(a)) # Cardinality(UpTo(b))
    <3>1. a \in 1..n /\ b \in 1..n
      OBVIOUS
    <3>2. a < b \/ b < a
      BY <2>2, <3>1
    <3> HIDE DEF UpTo
    <3>3. QED  BY <1>3, <3>2
  <2> HIDE DEF UpTo
  <2>3. DOMAIN rank = kept /\ \A k \in kept : rank[k] = Cardinality(UpTo(k))
    OBVIOUS
  <2> HIDE DEF rank
  <2>4. IsInjective(rank)
    BY <2>2, <2>3, ZenonT(40) DEF IsInjective
  <2>5. QED  BY <2>1, <2>4 DEF Injection
<1>5. IsFiniteSet(1..card) /\ Cardinality(1..card) = card
  <2> HIDE DEF card
  <2>1. IsFiniteSet(1..card) /\ Cardinality(1..card) = IF 1 > card THEN 0 ELSE card - 1 + 1
    BY <1>1, FS_Interval
  <2>2. QED  BY <1>1, <2>1
<1> HIDE DEF rank
<1>6. rank \in Surjection(kept, 1..card)
  BY <1>4, <1>5, FS_Injection DEF card
<1> USE DEF rank
<1>7. \A i \in 1..card : \E k \in kept : rank[k] = i
  BY <1>6 DEF Surjection
<1>8. QED  BY <1>1, <1>7

\* What is left of the items without those of an id: some of them, each at most once.
LEMMA WithoutIs ==
    ASSUME items \in Lists, NEW id
    PROVE  /\ Without(id) \in Lists
           /\ \A i \in DOMAIN Without(id) : \E k \in DOMAIN items : Without(id)[i] = items[k]
           /\ Distinct(items) => Distinct(Without(id))
<1> DEFINE kept == {k \in DOMAIN items : items[k].id # id}
           card == Cardinality(kept)
           IsNth(k, i) == Cardinality({j \in kept : j <= k}) = i
           Nth(i) == CHOOSE k \in kept : IsNth(k, i)
           list == [i \in 1..card |-> items[Nth(i)]]
<1>1. Without(id) = list
  BY DEF Without
<1>2. /\ Len(items) \in Nat /\ DOMAIN items = 1..Len(items)
      /\ \A k \in DOMAIN items : items[k] \in Items
  BY ListFacts
<1>3. kept \subseteq DOMAIN items
  OBVIOUS
<1> HIDE DEF kept
<1>4. card \in Nat /\ \A i \in 1..card : \E k \in kept : IsNth(k, i)
  BY <1>2, <1>3, Ranks
<1> HIDE DEF IsNth, card
<1>5. \A i \in 1..card : Nth(i) \in kept /\ IsNth(Nth(i), i)
  BY <1>4
<1>6. \A i, j \in 1..card : Nth(i) = Nth(j) => i = j
  BY <1>5, ZenonT(40) DEF IsNth
<1> HIDE DEF Nth
<1>7. list \in Lists
  <2>1. \A i \in 1..card : items[Nth(i)] \in Items
    BY <1>2, <1>3, <1>5
  <2> DEFINE e(i) == items[Nth(i)]
  <2>2. \A i \in 1..card : e(i) \in Items
    BY <2>1
  <2> HIDE DEF e
  <2>3. [i \in 1..card |-> e(i)] \in Seq(Items)
    BY <1>4, <2>2, IsASeq
  <2>4. QED  BY <2>3 DEF Lists, e
<1>8. DOMAIN list = 1..card /\ \A i \in 1..card : list[i] = items[Nth(i)]
  OBVIOUS
<1> HIDE DEF list
<1>9. \A i \in DOMAIN list : \E k \in DOMAIN items : list[i] = items[k]
  BY <1>3, <1>5, <1>8
<1>10. ASSUME Distinct(items)
       PROVE  Distinct(list)
  <2>1. \A i \in 1..card : Nth(i) \in DOMAIN items
    BY <1>3, <1>5
  <2>2. QED  BY <1>6, <1>8, <1>10, <2>1 DEF Distinct
<1>11. QED  BY <1>1, <1>7, <1>9, <1>10

------------------------------------------------------------------------------
(* Places *)

LEMMA EditorCells == AreCells(Sectors, Rows, Columns, 0, 0, Side, Side)
<1>1. Rows \in Nat \ {0} /\ Columns \in Nat \ {0} /\ Side \in Nat
  BY GridAssumption
<1>2. QED  BY <1>1, SquaresAreCells DEF Sectors

LEMMA SectorIsSquare ==
    ASSUME NEW s, s \in SectorIds
    PROVE  /\ RowOf(s, Columns) \in Nat /\ ColumnOf(s, Columns) \in Nat
           /\ SectorOf(Sectors, s) = {s}
           /\ Sectors[s].contours =
                Cell(0, 0, Side, Side, RowOf(s, Columns), ColumnOf(s, Columns))
<1>1. Rows \in Nat \ {0} /\ Columns \in Nat \ {0} /\ s \in 1..Rows * Columns
  BY GridAssumption DEF SectorIds
<1>2. RowOf(s, Columns) \in Nat /\ ColumnOf(s, Columns) \in Nat
  BY <1>1, RowColumnNat
<1>3. /\ DOMAIN Sectors = 1..Rows * Columns
      /\ \A k \in 1..Rows * Columns : CellAt(Sectors, k, Columns, 0, 0, Side, Side)
  BY EditorCells DEF AreCells
<1>4. \A k \in 1..Rows * Columns : Sectors[k].sectorId = k
  BY <1>3 DEF CellAt
<1>5. SectorOf(Sectors, s) = {s}
  BY <1>1, <1>3, <1>4 DEF SectorOf
<1>6. QED  BY <1>1, <1>2, <1>3, <1>5 DEF CellAt

\* A drawn place is one off the borders of the selected sector.
LEMMA DrawnIsSpot ==
    ASSUME NEW p \in Points, NEW s \in SectorIds, IsPointInBounds(p, BoundsOf(s))
    PROVE  p \in Spots
<1>1. p \in Int \X Int
  <2>1. p \in (0..Columns * Side) \X (0..Rows * Side)
    BY GridAssumption
  <2>2. QED  BY <2>1
<1>2. InsideOf(p, Sectors, s)
  BY DEF InsideOf, BoundsOf
<1>3. QED  BY <1>1, <1>2 DEF Spots

LEMMA SpotInOneSector ==
    ASSUME NEW p \in Spots, NEW s \in SectorIds, NEW t \in SectorIds,
           ObjectWithinSector(Sectors, s, p), ObjectWithinSector(Sectors, t, p)
    PROVE  s = t
<1>1. Touches(p, Sectors, s) /\ Touches(p, Sectors, t)
  BY SectorIsSquare DEF ObjectWithinSector, Touches
<1>2. CASE p = DefaultMapLocation
  <2> DEFINE r == RowOf(s, Columns)
             c == ColumnOf(s, Columns)
  <2>1. r \in Nat /\ c \in Nat /\ Side \in Nat /\ 0 \in Int
    BY SectorIsSquare, GridAssumption
  <2>2. Sectors[s].contours = Cell(0, 0, Side, Side, r, c)
    BY SectorIsSquare
  <2> HIDE DEF r, c
  <2>3. IsPoint(p) /\ p[1] = -1
    BY <1>2 DEF IsPoint, DefaultMapLocation
  <2>4. Within(p, 0, 0, Side, Side, r, c)
    BY <1>1, <2>1, <2>2, <2>3, InBounds DEF Touches
  <2>5. 0 <= Line(0, Side, c) /\ Line(0, Side, c) \in Int
    <3>1. c <= c
      BY <2>1
    <3>2. QED  BY <2>1, <3>1, LineBetween, LineFacts
  <2>6. QED  BY <2>3, <2>4, <2>5 DEF Within
<1>3. CASE p # DefaultMapLocation
  <2>1. PICK k \in SectorIds : InsideOf(p, Sectors, k)
    BY <1>3 DEF Spots
  <2>2. p \in Int \X Int
    BY <1>3 DEF Spots
  <2>3. IsPoint(p)
    BY <2>2 DEF IsPoint
  <2>4. /\ Rows \in Nat \ {0} /\ Columns \in Nat \ {0} /\ Side \in Nat /\ 0 \in Int
        /\ k \in 1..Rows * Columns /\ s \in 1..Rows * Columns /\ t \in 1..Rows * Columns
    BY GridAssumption DEF SectorIds
  <2>5. s = k /\ t = k
    BY <1>1, <2>1, <2>3, <2>4, EditorCells, InsideOfOne
  <2>6. QED  BY <2>5
<1>4. QED  BY <1>2, <1>3

LEMMA MiddleIsSpot == <<Side \div 2, Side \div 2>> \in Spots
<1> DEFINE m == Side \div 2
           p == <<m, m>>
<1>1. Side \in Nat /\ Rows \in Nat \ {0} /\ Columns \in Nat \ {0} /\ 0 \in Int
  BY GridAssumption
<1>2. m \in Int /\ 0 < m /\ m < Side
  BY GridAssumption
<1>3. 1 \in SectorIds
  <2>1. 0 * Columns + 0 + 1 \in 1..Rows * Columns
    <3>1. 0 \in 0..Rows - 1 /\ 0 \in 0..Columns - 1
      BY <1>1
    <3>2. QED  BY <1>1, <3>1, CellSector
  <2>2. 0 * Columns + 0 + 1 = 1
    BY <1>1
  <2>3. QED  BY <2>1, <2>2 DEF SectorIds
<1>4. RowOf(1, Columns) = 0 /\ ColumnOf(1, Columns) = 0
  BY <1>1 DEF RowOf, ColumnOf
<1> HIDE DEF m
<1>5. Sectors[1].contours = Cell(0, 0, Side, Side, 0, 0)
  BY <1>3, <1>4, SectorIsSquare
<1>6. IsPoint(p) /\ p[1] = m /\ p[2] = m /\ p \in Int \X Int
  BY <1>2 DEF IsPoint
<1>7. Line(0, Side, 0) = 0 /\ Line(0, Side, 0 + 1) = Side
  BY <1>1 DEF Line
<1> HIDE DEF p
<1>8. Inside(p, 0, 0, Side, Side, 0, 0)
  BY <1>2, <1>6, <1>7 DEF Inside
<1>9. IsPointInBounds(p, GetBoundsFromContours(Cell(0, 0, Side, Side, 0, 0)))
  <2>1. 0 \in Nat
    OBVIOUS
  <2>2. QED  BY <1>1, <1>6, <1>8, <2>1, InBounds
<1>10. InsideOf(p, Sectors, 1)
  BY <1>5, <1>9 DEF InsideOf
<1>11. p \in Spots
  BY <1>3, <1>6, <1>10 DEF Spots
<1>12. QED  BY <1>11 DEF p, m

\* A list without two items of one id has as many ids as items.
LEMMA DistinctIds ==
    ASSUME NEW list \in Lists, Distinct(list)
    PROVE  Cardinality(Ids(list)) = Len(list)
<1> DEFINE f == [k \in 1..Len(list) |-> list[k].id]
<1>1. Len(list) \in Nat /\ DOMAIN list = 1..Len(list)
  BY ListFacts
<1>2. Ids(list) = {list[k].id : k \in 1..Len(list)}
  BY <1>1 DEF Ids
<1>3. f \in Surjection(1..Len(list), Ids(list))
  BY <1>2 DEF Surjection
<1>4. f \in Injection(1..Len(list), Ids(list))
  BY <1>1, <1>2 DEF Injection, IsInjective, Distinct
<1>5. IsFiniteSet(1..Len(list)) /\ Cardinality(1..Len(list)) = Len(list)
  <2> DEFINE n == Len(list)
  <2>1. n \in Nat
    BY <1>1
  <2> HIDE DEF n
  <2>2. IsFiniteSet(1..n) /\ Cardinality(1..n) = IF 1 > n THEN 0 ELSE n - 1 + 1
    BY <2>1, FS_Interval
  <2>3. Cardinality(1..n) = n
    BY <2>1, <2>2
  <2>4. QED  BY <2>2, <2>3 DEF n
<1> HIDE DEF f
<1>6. Cardinality(Ids(list)) = Cardinality(1..Len(list))
  BY <1>3, <1>4, <1>5, FS_Surjection
<1>7. QED  BY <1>5, <1>6

------------------------------------------------------------------------------
(* Documents are made and rewritten *)

\* A step that makes no document and moves none.
SameFolders ==
    /\ DOMAIN nodes' = DOMAIN nodes
    /\ \A n \in DOMAIN nodes :
        /\ nodes'[n].name = nodes[n].name /\ nodes'[n].parent = nodes[n].parent
        /\ nodes'[n].above = nodes[n].above /\ nodes'[n].folder = nodes[n].folder

\* A step that makes document m.
NewDocument(m, name, parent, folder, data) ==
    /\ m \in Nat /\ m \notin DOMAIN nodes /\ DOMAIN nodes' = DOMAIN nodes \cup {m}
    /\ \A n \in DOMAIN nodes : nodes'[n] = nodes[n]
    /\ nodes'[m].name = name /\ nodes'[m].parent = parent
    /\ nodes'[m].above = (IF parent = Null THEN {} ELSE {parent} \cup nodes[parent].above)
    /\ nodes'[m].folder = folder /\ nodes'[m].data = data

LEMMA DocumentFacts ==
    ASSUME nodes \in Seq(Documents)
    PROVE  /\ Len(nodes) \in Nat /\ DOMAIN nodes = 1..Len(nodes)
           /\ \A n \in DOMAIN nodes :
                /\ n \in Nat /\ nodes[n] \in Documents
                /\ nodes[n].above \subseteq Nat /\ nodes[n].folder \in BOOLEAN
                /\ nodes[n].name \in Names /\ nodes[n].parent \in {Null} \cup Nat
<1>1. Len(nodes) \in Nat /\ DOMAIN nodes = 1..Len(nodes)
  BY LenProperties
<1>2. \A n \in DOMAIN nodes : n \in Nat /\ nodes[n] \in Documents
  BY <1>1, ElementOfSeq
<1>3. \A d \in Documents : /\ d.above \subseteq Nat /\ d.folder \in BOOLEAN
                           /\ d.name \in Names /\ d.parent \in {Null} \cup Nat
  BY DEF Documents
<1>4. QED  BY <1>1, <1>2, <1>3

LEMMA NodeCreated ==
    ASSUME NEW name, NEW parent, NEW folder, NEW data, NEW m, nodes \in Seq(Documents),
           name \in Names, parent \in {Null} \cup DOMAIN nodes, folder \in BOOLEAN,
           data \in {Null} \cup Nat \cup Lists, m = NewId,
           CreateNode(name, parent, folder, data)
    PROVE  nodes' \in Seq(Documents) /\ NewDocument(m, name, parent, folder, data)
<1> DEFINE above == IF parent = Null THEN {} ELSE {parent} \cup nodes[parent].above
           d == [name |-> name, parent |-> parent, above |-> above, folder |-> folder,
                 data |-> data]
<1>1. /\ Len(nodes) \in Nat /\ DOMAIN nodes = 1..Len(nodes)
      /\ \A n \in DOMAIN nodes : n \in Nat /\ nodes[n].above \subseteq Nat
  BY DocumentFacts
<1>2. above \subseteq Nat
  BY <1>1
<1>3. nodes' = Append(nodes, d)
  BY DEF CreateNode
<1> HIDE DEF above
<1>4. d \in Documents
  BY <1>1, <1>2 DEF Documents
<1>5. d.name = name /\ d.parent = parent /\ d.above = above /\ d.folder = folder /\ d.data = data
  OBVIOUS
<1> HIDE DEF d
<1>6. /\ nodes' \in Seq(Documents) /\ Len(nodes') = Len(nodes) + 1
      /\ \A n \in 1..Len(nodes) : nodes'[n] = nodes[n]
      /\ nodes'[Len(nodes) + 1] = d
  BY <1>3, <1>4, AppendProperties
<1>7. DOMAIN nodes' = 1..Len(nodes) + 1
  BY <1>6, LenProperties
<1>8. m \in Nat /\ m \notin DOMAIN nodes /\ DOMAIN nodes' = DOMAIN nodes \cup {m}
  BY <1>1, <1>7 DEF NewId
<1>9. QED  BY <1>1, <1>5, <1>6, <1>8 DEF NewDocument, NewId, above

LEMMA NodeUpdated ==
    ASSUME nodes \in Seq(Documents), NEW id \in DOMAIN nodes,
           NEW data \in {Null} \cup Nat \cup Lists, UpdateNode(id, data)
    PROVE  /\ nodes' \in Seq(Documents) /\ SameFolders
           /\ nodes'[id].data = data
           /\ \A n \in DOMAIN nodes : n # id => nodes'[n] = nodes[n]
<1> DEFINE d == [nodes[id] EXCEPT !.data = data]
<1>1. Len(nodes) \in Nat /\ DOMAIN nodes = 1..Len(nodes) /\ nodes[id] \in Documents
  BY DocumentFacts
<1>2. nodes' = [nodes EXCEPT ![id] = d]
  BY DEF UpdateNode
<1>3. /\ d \in Documents /\ d.data = data /\ d.name = nodes[id].name
      /\ d.parent = nodes[id].parent /\ d.above = nodes[id].above
      /\ d.folder = nodes[id].folder
  BY <1>1 DEF Documents
<1> HIDE DEF d
<1>4. /\ nodes' \in Seq(Documents) /\ Len(nodes') = Len(nodes)
      /\ \A n \in 1..Len(nodes) : nodes'[n] = IF n = id THEN d ELSE nodes[n]
  BY <1>1, <1>2, <1>3, ExceptSeq
<1>5. DOMAIN nodes' = DOMAIN nodes
  BY <1>1, <1>4, LenProperties
<1>6. QED  BY <1>1, <1>3, <1>4, <1>5 DEF SameFolders

\* What the pages tell by the folders is what it was.
LEMMA SameSets ==
    ASSUME SameFolders
    PROVE  /\ Below' = Below /\ ConfigurationFiles' = ConfigurationFiles
           /\ SettingsFolders' = SettingsFolders /\ SettingsFiles' = SettingsFiles
           /\ SimSettings' = SimSettings /\ Folders' = Folders
           /\ \A p : GetNodeChildren(p)' = GetNodeChildren(p)
           /\ \A name : TopLevel(name)' = TopLevel(name)
           /\ \A p : ShownOf(p)' = ShownOf(p)
<1>1. Below' = Below /\ ConfigurationFiles' = ConfigurationFiles /\ Folders' = Folders
  <2>1. AtRoot' = AtRoot /\ AtRoot \subseteq DOMAIN nodes
    BY DEF SameFolders, AtRoot
  <2>2. Below' = Below
    BY <2>1 DEF SameFolders, Below
  <2>3. QED  BY <2>2 DEF SameFolders, ConfigurationFiles, Folders
<1>2. \A p : GetNodeChildren(p)' = GetNodeChildren(p)
  BY DEF SameFolders, GetNodeChildren
<1>3. \A name : TopLevel(name)' = TopLevel(name)
  BY DEF SameFolders, TopLevel
<1>4. SettingsFolders' = SettingsFolders
  BY <1>3 DEF SettingsFolders, SameFolders, TopLevel
<1>5. \A p : FilesOf(p)' = FilesOf(p)
  BY <1>2 DEF FilesOf, SameFolders, GetNodeChildren
<1>6. SettingsFiles' = SettingsFiles
  BY <1>4, <1>5 DEF SettingsFiles
<1>7. SimSettings' = SimSettings
  <2>1. SettingsFiles \subseteq DOMAIN nodes
    BY DEF SettingsFiles, FilesOf, GetNodeChildren
  <2>2. QED  BY <1>6, <2>1 DEF SimSettings, IsSimSettings, SameFolders
<1>8. ASSUME NEW p
      PROVE  ShownOf(p)' = ShownOf(p)
  <2> DEFINE root == TopLevel("root")
             top == IF root # {} THEN {n \in DOMAIN nodes : nodes[n].parent = First(root)}
                    ELSE {n \in DOMAIN nodes : nodes[n].parent = Null}
             kept == {n \in top : nodes[n].name \notin {"root", "settings"}}
  <2>1. root' = root
    BY <1>3
  <2>2. top' = top
    BY <2>1 DEF SameFolders
  <2>3. top \subseteq DOMAIN nodes
    OBVIOUS
  <2> HIDE DEF top
  <2>4. kept' = kept
    BY <2>2, <2>3 DEF SameFolders
  <2>5. ShownOf(p) = IF p # Null THEN GetNodeChildren(p)
                     ELSE kept \cup UNION {GetNodeChildren(n) : n \in kept}
    BY DEF ShownOf, top
  <2>6. ShownOf(p)' = IF p # Null THEN GetNodeChildren(p)'
                     ELSE kept' \cup UNION {GetNodeChildren(n)' : n \in kept'}
    BY DEF ShownOf, top
  <2> HIDE DEF kept
  <2>7. QED  BY <1>2, <2>4, <2>5, <2>6
<1>9. QED  BY <1>1, <1>2, <1>3, <1>4, <1>6, <1>7, <1>8

------------------------------------------------------------------------------
(* The forest stays one *)

LEMMA TreeFacts ==
    ASSUME TreeOK
    PROVE  /\ SettingsFolders \subseteq DOMAIN nodes /\ SettingsFiles \subseteq DOMAIN nodes
           /\ ConfigurationFiles \subseteq DOMAIN nodes /\ DOMAIN nodes \subseteq Nat
           /\ 0 \notin DOMAIN nodes /\ Null \notin DOMAIN nodes
           /\ 1 \in DOMAIN nodes /\ nodes[1].parent = Null /\ nodes[1].above = {}
           /\ nodes[1].name = "root"
           /\ \A p \in SettingsFolders :
                p # 1 /\ nodes[p].parent = Null /\ nodes[p].above = {} /\ nodes[p].folder
           /\ \A n \in SettingsFiles : ~nodes[n].folder /\ n \notin Below
                /\ \E p \in SettingsFolders : p \in nodes[n].above
           /\ \A n \in DOMAIN nodes, p \in SettingsFolders :
                p \in nodes[n].above /\ ~nodes[n].folder => n \in SettingsFiles
           /\ SettingsFolders \cap Below = {} /\ 1 \notin Below
           /\ SettingsFiles \cap ConfigurationFiles = {}
           /\ SettingsFiles \cap SettingsFolders = {}
<1>1. /\ DOMAIN nodes = 1..Len(nodes) /\ Len(nodes) \in Nat
      /\ \A n \in DOMAIN nodes : nodes[n].folder \in BOOLEAN
  BY DocumentFacts DEF TreeOK
<1>2. DOMAIN nodes \subseteq Nat /\ 0 \notin DOMAIN nodes /\ Null \notin DOMAIN nodes
  BY <1>1, AskedAssumption
<1>3. 1 \in DOMAIN nodes /\ nodes[1].parent = Null /\ nodes[1].name = "root"
  BY DEF TreeOK, TopLevel
<1>4. nodes[1].above = {}
  BY <1>3 DEF TreeOK
<1>5. \A p \in SettingsFolders : p \in DOMAIN nodes /\ nodes[p].parent = Null /\ nodes[p].folder
                                 /\ nodes[p].name = "settings"
  BY DEF SettingsFolders, TopLevel
<1>6. \A p \in SettingsFolders : nodes[p].above = {} /\ p # 1
  BY <1>3, <1>5 DEF TreeOK
<1>7. \A n : n \in SettingsFiles <=> /\ n \in DOMAIN nodes /\ ~nodes[n].folder
                                     /\ \E p \in SettingsFolders : p \in nodes[n].above
  BY DEF SettingsFiles, FilesOf, GetNodeChildren
<1>8. \A n \in SettingsFiles : n \notin Below
  BY <1>7 DEF TreeOK
<1>9. SettingsFolders \cap Below = {} /\ 1 \notin Below
  BY <1>3, <1>4, <1>5, <1>6, AskedAssumption DEF Below, AtRoot
<1>10. ConfigurationFiles \subseteq DOMAIN nodes /\ ConfigurationFiles \subseteq Below
  BY DEF ConfigurationFiles, TreeOK
<1>11. QED  BY <1>2, <1>3, <1>4, <1>5, <1>6, <1>7, <1>8, <1>9, <1>10

\* A file is written again, a configuration or settings.
LEMMA UpdateKeepsTree ==
    ASSUME TreeOK, NEW id, NEW data, UpdateNode(id, data),
           \/ id \in ConfigurationFiles /\ data \in Lists
           \/ id \in SettingsFiles /\ data \in Nat
    PROVE  /\ TreeOK' /\ SameFolders /\ nodes'[id].data = data
           /\ \A n \in DOMAIN nodes : n # id => nodes'[n] = nodes[n]
<1>1. id \in DOMAIN nodes /\ data \in {Null} \cup Nat \cup Lists
  BY TreeFacts
<1>2. nodes \in Seq(Documents)
  BY DEF TreeOK
<1>3. /\ nodes' \in Seq(Documents) /\ SameFolders /\ nodes'[id].data = data
      /\ \A n \in DOMAIN nodes : n # id => nodes'[n] = nodes[n]
  BY <1>1, <1>2, NodeUpdated
<1>4. /\ Below' = Below /\ ConfigurationFiles' = ConfigurationFiles
      /\ SettingsFolders' = SettingsFolders /\ SettingsFiles' = SettingsFiles
      /\ TopLevel("root")' = TopLevel("root")
  BY <1>3, SameSets
<1>5. \A n \in ConfigurationFiles : nodes'[n].data \in Lists
  BY <1>3, TreeFacts DEF TreeOK
<1>6. \A n \in SettingsFiles : nodes'[n].data \in {Null} \cup Nat
  BY <1>3, TreeFacts DEF TreeOK
<1>7. \A n \in DOMAIN nodes' :
        /\ nodes'[n].above \subseteq DOMAIN nodes'
        /\ IF nodes'[n].parent = Null THEN nodes'[n].above = {}
           ELSE nodes'[n].parent \in nodes'[n].above
        /\ \A a \in nodes'[n].above : nodes'[a].above \subseteq nodes'[n].above
  BY <1>3 DEF TreeOK, SameFolders
<1>8. \A n \in Below' :
        /\ nodes'[n].above \cap SettingsFolders' = {}
        /\ ~nodes'[n].folder => nodes'[n].name = "configuration"
  <2>1. Below \subseteq DOMAIN nodes
    BY DEF Below
  <2>2. QED  BY <1>3, <1>4, <2>1 DEF TreeOK, SameFolders
<1>9. QED  BY <1>3, <1>4, <1>5, <1>6, <1>7, <1>8 DEF TreeOK

\* What a new document adds to the sets the pages read.
LEMMA NewSets ==
    ASSUME TreeOK, NEW m, NEW name, NEW parent, NEW folder, NEW data,
           NewDocument(m, name, parent, folder, data), parent \in {Null} \cup DOMAIN nodes
    PROVE  /\ parent # 1 => AtRoot' = AtRoot
           /\ parent # 1 /\ nodes'[m].above \cap AtRoot # {} => Below' = Below \cup {m}
           /\ parent # 1 /\ nodes'[m].above \cap AtRoot = {} => Below' = Below
           /\ name = "configuration" => ConfigurationFiles' = ConfigurationFiles \cup {m}
           /\ name # "configuration" => ConfigurationFiles' = ConfigurationFiles
           /\ ~(parent = Null /\ name = "settings") => SettingsFolders' = SettingsFolders
           /\ parent = Null /\ name = "settings" /\ folder = TRUE =>
                SettingsFolders' = SettingsFolders \cup {m}
           /\ ~(parent = Null /\ name = "root") => TopLevel("root")' = TopLevel("root")
           /\ m \notin nodes'[m].above /\ nodes'[m].above \subseteq DOMAIN nodes
           /\ \A p : p \notin nodes'[m].above => GetNodeChildren(p)' = GetNodeChildren(p)
           /\ \A p : p \in nodes'[m].above => GetNodeChildren(p)' = GetNodeChildren(p) \cup {m}
           /\ \A n \in DOMAIN nodes' :
                /\ nodes'[n].above \subseteq DOMAIN nodes'
                /\ IF nodes'[n].parent = Null THEN nodes'[n].above = {}
                   ELSE nodes'[n].parent \in nodes'[n].above
                /\ \A a \in nodes'[n].above : nodes'[a].above \subseteq nodes'[n].above
<1>0. parent # 1 => AtRoot' = AtRoot
  BY DEF AtRoot, NewDocument
<1>1. parent # 1 =>
        Below' = IF nodes'[m].above \cap AtRoot # {} THEN Below \cup {m} ELSE Below
  <2>1. AtRoot \subseteq DOMAIN nodes
    BY DEF AtRoot
  <2>2. QED  BY <1>0, <2>1 DEF Below, NewDocument
<1>2. ConfigurationFiles' =
        IF name = "configuration" THEN ConfigurationFiles \cup {m} ELSE ConfigurationFiles
  BY DEF ConfigurationFiles, NewDocument
<1>3. SettingsFolders = {n \in DOMAIN nodes : nodes[n].parent = Null /\ nodes[n].name = "settings"
                                              /\ nodes[n].folder}
  BY DEF SettingsFolders, TopLevel
<1>4. SettingsFolders' = {n \in DOMAIN nodes' : nodes'[n].parent = Null
                            /\ nodes'[n].name = "settings" /\ nodes'[n].folder}
  BY DEF SettingsFolders, TopLevel
<1>5. ~(parent = Null /\ name = "settings") => SettingsFolders' = SettingsFolders
  BY <1>3, <1>4 DEF NewDocument
<1>6. parent = Null /\ name = "settings" /\ folder = TRUE =>
        SettingsFolders' = SettingsFolders \cup {m}
  BY <1>3, <1>4 DEF NewDocument
<1>7. ~(parent = Null /\ name = "root") => TopLevel("root")' = TopLevel("root")
  BY DEF TopLevel, NewDocument
<1>8. nodes'[m].above \subseteq DOMAIN nodes
  BY DEF NewDocument, TreeOK
<1>9. m \notin nodes'[m].above
  BY <1>8 DEF NewDocument
<1>10. \A p : p \notin nodes'[m].above => GetNodeChildren(p)' = GetNodeChildren(p)
  BY DEF GetNodeChildren, NewDocument
<1>11. \A p : p \in nodes'[m].above => GetNodeChildren(p)' = GetNodeChildren(p) \cup {m}
  BY DEF GetNodeChildren, NewDocument
<1>12. ASSUME NEW n \in DOMAIN nodes'
       PROVE  /\ nodes'[n].above \subseteq DOMAIN nodes'
              /\ IF nodes'[n].parent = Null THEN nodes'[n].above = {}
                 ELSE nodes'[n].parent \in nodes'[n].above
              /\ \A a \in nodes'[n].above : nodes'[a].above \subseteq nodes'[n].above
  <2>1. CASE n \in DOMAIN nodes
    BY <2>1 DEF TreeOK, NewDocument
  <2>2. CASE n = m
    <3>1. CASE parent = Null
      BY <2>2, <3>1 DEF NewDocument
    <3>2. CASE parent # Null
      <4>1. parent \in DOMAIN nodes /\ nodes'[m].above = {parent} \cup nodes[parent].above
            /\ nodes'[m].parent = parent
        BY <3>2 DEF NewDocument
      <4>2. \A a \in nodes[parent].above : nodes[a].above \subseteq nodes[parent].above
        BY <4>1 DEF TreeOK
      <4>3. \A a \in nodes'[m].above : a \in DOMAIN nodes /\ nodes'[a] = nodes[a]
        BY <1>8 DEF NewDocument
      <4>4. \A a \in nodes'[m].above : nodes'[a].above \subseteq nodes'[m].above
        BY <4>1, <4>2, <4>3
      <4>5. DOMAIN nodes \subseteq DOMAIN nodes'
        BY DEF NewDocument
      <4>6. QED  BY <1>8, <2>2, <3>2, <4>1, <4>4, <4>5
    <3>3. QED  BY <3>1, <3>2
  <2>3. QED  BY <2>1, <2>2 DEF NewDocument
<1>13. QED  BY <1>0, <1>1, <1>2, <1>5, <1>6, <1>7, <1>8, <1>9, <1>10, <1>11, <1>12

LEMMA ShownIs ==
    ASSUME TopLevel("root") = {1}
    PROVE  /\ \A p : p # Null => ShownOf(p) = GetNodeChildren(p)
           /\ ShownOf(Null) = AtRoot \cup UNION {GetNodeChildren(n) : n \in AtRoot}
<1>1. First({1}) = 1
  BY DEF First
<1>2. First(TopLevel("root")) = 1 /\ TopLevel("root") # {}
  BY <1>1
<1>3. QED  BY <1>2 DEF ShownOf, AtRoot

LEMMA ShownIsBelow ==
    ASSUME TreeOK, NEW p, p \in {Null} \cup Below
    PROVE  ShownOf(p) \subseteq Below
<1>1. ASSUME NEW q \in Below
      PROVE  GetNodeChildren(q) \subseteq Below
  BY DEF GetNodeChildren, Below, TreeOK
<1>2. AtRoot \subseteq Below
  BY DEF AtRoot, Below
<1>3. CASE p # Null
  <2>1. p \in Below /\ ShownOf(p) = GetNodeChildren(p)
    BY <1>3, ShownIs DEF TreeOK
  <2>2. QED  BY <1>1, <2>1
<1>4. CASE p = Null
  <2>1. ShownOf(Null) = AtRoot \cup UNION {GetNodeChildren(n) : n \in AtRoot}
    BY ShownIs DEF TreeOK
  <2>2. QED  BY <1>1, <1>2, <1>4, <2>1
<1>5. QED  BY <1>3, <1>4

\* A document that is not below the root changes no list of the workspace.
LEMMA ShownKept ==
    ASSUME TreeOK, TreeOK', NEW m, NEW name, NEW parent, NEW folder, NEW data,
           NewDocument(m, name, parent, folder, data), parent \in {Null} \cup DOMAIN nodes,
           parent # 1, nodes'[m].above \cap Below = {}, Below' = Below
    PROVE  \A p : p \in {Null} \cup Below => ShownOf(p)' = ShownOf(p)
<1>1. ASSUME NEW q \in Below
      PROVE  GetNodeChildren(q)' = GetNodeChildren(q)
  BY NewSets
<1>2. AtRoot' = AtRoot
  BY DEF AtRoot, NewDocument
<1>3. AtRoot \subseteq Below
  BY DEF AtRoot, Below
<1>4. /\ \A p : p # Null => ShownOf(p) = GetNodeChildren(p)
      /\ ShownOf(Null) = AtRoot \cup UNION {GetNodeChildren(n) : n \in AtRoot}
  BY ShownIs DEF TreeOK
<1>5. /\ \A p : p # Null => ShownOf(p)' = GetNodeChildren(p)'
      /\ ShownOf(Null)' = AtRoot' \cup UNION {GetNodeChildren(n)' : n \in AtRoot'}
  <2>1. (TopLevel("root") = {1})'
    BY DEF TreeOK
  <2>2. First({1}) = 1
    BY DEF First
  <2>3. First(TopLevel("root")') = 1 /\ TopLevel("root")' # {}
    BY <2>1, <2>2
  <2>4. QED  BY <2>3 DEF ShownOf, AtRoot
<1>6. ASSUME NEW p, p \in {Null} \cup Below
      PROVE  ShownOf(p)' = ShownOf(p)
  <2>1. CASE p # Null
    <3>1. p \in Below
      BY <1>6, <2>1
    <3>2. QED  BY <1>1, <1>4, <1>5, <2>1, <3>1
  <2>2. CASE p = Null
    <3>1. {GetNodeChildren(n)' : n \in AtRoot'} = {GetNodeChildren(n) : n \in AtRoot}
      BY <1>1, <1>2, <1>3
    <3>2. ShownOf(Null)' = ShownOf(Null)
      BY <1>2, <1>4, <1>5, <3>1
    <3>3. QED  BY <2>2, <3>2
  <2>3. QED  BY <2>1, <2>2
<1>7. QED  BY <1>6

\* The settings folder that the icon makes is empty, and changes nothing else.
LEMMA SettingsFolderMade ==
    ASSUME NEW m, m = NewId, TreeOK, CreateNode("settings", Null, TRUE, Null)
    PROVE  /\ TreeOK' /\ NewDocument(m, "settings", Null, TRUE, Null)
           /\ Below' = Below /\ ConfigurationFiles' = ConfigurationFiles
           /\ SettingsFolders' = SettingsFolders \cup {m}
           /\ SettingsFiles' = SettingsFiles /\ SimSettings' = SimSettings
           /\ GetNodeChildren(m)' = {}
           /\ \A p : GetNodeChildren(p)' = GetNodeChildren(p)
           /\ \A p : p \in {Null} \cup Below => ShownOf(p)' = ShownOf(p)
<1>1. nodes' \in Seq(Documents) /\ NewDocument(m, "settings", Null, TRUE, Null)
  <2>1. /\ "settings" \in Names /\ TRUE \in BOOLEAN /\ nodes \in Seq(Documents)
        /\ Null \in {Null} \cup DOMAIN nodes /\ Null \in {Null} \cup Nat \cup Lists
    BY DEF TreeOK, Names
  <2>2. QED  BY <2>1, NodeCreated
<1>2. nodes'[m].above = {} /\ nodes'[m].folder = TRUE /\ m \notin DOMAIN nodes
      /\ DOMAIN nodes' = DOMAIN nodes \cup {m} /\ \A n \in DOMAIN nodes : nodes'[n] = nodes[n]
  BY <1>1 DEF NewDocument
<1>3. /\ Below' = Below /\ ConfigurationFiles' = ConfigurationFiles
      /\ SettingsFolders' = SettingsFolders \cup {m} /\ TopLevel("root")' = TopLevel("root")
      /\ \A p : GetNodeChildren(p)' = GetNodeChildren(p)
      /\ \A n \in DOMAIN nodes' :
            /\ nodes'[n].above \subseteq DOMAIN nodes'
            /\ IF nodes'[n].parent = Null THEN nodes'[n].above = {}
               ELSE nodes'[n].parent \in nodes'[n].above
            /\ \A a \in nodes'[n].above : nodes'[a].above \subseteq nodes'[n].above
  <2>1. /\ Null \in {Null} \cup DOMAIN nodes /\ Null # 1
        /\ nodes'[m].above \cap AtRoot = {} /\ \A p : p \notin nodes'[m].above
        /\ "settings" # "configuration" /\ "settings" # "root"
    BY <1>2, AskedAssumption
  <2>2. /\ Below' = Below /\ ConfigurationFiles' = ConfigurationFiles
        /\ \A p : GetNodeChildren(p)' = GetNodeChildren(p)
    BY <1>1, <2>1, NewSets, ZenonT(60)
  <2>3. SettingsFolders' = SettingsFolders \cup {m}
    BY <1>1, <2>1, NewSets
  <2>4. TopLevel("root")' = TopLevel("root")
    BY <1>1, <2>1, NewSets
  <2>5. \A n \in DOMAIN nodes' :
            /\ nodes'[n].above \subseteq DOMAIN nodes'
            /\ IF nodes'[n].parent = Null THEN nodes'[n].above = {}
               ELSE nodes'[n].parent \in nodes'[n].above
            /\ \A a \in nodes'[n].above : nodes'[a].above \subseteq nodes'[n].above
    BY <1>1, <2>1, NewSets
  <2>6. QED  BY <2>2, <2>3, <2>4, <2>5
<1>4. \A n \in DOMAIN nodes : m \notin nodes[n].above
  BY <1>2 DEF TreeOK
<1>5. GetNodeChildren(m)' = {}
  BY <1>3, <1>4 DEF GetNodeChildren
<1>6. \A p : FilesOf(p)' = FilesOf(p)
  BY <1>2, <1>3 DEF FilesOf, GetNodeChildren
<1>7. FilesOf(m)' = {}
  BY <1>5 DEF FilesOf
<1>8. SettingsFiles' = SettingsFiles
  <2>1. SettingsFiles = UNION {FilesOf(p) : p \in SettingsFolders}
    BY DEF SettingsFiles
  <2>2. SettingsFiles' = UNION {FilesOf(p)' : p \in SettingsFolders'}
    BY DEF SettingsFiles
  <2>3. QED  BY <1>3, <1>6, <1>7, <2>1, <2>2
<1>9. /\ SettingsFiles \subseteq DOMAIN nodes /\ ConfigurationFiles \subseteq DOMAIN nodes
      /\ Below \subseteq DOMAIN nodes
  BY TreeFacts DEF Below
<1>10. SimSettings' = SimSettings
  BY <1>2, <1>8, <1>9 DEF SimSettings, IsSimSettings
<1>11. \A n \in Below' :
        /\ nodes'[n].above \cap SettingsFolders' = {}
        /\ ~nodes'[n].folder => nodes'[n].name = "configuration"
  BY <1>2, <1>3, <1>4, <1>9 DEF TreeOK
<1>12. /\ \A n \in ConfigurationFiles' : nodes'[n].data \in Lists
       /\ \A n \in SettingsFiles' : nodes'[n].data \in {Null} \cup Nat
  BY <1>2, <1>3, <1>8, <1>9 DEF TreeOK
<1>13. TreeOK'
  BY <1>1, <1>3, <1>11, <1>12 DEF TreeOK
<1>14. \A p : p \in {Null} \cup Below => ShownOf(p)' = ShownOf(p)
  <2>1. /\ Null \in {Null} \cup DOMAIN nodes /\ Null # 1 /\ nodes'[m].above \cap Below = {}
    BY <1>2, AskedAssumption
  <2>2. QED  BY <1>1, <1>3, <1>13, <2>1, ShownKept
<1>15. QED  BY <1>1, <1>3, <1>5, <1>8, <1>10, <1>13, <1>14

\* The first settings file goes into a settings folder.
LEMMA SettingsFileMade ==
    ASSUME NEW m, NEW p, m = NewId, TreeOK, p \in SettingsFolders,
           CreateNode("sim_settings", p, FALSE, m)
    PROVE  /\ TreeOK' /\ NewDocument(m, "sim_settings", p, FALSE, m)
           /\ Below' = Below /\ ConfigurationFiles' = ConfigurationFiles
           /\ SettingsFolders' = SettingsFolders
           /\ SettingsFiles' = SettingsFiles \cup {m}
           /\ SimSettings' = SimSettings \cup {m}
           /\ \A q : q \in {Null} \cup Below => ShownOf(q)' = ShownOf(q)
<1>1. p \in DOMAIN nodes /\ p # 1 /\ p # Null /\ nodes[p].above = {} /\ p \notin Below
      /\ p \notin AtRoot
  BY TreeFacts DEF Below, AtRoot
<1>2. nodes' \in Seq(Documents) /\ NewDocument(m, "sim_settings", p, FALSE, m)
  <2>1. Len(nodes) \in Nat
    BY DocumentFacts DEF TreeOK
  <2>2. m \in {Null} \cup Nat \cup Lists
    BY <2>1 DEF NewId
  <2>3. /\ "sim_settings" \in Names /\ FALSE \in BOOLEAN /\ nodes \in Seq(Documents)
        /\ p \in {Null} \cup DOMAIN nodes
    BY <1>1 DEF TreeOK, Names
  <2>4. QED  BY <2>2, <2>3, NodeCreated
<1>3. /\ nodes'[m].above = {p} /\ nodes'[m].folder = FALSE /\ m \notin DOMAIN nodes
      /\ nodes'[m].name = "sim_settings" /\ nodes'[m].data = m /\ m \in Nat
      /\ DOMAIN nodes' = DOMAIN nodes \cup {m} /\ \A n \in DOMAIN nodes : nodes'[n] = nodes[n]
  BY <1>1, <1>2 DEF NewDocument
<1>4. /\ Below' = Below /\ ConfigurationFiles' = ConfigurationFiles
      /\ SettingsFolders' = SettingsFolders /\ TopLevel("root")' = TopLevel("root")
      /\ \A q : q # p => GetNodeChildren(q)' = GetNodeChildren(q)
      /\ GetNodeChildren(p)' = GetNodeChildren(p) \cup {m}
      /\ \A n \in DOMAIN nodes' :
            /\ nodes'[n].above \subseteq DOMAIN nodes'
            /\ IF nodes'[n].parent = Null THEN nodes'[n].above = {}
               ELSE nodes'[n].parent \in nodes'[n].above
            /\ \A a \in nodes'[n].above : nodes'[a].above \subseteq nodes'[n].above
  <2>1. /\ p \in {Null} \cup DOMAIN nodes /\ nodes'[m].above \cap AtRoot = {}
        /\ \A q : q # p => q \notin nodes'[m].above
        /\ p \in nodes'[m].above
        /\ "sim_settings" # "configuration" /\ "sim_settings" # "settings"
        /\ "sim_settings" # "root"
    BY <1>1, <1>3
  <2>2. QED  BY ZenonT(60), <1>1, <1>2, <2>1, NewSets
<1>5. \A q : q # p => FilesOf(q)' = FilesOf(q)
  BY <1>3, <1>4 DEF FilesOf, GetNodeChildren
<1>6. FilesOf(p)' = FilesOf(p) \cup {m}
  BY <1>3, <1>4 DEF FilesOf, GetNodeChildren
<1>7. SettingsFiles' = SettingsFiles \cup {m}
  <2>1. SettingsFiles = UNION {FilesOf(q) : q \in SettingsFolders}
    BY DEF SettingsFiles
  <2>2. SettingsFiles' = UNION {FilesOf(q)' : q \in SettingsFolders'}
    BY DEF SettingsFiles
  <2>3. QED  BY <1>4, <1>5, <1>6, <2>1, <2>2
<1>8. /\ SettingsFiles \subseteq DOMAIN nodes /\ ConfigurationFiles \subseteq DOMAIN nodes
      /\ Below \subseteq DOMAIN nodes
  BY TreeFacts DEF Below
<1>9. SimSettings' = SimSettings \cup {m}
  BY <1>3, <1>7, <1>8 DEF SimSettings, IsSimSettings
<1>10. \A n \in Below' :
        /\ nodes'[n].above \cap SettingsFolders' = {}
        /\ ~nodes'[n].folder => nodes'[n].name = "configuration"
  BY <1>3, <1>4, <1>8 DEF TreeOK
<1>11. /\ \A n \in ConfigurationFiles' : nodes'[n].data \in Lists
       /\ \A n \in SettingsFiles' : nodes'[n].data \in {Null} \cup Nat
  BY <1>3, <1>4, <1>7, <1>8 DEF TreeOK
<1>12. TreeOK'
  BY <1>2, <1>4, <1>10, <1>11 DEF TreeOK
<1>13. \A q : q \in {Null} \cup Below => ShownOf(q)' = ShownOf(q)
  <2>1. p \in {Null} \cup DOMAIN nodes /\ p # 1 /\ nodes'[m].above \cap Below = {}
    BY <1>1, <1>3
  <2>2. QED  BY <1>2, <1>4, <1>12, <2>1, ShownKept
<1>14. QED  BY <1>2, <1>4, <1>7, <1>9, <1>12, <1>13

\* A folder or an empty configuration.
Listable(name, folder, data) ==
    \/ name = "other" /\ folder = TRUE /\ data = Null
    \/ name = "configuration" /\ folder = FALSE /\ data = <<>>

\* What the workspace makes is below the root.
LEMMA ListedMade ==
    ASSUME NEW m, NEW p, NEW name, NEW folder, NEW data, m = NewId, TreeOK, p \in Below,
           Listable(name, folder, data), CreateNode(name, p, folder, data)
    PROVE  /\ TreeOK' /\ NewDocument(m, name, p, folder, data)
           /\ Below' = Below \cup {m}
           /\ name = "other" => ConfigurationFiles' = ConfigurationFiles
           /\ name = "configuration" => ConfigurationFiles' = ConfigurationFiles \cup {m}
           /\ SettingsFolders' = SettingsFolders
           /\ SettingsFiles' = SettingsFiles /\ SimSettings' = SimSettings
           /\ \A q : q \in SettingsFolders => GetNodeChildren(q)' = GetNodeChildren(q)
<1>1. p \in DOMAIN nodes /\ p # Null /\ p # 1 /\ p \notin SettingsFolders
  BY TreeFacts DEF Below
<1>2. nodes' \in Seq(Documents) /\ NewDocument(m, name, p, folder, data)
  <2>1. name \in Names /\ folder \in BOOLEAN
    BY DEF Names, Listable
  <2>2. <<>> \in Lists
    BY EmptySeq DEF Lists
  <2>3. data \in {Null} \cup Nat \cup Lists
    BY <2>2 DEF Listable
  <2>4. nodes \in Seq(Documents) /\ p \in {Null} \cup DOMAIN nodes
    BY <1>1 DEF TreeOK
  <2>5. QED  BY <2>1, <2>3, <2>4, NodeCreated
<1>3. /\ nodes'[m].above = {p} \cup nodes[p].above /\ nodes'[m].folder = folder
      /\ nodes'[m].name = name /\ nodes'[m].data = data /\ m \notin DOMAIN nodes
      /\ DOMAIN nodes' = DOMAIN nodes \cup {m} /\ \A n \in DOMAIN nodes : nodes'[n] = nodes[n]
  BY <1>1, <1>2 DEF NewDocument
<1>4. nodes'[m].above \cap AtRoot # {} /\ nodes'[m].above \cap SettingsFolders = {}
  BY <1>1, <1>3 DEF Below, TreeOK
<1>5. /\ Below' = Below \cup {m}
      /\ name = "other" => ConfigurationFiles' = ConfigurationFiles
      /\ name = "configuration" => ConfigurationFiles' = ConfigurationFiles \cup {m}
      /\ SettingsFolders' = SettingsFolders /\ TopLevel("root")' = TopLevel("root")
      /\ \A q : q \notin nodes'[m].above => GetNodeChildren(q)' = GetNodeChildren(q)
      /\ \A n \in DOMAIN nodes' :
            /\ nodes'[n].above \subseteq DOMAIN nodes'
            /\ IF nodes'[n].parent = Null THEN nodes'[n].above = {}
               ELSE nodes'[n].parent \in nodes'[n].above
            /\ \A a \in nodes'[n].above : nodes'[a].above \subseteq nodes'[n].above
  BY <1>1, <1>2, <1>4, NewSets DEF Listable
<1>6. \A q \in SettingsFolders : GetNodeChildren(q)' = GetNodeChildren(q)
  BY <1>4, <1>5
<1>7. \A q \in SettingsFolders : FilesOf(q)' = FilesOf(q)
  BY <1>3, <1>6 DEF FilesOf, GetNodeChildren
<1>8. SettingsFiles' = SettingsFiles
  <2>1. SettingsFiles = UNION {FilesOf(q) : q \in SettingsFolders}
    BY DEF SettingsFiles
  <2>2. SettingsFiles' = UNION {FilesOf(q)' : q \in SettingsFolders'}
    BY DEF SettingsFiles
  <2>3. QED  BY <1>5, <1>7, <2>1, <2>2
<1>9. /\ SettingsFiles \subseteq DOMAIN nodes /\ ConfigurationFiles \subseteq DOMAIN nodes
      /\ Below \subseteq DOMAIN nodes
  BY TreeFacts DEF Below
<1>10. SimSettings' = SimSettings
  BY <1>3, <1>8, <1>9 DEF SimSettings, IsSimSettings
<1>11. \A n \in Below' :
        /\ nodes'[n].above \cap SettingsFolders' = {}
        /\ ~nodes'[n].folder => nodes'[n].name = "configuration"
  BY <1>3, <1>4, <1>5, <1>9 DEF TreeOK, Listable
<1>12. ConfigurationFiles' \subseteq Below'
  BY <1>5 DEF TreeOK, Listable
<1>13. /\ \A n \in ConfigurationFiles' : nodes'[n].data \in Lists
       /\ \A n \in SettingsFiles' : nodes'[n].data \in {Null} \cup Nat
  <2>1. <<>> \in Lists
    BY EmptySeq DEF Lists
  <2>2. QED  BY <1>3, <1>5, <1>8, <1>9, <2>1 DEF TreeOK, Listable
<1>14. TreeOK'
  BY <1>2, <1>5, <1>11, <1>12, <1>13 DEF TreeOK
<1>15. QED  BY <1>2, <1>5, <1>6, <1>8, <1>10, <1>14

------------------------------------------------------------------------------
(* What a step leaves of the documents to each of the pages *)

\* Configurations are as they were; a new one is empty.
ConfigurationsKept ==
    /\ ConfigurationFiles \subseteq ConfigurationFiles'
    /\ \A n \in ConfigurationFiles : nodes'[n].data = nodes[n].data
    /\ \A n \in ConfigurationFiles' : n \in ConfigurationFiles \/ nodes'[n].data = <<>>

SettingsKept ==
    /\ SettingsFolders' = SettingsFolders /\ SettingsFiles' = SettingsFiles
    /\ SimSettings' = SimSettings
    /\ \A n \in SettingsFiles : nodes'[n].data = nodes[n].data
    /\ \A p \in SettingsFolders : GetNodeChildren(p)' = GetNodeChildren(p)
    /\ \A n \in DOMAIN nodes :
        IsSimSettings(n)' = IsSimSettings(n) /\ OwnData(n)' = OwnData(n)

ListsKept ==
    /\ Below' = Below
    /\ \A p : p \in {Null} \cup Below => ShownOf(p)' = ShownOf(p)

LEMMA NodesUnchanged ==
    ASSUME TreeOK, UNCHANGED nodes
    PROVE  TreeOK' /\ ConfigurationsKept /\ SettingsKept /\ ListsKept
<1>1. SameFolders
  BY DEF SameFolders
<1>2. /\ Below' = Below /\ ConfigurationFiles' = ConfigurationFiles
      /\ SettingsFolders' = SettingsFolders /\ SettingsFiles' = SettingsFiles
      /\ SimSettings' = SimSettings /\ TopLevel("root")' = TopLevel("root")
      /\ \A p : GetNodeChildren(p)' = GetNodeChildren(p)
      /\ \A p : ShownOf(p)' = ShownOf(p)
  BY <1>1, SameSets
<1>3. TreeOK'
  BY <1>2 DEF TreeOK
<1>4. \A n : IsSimSettings(n)' = IsSimSettings(n) /\ OwnData(n)' = OwnData(n)
  BY DEF IsSimSettings, OwnData, Defaults
<1>5. QED  BY <1>2, <1>3, <1>4 DEF ConfigurationsKept, SettingsKept, ListsKept

LEMMA SaveServedNodes ==
    ASSUME TreeOK, EditorOK, SaveServed
    PROVE  TreeOK' /\ SettingsKept /\ ListsKept /\ ConfigurationFiles' = ConfigurationFiles
<1>1. PICK w \in saves : UpdateNode(w.file, w.items)
  BY DEF SaveServed
<1>2. w.file \in ConfigurationFiles /\ w.items \in Lists
  BY DEF EditorOK
<1>3. /\ TreeOK' /\ SameFolders
      /\ \A n \in DOMAIN nodes : n # w.file => nodes'[n] = nodes[n]
  BY <1>1, <1>2, UpdateKeepsTree
<1>4. /\ Below' = Below /\ ConfigurationFiles' = ConfigurationFiles
      /\ SettingsFolders' = SettingsFolders /\ SettingsFiles' = SettingsFiles
      /\ SimSettings' = SimSettings
      /\ \A p : GetNodeChildren(p)' = GetNodeChildren(p)
      /\ \A p : ShownOf(p)' = ShownOf(p)
  BY <1>3, SameSets
<1>5. \A n \in SettingsFiles : n \in DOMAIN nodes /\ n # w.file
  BY <1>2, TreeFacts
<1>6. \A n \in DOMAIN nodes :
        IsSimSettings(n)' = IsSimSettings(n) /\ OwnData(n)' = OwnData(n)
  BY <1>3 DEF IsSimSettings, OwnData, Defaults, SameFolders
<1>7. \A p : GetNodeChildren(p) \subseteq DOMAIN nodes
  BY DEF GetNodeChildren
<1>8. QED  BY <1>3, <1>4, <1>5, <1>6, <1>7 DEF SettingsKept, ListsKept

LEMMA WriteServedNodes ==
    ASSUME TreeOK, SettingsOK, WriteServed
    PROVE  /\ TreeOK' /\ ConfigurationsKept /\ ListsKept
           /\ SettingsFolders' = SettingsFolders /\ SettingsFiles' = SettingsFiles
           /\ SimSettings' = SimSettings
           /\ \A p : GetNodeChildren(p)' = GetNodeChildren(p)
           /\ \A n \in DOMAIN nodes :
                IsSimSettings(n)' = IsSimSettings(n) /\ OwnData(n)' = OwnData(n)
<1>1. PICK w \in writes : UNCHANGED nodes \/ UpdateNode(w.file, w.data)
  BY DEF WriteServed
<1>2. CASE UNCHANGED nodes
  <2>1. SameFolders
    BY <1>2 DEF SameFolders
  <2>2. QED  BY <1>2, <2>1, NodesUnchanged, SameSets DEF SettingsKept
<1>3. CASE UpdateNode(w.file, w.data)
  <2>1. w.file \in SettingsFiles /\ w.data \in Nat
    BY DEF SettingsOK
  <2>2. /\ TreeOK' /\ SameFolders
        /\ \A n \in DOMAIN nodes : n # w.file => nodes'[n] = nodes[n]
    BY <1>3, <2>1, UpdateKeepsTree
  <2>3. /\ Below' = Below /\ ConfigurationFiles' = ConfigurationFiles
        /\ SettingsFolders' = SettingsFolders /\ SettingsFiles' = SettingsFiles
        /\ SimSettings' = SimSettings
        /\ \A p : GetNodeChildren(p)' = GetNodeChildren(p)
        /\ \A p : ShownOf(p)' = ShownOf(p)
    BY <2>2, SameSets
  <2>4. \A n \in ConfigurationFiles : n \in DOMAIN nodes /\ n # w.file
    BY <2>1, TreeFacts
  <2>5. \A n \in DOMAIN nodes :
          IsSimSettings(n)' = IsSimSettings(n) /\ OwnData(n)' = OwnData(n)
    BY <2>2 DEF IsSimSettings, OwnData, Defaults, SameFolders
  <2>6. QED  BY <2>2, <2>3, <2>4, <2>5 DEF ConfigurationsKept, ListsKept
<1>4. QED  BY <1>1, <1>2, <1>3

LEMMA CheckServedNodes ==
    ASSUME TreeOK, SettingsOK, CheckServed
    PROVE  /\ TreeOK' /\ ConfigurationsKept /\ ListsKept
           /\ SettingsFolders \subseteq SettingsFolders' /\ SettingsFiles \subseteq SettingsFiles'
<1>1. PICK c \in checks :
        \/ UNCHANGED nodes
        \/ CreateNode("settings", Null, TRUE, Null)
        \/ c.at = "file" /\ CreateNode("sim_settings", c.folder, FALSE, NewId)
  BY DEF CheckServed
<1>2. PICK m : m = NewId
  OBVIOUS
<1>3. ConfigurationFiles \subseteq DOMAIN nodes
  BY TreeFacts
<1>4. CASE UNCHANGED nodes
  BY <1>4, NodesUnchanged DEF SettingsKept
<1>5. CASE CreateNode("settings", Null, TRUE, Null)
  BY <1>2, <1>3, <1>5, SettingsFolderMade DEF ConfigurationsKept, ListsKept, NewDocument
<1>6. CASE c.at = "file" /\ CreateNode("sim_settings", c.folder, FALSE, NewId)
  <2>1. c.folder \in SettingsFolders /\ CreateNode("sim_settings", c.folder, FALSE, m)
    BY <1>2, <1>6 DEF SettingsOK
  <2>2. QED  BY <1>2, <1>3, <2>1, SettingsFileMade DEF ConfigurationsKept, ListsKept, NewDocument
<1>7. QED  BY <1>1, <1>4, <1>5, <1>6

LEMMA OrderServedNodes ==
    ASSUME TreeOK, WorkspaceOK, OrderServed
    PROVE  TreeOK' /\ ConfigurationsKept /\ SettingsKept /\ Below \subseteq Below'
<1>1. PICK o \in orders :
        /\ ~o.served
        /\ CASE o.kind = "folder" -> CreateNode("other", o.place, TRUE, Null)
             [] o.kind = "configuration" ->
                    CreateNode("configuration", o.place, FALSE, NewConfiguration)
             [] OTHER -> UNCHANGED nodes
  BY DEF OrderServed
<1>2. PICK m : m = NewId
  OBVIOUS
<1>3. o.place \in Below
  BY <1>1 DEF WorkspaceOK, OrderOK, Orders
<1>4. /\ ConfigurationFiles \subseteq DOMAIN nodes /\ SettingsFiles \subseteq DOMAIN nodes
      /\ \A p : GetNodeChildren(p) \subseteq DOMAIN nodes
  BY TreeFacts DEF GetNodeChildren
<1>5. ASSUME NEW name, NEW folder, NEW data,
             Listable(name, folder, data), CreateNode(name, o.place, folder, data)
      PROVE  TreeOK' /\ ConfigurationsKept /\ SettingsKept /\ Below \subseteq Below'
  <2>1. /\ TreeOK' /\ NewDocument(m, name, o.place, folder, data)
        /\ Below' = Below \cup {m}
        /\ name = "other" => ConfigurationFiles' = ConfigurationFiles
        /\ name = "configuration" => ConfigurationFiles' = ConfigurationFiles \cup {m}
        /\ SettingsFolders' = SettingsFolders
        /\ SettingsFiles' = SettingsFiles /\ SimSettings' = SimSettings
        /\ \A q : q \in SettingsFolders => GetNodeChildren(q)' = GetNodeChildren(q)
    BY <1>2, <1>3, <1>5, ListedMade
  <2>2. /\ m \notin DOMAIN nodes /\ \A n \in DOMAIN nodes : nodes'[n] = nodes[n]
        /\ nodes'[m].data = data
    BY <2>1 DEF NewDocument
  <2>3. \A n \in DOMAIN nodes :
          IsSimSettings(n)' = IsSimSettings(n) /\ OwnData(n)' = OwnData(n)
    BY <2>2 DEF IsSimSettings, OwnData, Defaults
  <2>4. ConfigurationsKept
    BY <1>4, <1>5, <2>1, <2>2 DEF ConfigurationsKept, Listable
  <2>5. SettingsKept
    BY <1>4, <2>1, <2>2, <2>3 DEF SettingsKept
  <2>6. QED  BY <2>1, <2>4, <2>5
<1>6. CASE o.kind = "folder"
  <2>1. CreateNode("other", o.place, TRUE, Null)
    BY <1>1, <1>6
  <2>2. QED  BY <1>5, <2>1 DEF Listable
<1>7. CASE o.kind = "configuration"
  <2>1. CreateNode("configuration", o.place, FALSE, <<>>)
    BY <1>1, <1>7 DEF NewConfiguration
  <2>2. QED  BY <1>5, <2>1 DEF Listable
<1>8. CASE o.kind \notin {"folder", "configuration"}
  <2>1. UNCHANGED nodes
    BY <1>1, <1>8
  <2>2. QED  BY <2>1, NodesUnchanged DEF ListsKept
<1>9. QED  BY <1>6, <1>7, <1>8

------------------------------------------------------------------------------
(* The editor *)

LEMMA AppendItem ==
    ASSUME NEW list, NEW item, list \in Lists, item \in Items
    PROVE  /\ Append(list, item) \in Lists
           /\ \A f : AllOf(list, f) /\ item.of = f => AllOf(Append(list, item), f)
           /\ Distinct(list) /\ Fresh(item, list) => Distinct(Append(list, item))
<1> DEFINE longer == Append(list, item)
           n == Len(list)
<1>1. /\ longer \in Lists /\ Len(longer) = n + 1
      /\ \A k \in 1..n : longer[k] = list[k]
      /\ longer[n + 1] = item
  BY AppendProperties DEF Lists
<1>2. n \in Nat /\ DOMAIN list = 1..n
  BY ListFacts
<1>3. DOMAIN longer = 1..n + 1
  BY <1>1, ListFacts
<1>4. DOMAIN longer = DOMAIN list \cup {n + 1} /\ n + 1 \notin DOMAIN list
  BY <1>2, <1>3
<1> HIDE DEF longer, n
<1>5. \A f : AllOf(list, f) /\ item.of = f => AllOf(longer, f)
  BY <1>1, <1>2, <1>4 DEF AllOf
<1>6. Distinct(list) /\ Fresh(item, list) => Distinct(longer)
  BY <1>1, <1>2, <1>4 DEF Distinct, Fresh
<1>7. QED  BY <1>1, <1>5, <1>6 DEF longer

LEMMA WithoutKeeps ==
    ASSUME NEW id, items \in Lists
    PROVE  /\ Without(id) \in Lists
           /\ \A f : AllOf(items, f) => AllOf(Without(id), f)
           /\ Distinct(items) => Distinct(Without(id))
           /\ \A item : Fresh(item, items) => Fresh(item, Without(id))
<1>1. /\ Without(id) \in Lists
      /\ \A i \in DOMAIN Without(id) : \E k \in DOMAIN items : Without(id)[i] = items[k]
      /\ Distinct(items) => Distinct(Without(id))
  BY WithoutIs
<1>2. QED  BY <1>1 DEF AllOf, Fresh

\* The actions of the editor, with what the pages add to their guards.
EditorStep ==
    \/ \E s \in SectorIds : ClickSector(s)
    \/ OpenModal \/ ToggleDrawing \/ HandleClearSelectedLocation \/ CloseModal
    \/ \E p \in Points : HandleEdit(p)
    \/ HandleCreate \/ DeleteItem \/ SubmitForm
    \/ \E n \in ConfigurationFiles : OpenFile(n)
    \/ OpenServed \/ OpenFails \/ \E o \in opens : OpenAnswered(o)
    \/ SaveServed \/ SaveAnswered \/ SaveFails

\* What an answer or a change brings to the store are lists, of places off the
\* borders.
LEMMA EditorTyped ==
    ASSUME asked \in Nat, TreeOK, EditorOK, EditorStep
    PROVE  EditorOK'
<1>1. CASE UNCHANGED ConfigurationFiles /\ UNCHANGED <<items, file, sector, opens, saves>>
           /\ \/ OpenModal \/ ToggleDrawing \/ HandleClearSelectedLocation \/ CloseModal
              \/ \E p \in Points : HandleEdit(p)
  <2>1. DefaultMapLocation \in Spots
    BY DEF Spots
  <2>2. CASE OpenModal
    BY <1>1, <2>1, <2>2 DEF OpenModal, EditorOK
  <2>3. CASE ToggleDrawing
    BY <1>1, <2>3 DEF ToggleDrawing, EditorOK
  <2>4. CASE HandleClearSelectedLocation
    BY <1>1, <2>1, <2>4 DEF HandleClearSelectedLocation, EditorOK
  <2>5. CASE CloseModal
    BY <1>1, <2>5 DEF CloseModal, EditorOK
  <2>6. ASSUME NEW p \in Points, HandleEdit(p)
        PROVE  EditorOK'
    <3>1. sector \in SectorIds /\ modal # Null
      BY <2>6 DEF HandleEdit, EditorOK
    <3>2. p \in Spots
      BY <2>6, <3>1, DrawnIsSpot DEF HandleEdit
    <3>3. QED  BY <1>1, <2>6, <3>1, <3>2 DEF HandleEdit, EditorOK
  <2>7. QED  BY <1>1, <2>2, <2>3, <2>4, <2>5, <2>6
<1>2. ASSUME UNCHANGED nodes
      PROVE  UNCHANGED ConfigurationFiles
  BY <1>2 DEF ConfigurationFiles
<1>3. ASSUME NEW s \in SectorIds, ClickSector(s)
      PROVE  EditorOK'
  BY <1>2, <1>3 DEF ClickSector, EditorOK, nodeVars
<1>4. ASSUME NEW list \in Lists, NEW item \in {Null} \cup Items, Write(list, item),
             UNCHANGED <<items, file, sector, opens, nodes>>, modal' = Null, sector # Null
      PROVE  EditorOK'
  <2>1. asked' \in Nat /\ file \in ConfigurationFiles
    BY <1>4 DEF Write, Ask, EditorOK
  <2>2. saves' \subseteq [file : ConfigurationFiles, n : Nat, items : Lists,
                          item : {Null} \cup Items, served : BOOLEAN]
    <3>1. saves \subseteq [file : ConfigurationFiles, n : Nat, items : Lists,
                           item : {Null} \cup Items, served : BOOLEAN]
      BY DEF EditorOK
    <3>2. saves' = saves \cup {[file |-> file, n |-> asked', items |-> list,
                                item |-> item, served |-> FALSE]}
      BY <1>4 DEF Write
    <3>3. /\ list \in Lists /\ item \in {Null} \cup Items /\ FALSE \in BOOLEAN
          /\ asked' \in Nat /\ file \in ConfigurationFiles
      BY <1>4, <2>1
    <3>4. [file |-> file, n |-> asked', items |-> list, item |-> item, served |-> FALSE]
            \in [file : ConfigurationFiles, n : Nat, items : Lists,
                 item : {Null} \cup Items, served : BOOLEAN]
      BY <3>3, Zenon
    <3>5. QED  BY <3>1, <3>2, <3>4, Zenon
  <2>3. QED  BY <1>2, <1>4, <2>2 DEF EditorOK
<1>5. CASE HandleCreate
  <2> DEFINE new == Item(NextId, modal.place, file)
  <2>1. NextId \in Nat /\ modal.place \in Spots /\ file \in Nat /\ sector # Null
    BY <1>5, NextIdIsFree, TreeFacts DEF HandleCreate, EditorOK
  <2>2. new \in Items
    BY <2>1 DEF Item, Items
  <2> HIDE DEF new
  <2>3. Append(items, new) \in Lists
    BY <2>2, AppendItem DEF EditorOK
  <2>4. Write(Append(items, new), new) /\ modal' = Null
        /\ UNCHANGED <<items, file, sector, opens, nodes>>
    BY <1>5 DEF HandleCreate, new
  <2>5. QED  BY <1>4, <2>1, <2>2, <2>3, <2>4
<1>6. CASE DeleteItem
  <2>1. PICK k \in Listed(sector) : Write(Without(items[k].id), Null)
    BY <1>6 DEF DeleteItem
  <2>2. Without(items[k].id) \in Lists
    BY WithoutKeeps DEF EditorOK
  <2>3. modal' = Null /\ sector # Null /\ UNCHANGED <<items, file, sector, opens, nodes>>
    BY <1>6 DEF DeleteItem
  <2>4. QED  BY <1>4, <2>1, <2>2, <2>3
<1>7. CASE SubmitForm
  BY <1>4, <1>7 DEF SubmitForm, EditorOK
<1>8. ASSUME NEW n \in ConfigurationFiles, OpenFile(n)
      PROVE  EditorOK'
  <2>1. asked' \in Nat
    BY <1>8 DEF OpenFile, Ask
  <2>2. opens' \subseteq [node : ConfigurationFiles, n : Nat, data : {Null} \cup Lists]
    BY <1>8, <2>1 DEF OpenFile, EditorOK
  <2>3. QED  BY <1>2, <1>8, <2>2 DEF OpenFile, EditorOK
<1>9. CASE OpenServed
  <2>1. \A n \in ConfigurationFiles : nodes[n].data \in Lists
    BY DEF TreeOK
  <2>2. opens' \subseteq [node : ConfigurationFiles, n : Nat, data : {Null} \cup Lists]
    BY <1>9, <2>1 DEF OpenServed, EditorOK
  <2>3. QED  BY <1>2, <1>9, <2>2 DEF OpenServed, EditorOK, nodeVars
<1>10. CASE OpenFails
  BY <1>2, <1>10 DEF OpenFails, EditorOK, nodeVars
<1>11. ASSUME NEW o \in opens, OpenAnswered(o)
       PROVE  EditorOK'
  <2>1. o.data \in Lists /\ o.node \in ConfigurationFiles
    BY <1>11 DEF OpenAnswered, EditorOK
  <2>2. QED  BY <1>2, <1>11, <2>1 DEF OpenAnswered, EditorOK
<1>12. CASE SaveServed
  <2>1. UNCHANGED ConfigurationFiles
    BY <1>12, SaveServedNodes
  <2>2. saves' \subseteq [file : ConfigurationFiles, n : Nat, items : Lists,
                          item : {Null} \cup Items, served : BOOLEAN]
    BY <1>12 DEF SaveServed, EditorOK
  <2>3. QED  BY <1>12, <2>1, <2>2 DEF SaveServed, EditorOK
<1>13. CASE SaveAnswered
  <2>1. items' \in Lists
    BY <1>13, AppendItem DEF SaveAnswered, EditorOK
  <2>2. QED  BY <1>2, <1>13, <2>1 DEF SaveAnswered, EditorOK, nodeVars
<1>14. CASE SaveFails
  BY <1>2, <1>14 DEF SaveFails, EditorOK, nodeVars
<1>15. CASE \/ OpenModal \/ ToggleDrawing \/ HandleClearSelectedLocation \/ CloseModal
            \/ \E p \in Points : HandleEdit(p)
  <2>1. UNCHANGED <<items, file, sector, opens, saves, nodes>>
    BY <1>15 DEF OpenModal, ToggleDrawing, HandleClearSelectedLocation, CloseModal,
                 HandleEdit, nodeVars
  <2>2. QED  BY <1>1, <1>2, <1>15, <2>1
<1>16. QED  BY <1>3, <1>5, <1>6, <1>7, <1>8, <1>9, <1>10, <1>11, <1>12, <1>13, <1>14, <1>15
            DEF EditorStep

\* Other steps of the pages leave the editor as it is.
LEMMA EditorKept ==
    ASSUME EditorOK, UNCHANGED editorVars, ConfigurationsKept
    PROVE  EditorOK' /\ (AreApart => AreApart') /\ (AreUnique => AreUnique')
<1>1. EditorOK'
  <2>1. ConfigurationFiles \subseteq ConfigurationFiles'
    BY DEF ConfigurationsKept
  <2>2. UNCHANGED <<items, file, sector, modal, opens, saves>>
    BY DEF editorVars
  <2>3. \A w \in saves : w \in [file : ConfigurationFiles', n : Nat, items : Lists,
                                item : {Null} \cup Items, served : BOOLEAN]
    BY <2>1 DEF EditorOK
  <2>4. \A o \in opens : o \in [node : ConfigurationFiles', n : Nat, data : {Null} \cup Lists]
    BY <2>1 DEF EditorOK
  <2>5. QED  BY <2>1, <2>2, <2>3, <2>4 DEF EditorOK
<1>2. \A n : AllOf(<<>>, n)
  BY DEF AllOf
<1>3. Distinct(<<>>)
  BY DEF Distinct
<1>4. UNCHANGED <<items, file, opens, saves>>
  BY DEF editorVars
<1>5. AreApart => AreApart'
  <2>1. AreApart => \A n \in ConfigurationFiles' : AllOf(nodes'[n].data, n)
    BY <1>2 DEF AreApart, ConfigurationsKept
  <2>2. QED  BY <1>4, <2>1 DEF AreApart
<1>6. AreUnique => AreUnique'
  <2>1. AreUnique => \A n \in ConfigurationFiles' : Distinct(nodes'[n].data)
    BY <1>3 DEF AreUnique, ConfigurationsKept
  <2>2. QED  BY <1>4, <2>1 DEF AreUnique
<1>7. QED  BY <1>1, <1>5, <1>6

LEMMA EditorApart ==
    ASSUME TreeOK, EditorOK, Apart, EditorStep
    PROVE  Apart'
<1>1. SUFFICES ASSUME "mixed" \notin strains'
               PROVE  AreApart'
  BY DEF Apart
<1>2. strains \subseteq strains'
  BY DEF EditorStep, ClickSector, OpenModal, ToggleDrawing, HandleClearSelectedLocation,
         CloseModal, HandleEdit, HandleCreate, DeleteItem, SubmitForm, OpenFile, OpenServed,
         OpenFails, OpenAnswered, SaveServed, SaveAnswered, SaveFails, Strained, nodeVars
<1>3. AreApart
  BY <1>1, <1>2 DEF Apart
<1>4. ASSUME UNCHANGED nodes
      PROVE  /\ UNCHANGED ConfigurationFiles
             /\ \A n \in ConfigurationFiles' : AllOf(nodes'[n].data, n)
  BY <1>3, <1>4 DEF ConfigurationFiles, AreApart
<1>5. ASSUME UNCHANGED <<items, file, opens, saves, nodes>>
      PROVE  AreApart'
  BY <1>3, <1>4, <1>5 DEF AreApart
<1>6. ASSUME NEW list, NEW item, Write(list, item), UNCHANGED <<items, file, opens, nodes>>,
             AllOf(list, file), item # Null => item.of = file
      PROVE  AreApart'
  <2>1. PICK w : w = [file |-> file, n |-> asked', items |-> list, item |-> item,
                      served |-> FALSE]
    OBVIOUS
  <2>2. w.file = file /\ w.items = list /\ w.item = item
    BY <2>1
  <2>3. saves' = saves \cup {w}
    BY <1>6, <2>1 DEF Write
  <2>4. QED  BY <1>3, <1>4, <1>6, <2>2, <2>3 DEF AreApart
<1>7. CASE HandleCreate
  <2> DEFINE new == Item(NextId, modal.place, file)
  <2>1. NextId \in Nat /\ modal.place \in Spots /\ file \in Nat
    BY <1>7, NextIdIsFree, TreeFacts DEF HandleCreate, EditorOK
  <2>2. new \in Items /\ new.of = file
    BY <2>1 DEF Item, Items
  <2> HIDE DEF new
  <2>3. AllOf(Append(items, new), file)
    BY <1>3, <2>2, AppendItem DEF EditorOK, AreApart
  <2>4. Write(Append(items, new), new) /\ UNCHANGED <<items, file, opens, nodes>>
    BY <1>7 DEF HandleCreate, new
  <2>5. QED  BY <1>6, <2>2, <2>3, <2>4
<1>8. CASE DeleteItem
  <2>1. PICK k \in Listed(sector) : Write(Without(items[k].id), Null)
    BY <1>8 DEF DeleteItem
  <2>2. AllOf(Without(items[k].id), file)
    BY <1>3, WithoutKeeps DEF EditorOK, AreApart
  <2>3. UNCHANGED <<items, file, opens, nodes>>
    BY <1>8 DEF DeleteItem
  <2>4. QED  BY <1>6, <2>1, <2>2, <2>3
<1>9. CASE SubmitForm
  <2>1. AllOf(items, file) /\ Write(items, Null) /\ UNCHANGED <<items, file, opens, nodes>>
    BY <1>3, <1>9 DEF SubmitForm, AreApart
  <2>2. QED  BY <1>6, <2>1
<1>10. ASSUME NEW n \in ConfigurationFiles, OpenFile(n)
       PROVE  AreApart'
  BY <1>3, <1>4, <1>10 DEF OpenFile, AreApart
<1>11. CASE OpenServed
  <2>1. PICK o \in opens : opens' = (opens \ {o}) \cup {[o EXCEPT !.data = nodes[o.node].data]}
    BY <1>11 DEF OpenServed
  <2>2. o \in [node : ConfigurationFiles, n : Nat, data : {Null} \cup Lists]
    BY DEF EditorOK
  <2>3. PICK q : q = [o EXCEPT !.data = nodes[o.node].data]
    OBVIOUS
  <2>4. q.node = o.node /\ q.data = nodes[o.node].data /\ o.node \in ConfigurationFiles
    BY <2>2, <2>3
  <2>5. AllOf(q.data, q.node)
    BY <1>3, <2>4 DEF AreApart
  <2>6. UNCHANGED <<items, file, saves, nodes>> /\ opens' = (opens \ {o}) \cup {q}
    BY <1>11, <2>1, <2>3 DEF OpenServed, nodeVars
  <2>7. QED  BY <1>3, <1>4, <2>5, <2>6 DEF AreApart
<1>12. CASE OpenFails
  BY <1>3, <1>4, <1>12 DEF OpenFails, AreApart, nodeVars
<1>13. ASSUME NEW o \in opens, OpenAnswered(o)
       PROVE  AreApart'
  <2>1. saves = {} /\ AllOf(o.data, o.node)
    BY <1>1, <1>3, <1>13 DEF OpenAnswered, Strained, AreApart
  <2>2. QED  BY <1>3, <1>4, <1>13, <2>1 DEF OpenAnswered, AreApart
<1>14. CASE SaveServed
  <2>1. PICK w \in saves : /\ UpdateNode(w.file, w.items)
                           /\ saves' = (saves \ {w}) \cup {[w EXCEPT !.served = TRUE]}
    BY <1>14 DEF SaveServed
  <2>2. w \in [file : ConfigurationFiles, n : Nat, items : Lists, item : {Null} \cup Items,
               served : BOOLEAN]
    BY DEF EditorOK
  <2>3. PICK v : v = [w EXCEPT !.served = TRUE]
    OBVIOUS
  <2>4. v.file = w.file /\ v.items = w.items /\ v.item = w.item
    BY <2>2, <2>3
  <2>5. /\ nodes'[w.file].data = w.items
        /\ \A n \in DOMAIN nodes : n # w.file => nodes'[n] = nodes[n]
    BY <2>1, <2>2, UpdateKeepsTree
  <2>6. UNCHANGED ConfigurationFiles /\ ConfigurationFiles \subseteq DOMAIN nodes
    BY <1>14, SaveServedNodes, TreeFacts
  <2>7. \A n \in ConfigurationFiles' : AllOf(nodes'[n].data, n)
    BY <1>3, <2>5, <2>6 DEF AreApart
  <2>8. UNCHANGED <<items, file, opens>> /\ saves' = (saves \ {w}) \cup {v}
    BY <1>14, <2>1, <2>3 DEF SaveServed
  <2>9. QED  BY <1>3, <2>4, <2>7, <2>8 DEF AreApart
<1>15. CASE SaveAnswered
  <2>1. PICK w \in saves :
            /\ saves' = saves \ {w}
            /\ items' = IF w.item # Null THEN Append(items, w.item) ELSE w.items
    BY <1>15 DEF SaveAnswered
  <2>2. w.item \in {Null} \cup Items /\ items \in Lists
    BY DEF EditorOK
  <2>3. AllOf(items', file)
    BY <1>3, <2>1, <2>2, AppendItem DEF AreApart
  <2>4. UNCHANGED <<file, opens, nodes>>
    BY <1>15 DEF SaveAnswered, nodeVars
  <2>5. QED  BY <1>3, <1>4, <2>1, <2>3, <2>4 DEF AreApart
<1>16. CASE SaveFails
  BY <1>3, <1>4, <1>16 DEF SaveFails, AreApart, nodeVars
<1>17. CASE \/ \E s \in SectorIds : ClickSector(s)
            \/ OpenModal \/ ToggleDrawing \/ HandleClearSelectedLocation \/ CloseModal
            \/ \E p \in Points : HandleEdit(p)
  <2>1. UNCHANGED <<items, file, opens, saves, nodes>>
    BY <1>17 DEF ClickSector, OpenModal, ToggleDrawing, HandleClearSelectedLocation,
                 CloseModal, HandleEdit, nodeVars
  <2>2. QED  BY <1>5, <2>1
<1>18. QED  BY <1>7, <1>8, <1>9, <1>10, <1>11, <1>12, <1>13, <1>14, <1>15, <1>16, <1>17
            DEF EditorStep

\* A new item is numbered beyond the items of the store, and as long as nothing
\* else is under way then, beyond those of every change.
LEMMA EditorUnique ==
    ASSUME TreeOK, EditorOK, Unique, EditorStep
    PROVE  Unique'
<1>1. SUFFICES ASSUME "mixed" \notin strains', "doubled" \notin strains'
               PROVE  AreUnique'
  BY DEF Unique
<1>2. strains \subseteq strains'
  BY DEF EditorStep, ClickSector, OpenModal, ToggleDrawing, HandleClearSelectedLocation,
         CloseModal, HandleEdit, HandleCreate, DeleteItem, SubmitForm, OpenFile, OpenServed,
         OpenFails, OpenAnswered, SaveServed, SaveAnswered, SaveFails, Strained, nodeVars
<1>3. AreUnique
  BY <1>1, <1>2 DEF Unique
<1>4. ASSUME UNCHANGED nodes
      PROVE  /\ UNCHANGED ConfigurationFiles
             /\ \A n \in ConfigurationFiles' : Distinct(nodes'[n].data)
  BY <1>3, <1>4 DEF ConfigurationFiles, AreUnique
<1>5. ASSUME UNCHANGED <<items, file, opens, saves, nodes>>
      PROVE  AreUnique'
  BY <1>3, <1>4, <1>5 DEF AreUnique
<1>6. CASE HandleCreate
  <2> DEFINE new == Item(NextId, modal.place, file)
  <2>1. NextId \in Nat /\ modal.place \in Spots /\ file \in Nat
    BY <1>6, NextIdIsFree, TreeFacts DEF HandleCreate, EditorOK
  <2>2. new \in Items /\ new.id = NextId
    BY <2>1 DEF Item, Items
  <2>3. saves = {}
    BY <1>1, <1>6 DEF HandleCreate, Strained
  <2> HIDE DEF new
  <2>4. Fresh(new, items)
    BY <2>2, NextIdIsFree DEF EditorOK, Fresh
  <2>5. Distinct(Append(items, new))
    BY <1>3, <2>2, <2>4, AppendItem DEF EditorOK, AreUnique
  <2>6. PICK w : w = [file |-> file, n |-> asked', items |-> Append(items, new),
                      item |-> new, served |-> FALSE]
    OBVIOUS
  <2>7. w.items = Append(items, new) /\ w.item = new
    BY <2>6
  <2>8. saves' = {w} /\ UNCHANGED <<items, opens, nodes>>
    BY <1>6, <2>3, <2>6 DEF HandleCreate, Write, new
  <2>9. QED  BY <1>3, <1>4, <2>4, <2>5, <2>7, <2>8 DEF AreUnique
<1>7. ASSUME NEW list, Write(list, Null), UNCHANGED <<items, file, opens, nodes>>,
             Distinct(list), \A item : Fresh(item, items) => Fresh(item, list)
      PROVE  AreUnique'
  <2>1. PICK w : w = [file |-> file, n |-> asked', items |-> list, item |-> Null,
                      served |-> FALSE]
    OBVIOUS
  <2>2. w.items = list /\ w.item = Null
    BY <2>1
  <2>3. saves' = saves \cup {w}
    BY <1>7, <2>1 DEF Write
  <2>4. QED  BY <1>3, <1>4, <1>7, <2>2, <2>3 DEF AreUnique
<1>8. CASE DeleteItem
  <2>1. PICK k \in Listed(sector) : Write(Without(items[k].id), Null)
    BY <1>8 DEF DeleteItem
  <2>2. /\ Distinct(Without(items[k].id))
        /\ \A item : Fresh(item, items) => Fresh(item, Without(items[k].id))
    BY <1>3, WithoutKeeps DEF EditorOK, AreUnique
  <2>3. UNCHANGED <<items, file, opens, nodes>>
    BY <1>8 DEF DeleteItem
  <2>4. QED  BY <1>7, <2>1, <2>2, <2>3
<1>9. CASE SubmitForm
  <2>1. Distinct(items) /\ Write(items, Null) /\ UNCHANGED <<items, file, opens, nodes>>
    BY <1>3, <1>9 DEF SubmitForm, AreUnique
  <2>2. QED  BY <1>7, <2>1
<1>10. ASSUME NEW n \in ConfigurationFiles, OpenFile(n)
       PROVE  AreUnique'
  BY <1>3, <1>4, <1>10 DEF OpenFile, AreUnique
<1>11. CASE OpenServed
  <2>1. PICK o \in opens : opens' = (opens \ {o}) \cup {[o EXCEPT !.data = nodes[o.node].data]}
    BY <1>11 DEF OpenServed
  <2>2. o \in [node : ConfigurationFiles, n : Nat, data : {Null} \cup Lists]
    BY DEF EditorOK
  <2>3. PICK q : q = [o EXCEPT !.data = nodes[o.node].data]
    OBVIOUS
  <2>4. q.data = nodes[o.node].data /\ o.node \in ConfigurationFiles
    BY <2>2, <2>3
  <2>5. Distinct(q.data)
    BY <1>3, <2>4 DEF AreUnique
  <2>6. UNCHANGED <<items, saves, nodes>> /\ opens' = (opens \ {o}) \cup {q}
    BY <1>11, <2>1, <2>3 DEF OpenServed, nodeVars
  <2>7. QED  BY <1>3, <1>4, <2>5, <2>6 DEF AreUnique
<1>12. CASE OpenFails
  BY <1>3, <1>4, <1>12 DEF OpenFails, AreUnique, nodeVars
<1>13. ASSUME NEW o \in opens, OpenAnswered(o)
       PROVE  AreUnique'
  <2>1. saves = {} /\ Distinct(o.data)
    BY <1>1, <1>3, <1>13 DEF OpenAnswered, Strained, AreUnique
  <2>2. QED  BY <1>3, <1>4, <1>13, <2>1 DEF OpenAnswered, AreUnique
<1>14. CASE SaveServed
  <2>1. PICK w \in saves : /\ UpdateNode(w.file, w.items)
                           /\ saves' = (saves \ {w}) \cup {[w EXCEPT !.served = TRUE]}
    BY <1>14 DEF SaveServed
  <2>2. w \in [file : ConfigurationFiles, n : Nat, items : Lists, item : {Null} \cup Items,
               served : BOOLEAN]
    BY DEF EditorOK
  <2>3. PICK v : v = [w EXCEPT !.served = TRUE]
    OBVIOUS
  <2>4. v.items = w.items /\ v.item = w.item
    BY <2>2, <2>3
  <2>5. /\ nodes'[w.file].data = w.items
        /\ \A n \in DOMAIN nodes : n # w.file => nodes'[n] = nodes[n]
    BY <2>1, <2>2, UpdateKeepsTree
  <2>6. UNCHANGED ConfigurationFiles /\ ConfigurationFiles \subseteq DOMAIN nodes
    BY <1>14, SaveServedNodes, TreeFacts
  <2>7. \A n \in ConfigurationFiles' : Distinct(nodes'[n].data)
    BY <1>3, <2>5, <2>6 DEF AreUnique
  <2>8. UNCHANGED <<items, opens>> /\ saves' = (saves \ {w}) \cup {v}
    BY <1>14, <2>1, <2>3 DEF SaveServed
  <2>9. QED  BY <1>3, <2>4, <2>7, <2>8 DEF AreUnique
<1>15. CASE SaveAnswered
  <2>1. PICK w \in saves :
            /\ saves' = saves \ {w}
            /\ items' = IF w.item # Null THEN Append(items, w.item) ELSE w.items
    BY <1>15 DEF SaveAnswered
  <2>2. w.item \in {Null} \cup Items /\ items \in Lists
    BY DEF EditorOK
  <2>3. UNCHANGED <<opens, nodes>>
    BY <1>15 DEF SaveAnswered, nodeVars
  <2>4. CASE w.item = Null
    BY <1>3, <1>4, <2>1, <2>3, <2>4 DEF AreUnique
  <2>5. CASE w.item # Null
    <3>1. Distinct(items')
      BY <1>3, <2>1, <2>2, <2>5, AppendItem DEF AreUnique
    <3>2. \A v \in saves' : v.item = Null
      BY <1>3, <2>1, <2>5 DEF AreUnique
    <3>3. QED  BY <1>3, <1>4, <2>1, <2>3, <3>1, <3>2 DEF AreUnique
  <2>6. QED  BY <2>4, <2>5
<1>16. CASE SaveFails
  BY <1>3, <1>4, <1>16 DEF SaveFails, AreUnique, nodeVars
<1>17. CASE \/ \E s \in SectorIds : ClickSector(s)
            \/ OpenModal \/ ToggleDrawing \/ HandleClearSelectedLocation \/ CloseModal
            \/ \E p \in Points : HandleEdit(p)
  <2>1. UNCHANGED <<items, file, opens, saves, nodes>>
    BY <1>17 DEF ClickSector, OpenModal, ToggleDrawing, HandleClearSelectedLocation,
                 CloseModal, HandleEdit, nodeVars
  <2>2. QED  BY <1>5, <2>1
<1>18. QED  BY <1>6, <1>8, <1>9, <1>10, <1>11, <1>12, <1>13, <1>14, <1>15, <1>16, <1>17
            DEF EditorStep

------------------------------------------------------------------------------
(* The settings *)

SettingsStep ==
    \/ HandleDrawerToggle \/ HandleWorkspaceClick \/ CheckDone
    \/ HandleSettingsClick \/ Reload \/ HandleSave
    \/ \E id \in files \cup {Custom} : HandleSettingClick(id)
    \/ CheckServed \/ CheckFails \/ FetchSettingsFolder
    \/ ReadServed \/ ReadAnswered \/ ReadFails \/ WriteServed \/ WriteEnds
    \/ LeaveSettings /\ UNCHANGED nodes /\ strains \subseteq strains'

Checks == [n : Nat, was : Drawers, folder : {Null} \cup Nat,
           at : {"nodes", "folder", "children", "file", "done"}]

\* A check has found or made the folder it looks into.
CheckOK(c) == c \in Checks /\ (c.at \in {"children", "file"} => c.folder \in SettingsFolders)

PageOK ==
    /\ setting \in {Null, Custom} \cup SettingsFiles
    /\ settings \in Nat /\ isLoading \in BOOLEAN
    /\ reads \subseteq [of : SettingsFiles, n : Nat, data : {Null} \cup Nat, served : BOOLEAN]
    /\ writes \subseteq [file : SettingsFiles, data : Nat, at : {"get", "put", "answer"},
                         mine : BOOLEAN, n : Nat]

LEMMA SettingsParts ==
    SettingsOK <=> /\ drawer \in Drawers /\ files \subseteq SettingsFiles
                   /\ \A c \in checks : CheckOK(c)
                   /\ PageOK
BY DEF SettingsOK, CheckOK, Checks, PageOK

LEMMA DrawerTyped ==
    ASSUME NEW d, d \in Drawers, files \subseteq SettingsFiles, DrawerBecomes(d)
    PROVE  drawer' \in Drawers /\ files' \subseteq SettingsFiles
BY DEF DrawerBecomes

\* One request of the icon's click.
LEMMA CheckAdvances ==
    ASSUME TreeOK, SettingsOK, CheckServed
    PROVE  \E c \in checks : \E d : checks' = (checks \ {c}) \cup {d} /\ CheckOK(d)'
<1>1. PICK m : m = NewId
  OBVIOUS
<1>2. PICK c \in checks :
        LET becomes(d) == checks' = (checks \ {c}) \cup {d}
        IN  \/ /\ c.at = "nodes"
               /\ becomes(IF SettingsFolders = {} THEN [c EXCEPT !.at = "folder"]
                          ELSE [c EXCEPT !.at = "children", !.folder = First(SettingsFolders)])
            \/ /\ c.at = "folder"
               /\ CreateNode("settings", Null, TRUE, Null)
               /\ becomes([c EXCEPT !.at = "children", !.folder = m])
            \/ c.at = "children" /\ becomes(AfterChildren(c))
            \/ c.at = "file" /\ becomes([c EXCEPT !.at = "done"])
  BY <1>1 DEF CheckServed
<1>3. c \in Checks /\ (c.at \in {"children", "file"} => c.folder \in SettingsFolders)
  BY SettingsParts DEF CheckOK
<1>4. SettingsFolders \subseteq SettingsFolders' /\ SettingsFolders \subseteq Nat
  BY CheckServedNodes, TreeFacts
<1>5. ASSUME NEW d, checks' = (checks \ {c}) \cup {d}, d \in Checks,
             d.at \in {"children", "file"} => d.folder \in SettingsFolders'
      PROVE  \E e \in checks : \E f : checks' = (checks \ {e}) \cup {f} /\ CheckOK(f)'
  <2>1. CheckOK(d)'
    BY <1>5 DEF CheckOK, Checks, Drawers
  <2>2. QED  BY <1>5, <2>1
<1>6. CASE c.at = "nodes"
  <2>1. CASE SettingsFolders = {}
    <3>1. PICK d : d = [c EXCEPT !.at = "folder"]
      OBVIOUS
    <3>2. d \in Checks /\ d.at = "folder"
      BY <1>3, <3>1 DEF Checks
    <3>3. checks' = (checks \ {c}) \cup {d}
      BY <1>2, <1>6, <2>1, <3>1
    <3>4. QED  BY <1>5, <3>2, <3>3
  <2>2. CASE SettingsFolders # {}
    <3>1. PICK d : d = [c EXCEPT !.at = "children", !.folder = First(SettingsFolders)]
      OBVIOUS
    <3>2. First(SettingsFolders) \in SettingsFolders
      BY <1>4, <2>2, FirstIs
    <3>3. d \in Checks /\ d.folder = First(SettingsFolders)
      BY <1>3, <1>4, <3>1, <3>2 DEF Checks
    <3>4. checks' = (checks \ {c}) \cup {d}
      BY <1>2, <1>6, <2>2, <3>1
    <3>5. QED  BY <1>4, <1>5, <3>2, <3>3, <3>4
  <2>3. QED  BY <2>1, <2>2
<1>7. CASE c.at = "folder"
  <2>1. PICK d : d = [c EXCEPT !.at = "children", !.folder = m]
    OBVIOUS
  <2>2. CreateNode("settings", Null, TRUE, Null) /\ checks' = (checks \ {c}) \cup {d}
    BY <1>2, <1>7, <2>1
  <2>3. m \in SettingsFolders' /\ m \in Nat
    BY <1>1, <2>2, SettingsFolderMade DEF NewDocument
  <2>4. d \in Checks /\ d.folder = m
    BY <1>3, <2>1, <2>3 DEF Checks
  <2>5. QED  BY <1>5, <2>2, <2>3, <2>4
<1>8. CASE c.at = "children"
  <2>1. PICK d : d = AfterChildren(c)
    OBVIOUS
  <2>2. d \in Checks /\ d.folder = c.folder
    BY <1>3, <2>1 DEF Checks, AfterChildren
  <2>3. checks' = (checks \ {c}) \cup {d}
    BY <1>2, <1>8, <2>1
  <2>4. QED  BY <1>3, <1>4, <1>5, <1>8, <2>2, <2>3
<1>9. CASE c.at = "file"
  <2>1. PICK d : d = [c EXCEPT !.at = "done"]
    OBVIOUS
  <2>2. d \in Checks /\ d.at = "done"
    BY <1>3, <2>1 DEF Checks
  <2>3. checks' = (checks \ {c}) \cup {d}
    BY <1>2, <1>9, <2>1
  <2>4. QED  BY <1>5, <2>2, <2>3
<1>10. QED  BY <1>2, <1>6, <1>7, <1>8, <1>9

\* Checks, files of the list and of the page are of settings folders.
LEMMA SettingsTyped ==
    ASSUME asked \in Nat, TreeOK, SettingsOK, SettingsStep
    PROVE  SettingsOK'
<1>1. /\ drawer \in Drawers /\ files \subseteq SettingsFiles
      /\ \A c \in checks : CheckOK(c)
      /\ PageOK
  BY SettingsParts
<1>2. ASSUME UNCHANGED nodes
      PROVE  SettingsFolders' = SettingsFolders /\ SettingsFiles' = SettingsFiles
  BY <1>2, NodesUnchanged DEF SettingsKept
<1>3. ASSUME SettingsFolders \subseteq SettingsFolders', SettingsFiles \subseteq SettingsFiles',
             drawer' \in Drawers, files' \subseteq SettingsFiles',
             \A c \in checks' : c \in checks \/ CheckOK(c)', PageOK'
      PROVE  SettingsOK'
  <2>1. \A c \in checks : CheckOK(c)'
    BY <1>1, <1>3 DEF CheckOK, Checks, Drawers
  <2>2. /\ drawer' \in Drawers /\ files' \subseteq SettingsFiles'
        /\ \A c \in checks' : CheckOK(c)'
        /\ PageOK'
    BY <1>3, <2>1
  <2>3. QED  BY <2>2 DEF SettingsOK, CheckOK, Checks, PageOK, Drawers
<1>4. ASSUME SettingsFiles \subseteq SettingsFiles',
             UNCHANGED <<setting, settings, isLoading, reads, writes>>
      PROVE  PageOK'
  <2>1. /\ \A r \in reads : r \in [of : SettingsFiles', n : Nat, data : {Null} \cup Nat,
                                    served : BOOLEAN]
        /\ \A w \in writes : w \in [file : SettingsFiles', data : Nat,
                                    at : {"get", "put", "answer"}, mine : BOOLEAN, n : Nat]
    BY <1>1, <1>4 DEF PageOK
  <2>2. QED  BY <1>1, <1>4, <2>1 DEF PageOK
<1>5. CASE HandleDrawerToggle \/ HandleWorkspaceClick \/ CheckDone
  <2>1. PICK d : DrawerBecomes(d) /\ d \in Drawers
    <3>1. CASE HandleDrawerToggle
      <4>1. [drawer EXCEPT !.open = ~@] \in Drawers
        BY <1>1 DEF Drawers
      <4>2. QED  BY <3>1, <4>1 DEF HandleDrawerToggle
    <3>2. CASE HandleWorkspaceClick
      <4>1. [drawer EXCEPT !.open = FALSE] \in Drawers
            /\ [type |-> "workspace", open |-> TRUE] \in Drawers
        BY <1>1 DEF Drawers
      <4>2. QED  BY <3>2, <4>1 DEF HandleWorkspaceClick
    <3>3. CASE CheckDone
      <4>1. PICK c \in checks :
              DrawerBecomes([open |-> IF c.was.open /\ c.was.type # "settings" THEN drawer.open
                                      ELSE ~drawer.open,
                             type |-> IF c.was = [type |-> "settings", open |-> TRUE]
                                      THEN drawer.type ELSE "settings"])
        BY <3>3 DEF CheckDone
      <4>2. drawer.open \in BOOLEAN /\ drawer.type \in {Null, "settings", "workspace"}
        BY <1>1 DEF Drawers
      <4>3. PICK toggled \in BOOLEAN :
              toggled = IF c.was.open /\ c.was.type # "settings" THEN drawer.open
                        ELSE ~drawer.open
        BY <4>2
      <4>4. PICK type \in {Null, "settings", "workspace"} :
              type = IF c.was = [type |-> "settings", open |-> TRUE]
                     THEN drawer.type ELSE "settings"
        BY <4>2
      <4>5. [open |-> toggled, type |-> type] \in Drawers
        BY <4>3, <4>4 DEF Drawers
      <4>6. QED  BY <4>1, <4>3, <4>4, <4>5
    <3>4. QED  BY <1>5, <3>1, <3>2, <3>3
  <2>2. /\ UNCHANGED nodes /\ checks' \subseteq checks
        /\ UNCHANGED <<setting, settings, isLoading, reads, writes>>
    BY <1>5 DEF HandleDrawerToggle, HandleWorkspaceClick, CheckDone, nodeVars
  <2>3. drawer' \in Drawers /\ files' \subseteq SettingsFiles
    BY <1>1, <2>1, DrawerTyped
  <2>4. QED  BY <1>2, <1>3, <1>4, <2>2, <2>3
<1>6. CASE HandleSettingsClick
  <2>1. PICK c : c = [n |-> asked', was |-> drawer, at |-> "nodes", folder |-> Null]
    OBVIOUS
  <2>2. /\ asked' \in Nat /\ checks' = checks \cup {c}
        /\ UNCHANGED <<nodes, drawer, files, setting, settings, isLoading, reads, writes>>
    BY <1>6, <2>1 DEF HandleSettingsClick, Ask
  <2>3. CheckOK(c)'
    BY <1>1, <2>1, <2>2 DEF CheckOK, Checks, Drawers
  <2>4. QED  BY <1>1, <1>2, <1>3, <1>4, <2>2, <2>3
<1>7. CASE CheckServed
  <2>1. PICK c \in checks : \E d : checks' = (checks \ {c}) \cup {d} /\ CheckOK(d)'
    BY <1>7, CheckAdvances
  <2>2. /\ SettingsFolders \subseteq SettingsFolders' /\ SettingsFiles \subseteq SettingsFiles'
        /\ UNCHANGED <<drawer, files, setting, settings, isLoading, reads, writes>>
    BY <1>7, CheckServedNodes DEF CheckServed
  <2>3. QED  BY <1>1, <1>3, <1>4, <2>1, <2>2
<1>8. CASE CheckFails
  <2>1. PICK c \in checks : checks' = (checks \ {c}) \cup {[c EXCEPT !.at = "done"]}
    BY <1>8 DEF CheckFails
  <2>2. PICK d : d = [c EXCEPT !.at = "done"]
    OBVIOUS
  <2>3. c \in Checks
    BY <1>1 DEF CheckOK
  <2>4. CheckOK(d)'
    BY <2>2, <2>3 DEF CheckOK, Checks, Drawers
  <2>5. UNCHANGED <<nodes, drawer, files, setting, settings, isLoading, reads, writes>>
    BY <1>8 DEF CheckFails, nodeVars
  <2>6. QED  BY <1>1, <1>2, <1>3, <1>4, <2>1, <2>2, <2>4, <2>5
<1>9. CASE FetchSettingsFolder
  <2>1. SettingsFolders # {} => FilesOf(First(SettingsFolders)) \subseteq SettingsFiles
    <3>1. SettingsFolders \subseteq Nat
      BY TreeFacts
    <3>2. QED  BY <3>1, FirstIs DEF SettingsFiles
  <2>2. files' \subseteq SettingsFiles
    BY <1>1, <1>9, <2>1 DEF FetchSettingsFolder
  <2>3. UNCHANGED <<nodes, drawer, checks, setting, settings, isLoading, reads, writes>>
    BY <1>9 DEF FetchSettingsFolder, nodeVars
  <2>4. QED  BY <1>1, <1>2, <1>3, <1>4, <2>2, <2>3
<1>10. ASSUME UNCHANGED <<drawer, files, checks>>, PageOK',
              SettingsFolders' = SettingsFolders, SettingsFiles' = SettingsFiles
       PROVE  SettingsOK'
  BY <1>1, <1>3, <1>10
<1>11. ASSUME NEW id \in SettingsFiles \cup {Custom}, FetchSettings(id), asked' \in Nat,
              setting' = id, UNCHANGED <<nodes, writes>>
       PROVE  PageOK'
  <2>1. CASE id = Custom
    BY <1>1, <1>2, <1>11, <2>1 DEF FetchSettings, PageOK, Defaults
  <2>2. CASE id # Custom
    <3>1. PICK r : r = [of |-> id, n |-> asked', data |-> Null, served |-> FALSE]
      OBVIOUS
    <3>2. r \in [of : SettingsFiles, n : Nat, data : {Null} \cup Nat, served : BOOLEAN]
      BY <1>11, <2>2, <3>1
    <3>3. reads' = reads \cup {r} /\ isLoading' = TRUE /\ settings' = settings
      BY <1>11, <2>2, <3>1 DEF FetchSettings
    <3>4. QED  BY <1>1, <1>2, <1>11, <3>2, <3>3 DEF PageOK
  <2>3. QED  BY <2>1, <2>2
<1>12. CASE \E id \in files \cup {Custom} : HandleSettingClick(id)
  <2>1. PICK id \in files \cup {Custom} : HandleSettingClick(id)
    BY <1>12
  <2>2. id \in SettingsFiles \cup {Custom}
    BY <1>1
  <2>3. /\ FetchSettings(id) /\ asked' \in Nat /\ setting' = id /\ UNCHANGED <<nodes, writes>>
        /\ UNCHANGED <<drawer, files, checks>>
    BY <2>1 DEF HandleSettingClick, Ask
  <2>4. QED  BY <1>2, <1>10, <1>11, <2>2, <2>3
<1>13. CASE Reload
  <2>1. setting \in SettingsFiles \cup {Custom}
    BY <1>1, <1>13 DEF Reload, PageOK
  <2>2. /\ FetchSettings(setting) /\ asked' \in Nat /\ setting' = setting
        /\ UNCHANGED <<nodes, writes>> /\ UNCHANGED <<drawer, files, checks>>
    BY <1>13 DEF Reload, Ask
  <2>3. QED  BY <1>2, <1>10, <1>11, <2>1, <2>2
<1>14. CASE HandleSave
  <2>1. PICK w : w = [file |-> setting, data |-> settings, at |-> "get", mine |-> TRUE,
                      n |-> asked']
    OBVIOUS
  <2>2. setting \in SettingsFiles /\ settings \in Nat /\ asked' \in Nat
    BY <1>1, <1>14 DEF HandleSave, PageOK, Ask
  <2>3. w \in [file : SettingsFiles, data : Nat, at : {"get", "put", "answer"},
               mine : BOOLEAN, n : Nat]
    BY <2>1, <2>2
  <2>4. /\ writes' = writes \cup {w}
        /\ UNCHANGED <<nodes, drawer, files, checks, setting, settings, isLoading, reads>>
    BY <1>14, <2>1 DEF HandleSave
  <2>5. PageOK'
    BY <1>1, <1>2, <2>3, <2>4 DEF PageOK
  <2>6. QED  BY <1>2, <1>10, <2>4, <2>5
<1>15. CASE ReadServed
  <2>1. PICK r \in reads : reads' = (reads \ {r}) \cup {[r EXCEPT !.data = nodes[r.of].data, !.served = TRUE]}
    BY <1>15 DEF ReadServed
  <2>2. PICK q : q = [r EXCEPT !.data = nodes[r.of].data, !.served = TRUE]
    OBVIOUS
  <2>3. r \in [of : SettingsFiles, n : Nat, data : {Null} \cup Nat, served : BOOLEAN]
    BY <1>1 DEF PageOK
  <2>4. nodes[r.of].data \in {Null} \cup Nat
    BY <2>3 DEF TreeOK
  <2>5. q \in [of : SettingsFiles, n : Nat, data : {Null} \cup Nat, served : BOOLEAN]
    BY <2>2, <2>3, <2>4
  <2>6. UNCHANGED <<nodes, drawer, files, checks, setting, settings, isLoading, writes>>
    BY <1>15 DEF ReadServed, nodeVars
  <2>7. PageOK'
    BY <1>1, <1>2, <2>1, <2>2, <2>5, <2>6 DEF PageOK
  <2>8. QED  BY <1>2, <1>10, <2>6, <2>7
<1>16. CASE ReadAnswered
  <2>1. PICK r \in reads : /\ reads' = reads \ {r}
                           /\ settings' = IF r.data = Null THEN settings ELSE r.data
    BY <1>16 DEF ReadAnswered
  <2>2. settings' \in Nat
    BY <1>1, <2>1 DEF PageOK
  <2>3. isLoading' = FALSE /\ UNCHANGED <<nodes, drawer, files, checks, setting, writes>>
    BY <1>16 DEF ReadAnswered
  <2>4. PageOK'
    BY <1>1, <1>2, <2>1, <2>2, <2>3 DEF PageOK
  <2>5. QED  BY <1>2, <1>10, <2>3, <2>4
<1>17. CASE ReadFails
  <2>1. /\ isLoading' = FALSE /\ reads' \subseteq reads
        /\ UNCHANGED <<nodes, drawer, files, checks, setting, settings, writes>>
    BY <1>17 DEF ReadFails
  <2>2. PageOK'
    BY <1>1, <1>2, <2>1 DEF PageOK
  <2>3. QED  BY <1>2, <1>10, <2>1, <2>2
<1>18. CASE WriteServed
  <2>1. PICK w \in writes :
            \/ writes' = (writes \ {w}) \cup {[w EXCEPT !.at = "put"]}
            \/ writes' = (writes \ {w}) \cup {[w EXCEPT !.at = "answer"]}
    BY <1>18 DEF WriteServed
  <2>2. w \in [file : SettingsFiles, data : Nat, at : {"get", "put", "answer"},
               mine : BOOLEAN, n : Nat]
    BY <1>1 DEF PageOK
  <2>3. PICK v : /\ v \in [file : SettingsFiles, data : Nat, at : {"get", "put", "answer"},
                           mine : BOOLEAN, n : Nat]
                 /\ writes' = (writes \ {w}) \cup {v}
    BY <2>1, <2>2
  <2>4. /\ SettingsFolders' = SettingsFolders /\ SettingsFiles' = SettingsFiles
        /\ UNCHANGED <<drawer, files, checks, setting, settings, isLoading, reads>>
    BY <1>18, WriteServedNodes DEF WriteServed
  <2>5. PageOK'
    BY <1>1, <2>3, <2>4 DEF PageOK
  <2>6. QED  BY <1>10, <2>4, <2>5
<1>19. CASE WriteEnds
  <2>1. /\ writes' \subseteq writes
        /\ UNCHANGED <<nodes, drawer, files, checks, setting, settings, isLoading, reads>>
    BY <1>19 DEF WriteEnds, nodeVars
  <2>2. PageOK'
    BY <1>1, <1>2, <2>1 DEF PageOK
  <2>3. QED  BY <1>2, <1>10, <2>1, <2>2
<1>20. CASE LeaveSettings /\ UNCHANGED nodes
  <2>1. /\ setting' = Null /\ settings' = 0 /\ isLoading' = FALSE /\ reads' = {}
        /\ writes' = {[w EXCEPT !.mine = FALSE] : w \in writes}
        /\ UNCHANGED <<drawer, files, checks>>
    BY <1>20 DEF LeaveSettings, Defaults
  <2>2. \A w \in writes : [w EXCEPT !.mine = FALSE] \in
            [file : SettingsFiles, data : Nat, at : {"get", "put", "answer"},
             mine : BOOLEAN, n : Nat]
    BY <1>1 DEF PageOK
  <2>3. PageOK'
    BY <1>2, <1>20, <2>1, <2>2 DEF PageOK
  <2>4. QED  BY <1>2, <1>10, <1>20, <2>1, <2>3
<1>21. QED  BY <1>5, <1>6, <1>7, <1>8, <1>9, <1>12, <1>13, <1>14, <1>15, <1>16, <1>17, <1>18,
               <1>19, <1>20 DEF SettingsStep

\* Other steps of the pages leave the settings as they are.
LEMMA SettingsStay ==
    ASSUME TreeOK, SettingsOK, UNCHANGED settingsVars, SettingsKept
    PROVE  SettingsOK' /\ (IsOneFolder => IsOneFolder') /\ (AreOwn => AreOwn')
<1>1. UNCHANGED <<drawer, checks, files, setting, settings, isLoading, reads, writes>>
  BY DEF settingsVars
<1>2. SettingsOK'
  BY <1>1 DEF SettingsOK, SettingsKept, Drawers, Custom
<1>3. \A p \in SettingsFolders : GetNodeChildren(p) \subseteq DOMAIN nodes
  BY DEF GetNodeChildren
<1>4. ASSUME IsOneFolder
      PROVE  IsOneFolder'
  <2>1. ASSUME NEW c \in checks, c.at = "file"
        PROVE  /\ GetNodeChildren(c.folder)' = GetNodeChildren(c.folder)
               /\ \A n \in GetNodeChildren(c.folder) : ~IsSimSettings(n)'
    <3>1. c.folder \in SettingsFolders
      BY <2>1 DEF SettingsOK
    <3>2. PICK p : p = c.folder
      OBVIOUS
    <3>3. GetNodeChildren(p)' = GetNodeChildren(p)
      BY <3>1, <3>2 DEF SettingsKept
    <3>4. \A n \in GetNodeChildren(p) : ~IsSimSettings(n)
      BY <1>4, <2>1, <3>2 DEF IsOneFolder
    <3>5. \A n \in GetNodeChildren(p) : ~IsSimSettings(n)'
      BY <1>3, <3>1, <3>2, <3>4 DEF SettingsKept
    <3>6. QED  BY <3>2, <3>3, <3>5
  <2>2. QED  BY <1>1, <1>4, <2>1 DEF IsOneFolder, SettingsKept
<1>5. AreOwn => AreOwn'
  <2>1. SettingsFiles \subseteq DOMAIN nodes
    BY TreeFacts
  <2>2. \A n \in SettingsFiles : OwnData(n)' = OwnData(n)
    BY <2>1 DEF SettingsKept
  <2>3. /\ \A r \in reads : r.of \in SettingsFiles
        /\ \A w \in writes : w.file \in SettingsFiles
        /\ setting \in {Null, Custom} \cup SettingsFiles
    BY DEF SettingsOK
  <2>4. QED  BY <1>1, <2>2, <2>3 DEF AreOwn, SettingsKept, Custom
<1>6. QED  BY <1>2, <1>4, <1>5

\* A check makes a folder or a file only when it found none, and no other check
\* can have made one since.
LEMMA OneFolderKept ==
    ASSUME TreeOK, SettingsOK, OneFolder, SettingsStep
    PROVE  OneFolder'
<1>1. SUFFICES ASSUME "twice" \notin strains'
               PROVE  IsOneFolder'
  BY DEF OneFolder
<1>2. strains \subseteq strains'
  BY DEF SettingsStep, HandleDrawerToggle, HandleWorkspaceClick, CheckDone,
         HandleSettingsClick, Reload, HandleSave, HandleSettingClick, CheckServed, CheckFails,
         FetchSettingsFolder, ReadServed, ReadAnswered, ReadFails, WriteServed, WriteEnds,
         Strained, nodeVars
<1>3. IsOneFolder
  BY <1>1, <1>2 DEF OneFolder
<1>4. ASSUME SettingsFolders' = SettingsFolders, SimSettings' = SimSettings,
             \A p : GetNodeChildren(p)' = GetNodeChildren(p),
             \A n \in DOMAIN nodes : IsSimSettings(n)' = IsSimSettings(n),
             \A c \in checks' : c \in checks \/ c.at \notin {"folder", "file"},
             \A c, d \in checks' : c = d
      PROVE  IsOneFolder'
  <2>1. \A p : GetNodeChildren(p) \subseteq DOMAIN nodes
    BY DEF GetNodeChildren
  <2>2. ASSUME NEW c \in checks', c.at = "file", NEW n \in GetNodeChildren(c.folder)'
        PROVE  ~IsSimSettings(n)'
    <3>1. c \in checks /\ GetNodeChildren(c.folder)' = GetNodeChildren(c.folder)
      BY <1>4, <2>2
    <3>2. n \in DOMAIN nodes /\ ~IsSimSettings(n)
      BY <1>3, <2>1, <2>2, <3>1 DEF IsOneFolder
    <3>3. QED  BY <1>4, <3>2
  <2>3. QED  BY <1>3, <1>4, <2>2 DEF IsOneFolder
<1>5. ASSUME UNCHANGED nodes
      PROVE  /\ SettingsFolders' = SettingsFolders /\ SimSettings' = SimSettings
             /\ \A p : GetNodeChildren(p)' = GetNodeChildren(p)
             /\ \A n \in DOMAIN nodes : IsSimSettings(n)' = IsSimSettings(n)
  <2>1. SameFolders
    BY <1>5 DEF SameFolders
  <2>2. QED  BY <1>5, <2>1, SameSets DEF IsSimSettings
<1>6. CASE HandleSettingsClick
  <2>1. PICK c : c = [n |-> asked', was |-> drawer, at |-> "nodes", folder |-> Null]
    OBVIOUS
  <2>2. checks = {}
    BY <1>1, <1>6 DEF HandleSettingsClick, Strained
  <2>3. checks' = {c} /\ c.at = "nodes" /\ UNCHANGED nodes
    BY <1>6, <2>1, <2>2 DEF HandleSettingsClick
  <2>4. QED  BY <1>4, <1>5, <2>3
<1>7. CASE CheckFails
  <2>1. PICK c \in checks : checks' = (checks \ {c}) \cup {[c EXCEPT !.at = "done"]}
    BY <1>7 DEF CheckFails
  <2>2. PICK d : d = [c EXCEPT !.at = "done"]
    OBVIOUS
  <2>3. c \in Checks
    BY SettingsParts DEF CheckOK
  <2>4. d.at = "done" /\ checks' = {d} /\ UNCHANGED nodes
    BY <1>3, <1>7, <2>1, <2>2, <2>3 DEF Checks, CheckFails, nodeVars, IsOneFolder
  <2>5. QED  BY <1>4, <1>5, <2>4
<1>8. CASE CheckServed
  <2>1. PICK m : m = NewId
    OBVIOUS
  <2>2. PICK c \in checks :
          LET becomes(d) == checks' = (checks \ {c}) \cup {d}
          IN  \/ /\ c.at = "nodes"
                 /\ becomes(IF SettingsFolders = {} THEN [c EXCEPT !.at = "folder"]
                            ELSE [c EXCEPT !.at = "children", !.folder = First(SettingsFolders)])
                 /\ UNCHANGED nodes
              \/ /\ c.at = "folder"
                 /\ CreateNode("settings", Null, TRUE, Null)
                 /\ becomes([c EXCEPT !.at = "children", !.folder = m])
              \/ c.at = "children" /\ becomes(AfterChildren(c)) /\ UNCHANGED nodes
              \/ /\ c.at = "file"
                 /\ CreateNode("sim_settings", c.folder, FALSE, m)
                 /\ becomes([c EXCEPT !.at = "done"])
    BY <1>8, <2>1 DEF CheckServed
  <2>3. checks = {c} /\ c \in Checks
    BY <1>3, SettingsParts DEF CheckOK, IsOneFolder
  <2>4. CASE c.at = "nodes"
    <3>1. PICK d : d = IF SettingsFolders = {} THEN [c EXCEPT !.at = "folder"]
                       ELSE [c EXCEPT !.at = "children", !.folder = First(SettingsFolders)]
      OBVIOUS
    <3>2. checks' = {d} /\ UNCHANGED nodes
      BY <2>2, <2>3, <2>4, <3>1
    <3>3. CASE SettingsFolders = {}
      <4>1. d.at = "folder"
        BY <2>3, <3>1, <3>3 DEF Checks
      <4>2. QED  BY <1>3, <1>5, <3>2, <3>3, <4>1 DEF IsOneFolder
    <3>4. CASE SettingsFolders # {}
      <4>1. d.at = "children"
        BY <2>3, <3>1, <3>4 DEF Checks
      <4>2. QED  BY <1>4, <1>5, <3>2, <4>1
    <3>5. QED  BY <3>3, <3>4
  <2>5. CASE c.at = "folder"
    <3>1. PICK d : d = [c EXCEPT !.at = "children", !.folder = m]
      OBVIOUS
    <3>2. d.at = "children"
      BY <2>3, <3>1 DEF Checks
    <3>3. CreateNode("settings", Null, TRUE, Null) /\ checks' = {d}
      BY <2>2, <2>3, <2>5, <3>1
    <3>4. SettingsFolders = {} /\ SettingsFolders' = SettingsFolders \cup {m}
          /\ SimSettings' = SimSettings
      BY <1>3, <2>1, <2>3, <2>5, <3>3, SettingsFolderMade DEF IsOneFolder
    <3>5. QED  BY <1>3, <3>2, <3>3, <3>4 DEF IsOneFolder
  <2>6. CASE c.at = "children"
    <3>1. PICK d : d = AfterChildren(c)
      OBVIOUS
    <3>2. checks' = {d} /\ UNCHANGED nodes
      BY <2>2, <2>3, <2>6, <3>1
    <3>3. CASE \E n \in GetNodeChildren(c.folder) : IsSimSettings(n)
      <4>1. d.at = "done"
        BY <2>3, <3>1, <3>3 DEF Checks, AfterChildren
      <4>2. QED  BY <1>4, <1>5, <3>2, <4>1
    <3>4. CASE \A n \in GetNodeChildren(c.folder) : ~IsSimSettings(n)
      <4>1. d.at = "file" /\ d.folder = c.folder
        BY <2>3, <3>1, <3>4 DEF Checks, AfterChildren
      <4>2. GetNodeChildren(d.folder)' = GetNodeChildren(c.folder)
            /\ GetNodeChildren(c.folder) \subseteq DOMAIN nodes
        BY <1>5, <3>2, <4>1 DEF GetNodeChildren
      <4>3. \A n \in GetNodeChildren(d.folder)' : ~IsSimSettings(n)'
        BY <1>5, <3>2, <3>4, <4>2
      <4>4. QED  BY <1>3, <1>5, <3>2, <4>1, <4>3 DEF IsOneFolder
    <3>5. QED  BY <3>3, <3>4
  <2>7. CASE c.at = "file"
    <3>1. PICK d : d = [c EXCEPT !.at = "done"]
      OBVIOUS
    <3>2. d.at = "done"
      BY <2>3, <3>1 DEF Checks
    <3>3. CreateNode("sim_settings", c.folder, FALSE, m) /\ checks' = {d}
      BY <2>2, <2>3, <2>7, <3>1
    <3>4. c.folder \in SettingsFolders
      BY <2>7 DEF SettingsOK
    <3>5. SettingsFolders' = SettingsFolders /\ SimSettings' = SimSettings \cup {m}
      BY <2>1, <3>3, <3>4, SettingsFileMade
    <3>6. SimSettings = {}
      <4>1. \A n \in GetNodeChildren(c.folder) : ~IsSimSettings(n)
        BY <1>3, <2>7 DEF IsOneFolder
      <4>2. SettingsFolders = {c.folder}
        BY <1>3, <3>4 DEF IsOneFolder
      <4>3. SettingsFiles \subseteq GetNodeChildren(c.folder)
        BY <4>2 DEF SettingsFiles, FilesOf
      <4>4. QED  BY <4>1, <4>3 DEF SimSettings
    <3>7. QED  BY <1>3, <3>2, <3>3, <3>5, <3>6 DEF IsOneFolder
  <2>8. QED  BY <2>2, <2>4, <2>5, <2>6, <2>7
<1>9. CASE WriteServed
  <2>1. UNCHANGED checks
    BY <1>9 DEF WriteServed
  <2>2. QED  BY <1>3, <1>4, <1>9, <2>1, WriteServedNodes DEF IsOneFolder
<1>10. ASSUME UNCHANGED nodes, checks' \subseteq checks
       PROVE  IsOneFolder'
  BY <1>3, <1>4, <1>5, <1>10 DEF IsOneFolder
<1>11. CASE \/ HandleDrawerToggle \/ HandleWorkspaceClick \/ CheckDone \/ Reload \/ HandleSave
            \/ \E id \in files \cup {Custom} : HandleSettingClick(id)
            \/ FetchSettingsFolder \/ ReadServed \/ ReadAnswered \/ ReadFails \/ WriteEnds
            \/ LeaveSettings /\ UNCHANGED nodes
  <2>1. UNCHANGED nodes /\ checks' \subseteq checks
    BY <1>11 DEF HandleDrawerToggle, HandleWorkspaceClick, CheckDone, Reload, HandleSave,
         HandleSettingClick, FetchSettingsFolder, ReadServed, ReadAnswered, ReadFails,
         WriteEnds, LeaveSettings, nodeVars
  <2>2. QED  BY <1>10, <2>1
<1>12. QED  BY <1>6, <1>7, <1>8, <1>9, <1>11 DEF SettingsStep

\* What a file is overwritten with was read from it: a page that shows something
\* else is loading, or its reading was outrun.
LEMMA OwnSettingsKept ==
    ASSUME TreeOK, SettingsOK, OwnSettings, SettingsStep
    PROVE  OwnSettings'
<1>1. SUFFICES ASSUME "misread" \notin strains'
               PROVE  AreOwn'
  BY DEF OwnSettings
<1>2. strains \subseteq strains'
  BY DEF SettingsStep, HandleDrawerToggle, HandleWorkspaceClick, CheckDone,
         HandleSettingsClick, Reload, HandleSave, HandleSettingClick, CheckServed, CheckFails,
         FetchSettingsFolder, ReadServed, ReadAnswered, ReadFails, WriteServed, WriteEnds,
         Strained, nodeVars
<1>3. AreOwn
  BY <1>1, <1>2 DEF OwnSettings
<1>4. PageOK
  BY SettingsParts
<1>0. SettingsFiles \subseteq DOMAIN nodes /\ 0 \notin DOMAIN nodes
  BY TreeFacts
<1>5. ASSUME UNCHANGED nodes
      PROVE  /\ SettingsFiles' = SettingsFiles
             /\ \A n \in SettingsFiles' : nodes'[n].data = OwnData(n)'
             /\ \A n : OwnData(n)' = OwnData(n)
  <2>1. \A n : OwnData(n)' = OwnData(n)
    BY <1>5 DEF OwnData, Defaults
  <2>2. SettingsFiles' = SettingsFiles
    BY <1>5, NodesUnchanged DEF SettingsKept
  <2>3. QED  BY <1>3, <1>5, <2>1, <2>2 DEF AreOwn
\* Of which files the page's data is.
<1>20. /\ \A r \in reads : r.of \in SettingsFiles
       /\ \A w \in writes : w.file \in SettingsFiles
       /\ setting \in {Null, Custom} \cup SettingsFiles
  BY <1>4 DEF PageOK
<1>6. ASSUME \A n \in SettingsFiles' : nodes'[n].data = OwnData(n)',
             \A n \in SettingsFiles : OwnData(n)' = OwnData(n),
             UNCHANGED <<setting, settings, isLoading, reads, writes>>
      PROVE  AreOwn'
  BY <1>3, <1>6, <1>20 DEF AreOwn, Custom
<1>7. CASE \/ HandleDrawerToggle \/ HandleWorkspaceClick \/ CheckDone
           \/ HandleSettingsClick \/ CheckFails \/ FetchSettingsFolder
  <2>1. UNCHANGED <<nodes, setting, settings, isLoading, reads, writes>>
    BY <1>7 DEF HandleDrawerToggle, HandleWorkspaceClick, CheckDone, HandleSettingsClick,
         CheckFails, FetchSettingsFolder, nodeVars
  <2>2. QED  BY <1>5, <1>6, <2>1
<1>8. CASE CheckServed
  <2>1. PICK m : m = NewId
    OBVIOUS
  <2>2. PICK c \in checks :
          \/ UNCHANGED nodes
          \/ CreateNode("settings", Null, TRUE, Null)
          \/ c.at = "file" /\ CreateNode("sim_settings", c.folder, FALSE, m)
    BY <1>8, <2>1 DEF CheckServed
  <2>3. SettingsFiles \subseteq DOMAIN nodes
    BY TreeFacts
  <2>4. UNCHANGED <<setting, settings, isLoading, reads, writes>>
    BY <1>8 DEF CheckServed
  <2>5. CASE CreateNode("settings", Null, TRUE, Null)
    <3>1. /\ SettingsFiles' = SettingsFiles
          /\ \A n \in DOMAIN nodes : nodes'[n] = nodes[n]
      BY <2>1, <2>5, SettingsFolderMade DEF NewDocument
    <3>2. \A n \in SettingsFiles : OwnData(n)' = OwnData(n)
      BY <2>3, <3>1 DEF OwnData, Defaults
    <3>3. \A n \in SettingsFiles' : nodes'[n].data = OwnData(n)'
      BY <1>3, <2>3, <3>1, <3>2 DEF AreOwn
    <3>4. QED  BY <1>6, <2>4, <3>2, <3>3
  <2>6. CASE c.at = "file" /\ CreateNode("sim_settings", c.folder, FALSE, m)
    <3>1. c.folder \in SettingsFolders
      BY <2>6 DEF SettingsOK
    <3>2. /\ SettingsFiles' = SettingsFiles \cup {m} /\ nodes'[m].data = m
          /\ nodes'[m].name = "sim_settings"
          /\ \A n \in DOMAIN nodes : nodes'[n] = nodes[n]
      BY <2>1, <2>6, <3>1, SettingsFileMade DEF NewDocument
    <3>3. \A n \in SettingsFiles : OwnData(n)' = OwnData(n)
      BY <2>3, <3>2 DEF OwnData, Defaults
    <3>4. OwnData(m)' = m
      BY <3>2 DEF OwnData
    <3>5. \A n \in SettingsFiles' : nodes'[n].data = OwnData(n)'
      BY <1>3, <2>3, <3>2, <3>3, <3>4 DEF AreOwn
    <3>6. QED  BY <1>6, <2>4, <3>3, <3>5
  <2>7. QED  BY <1>5, <1>6, <2>2, <2>4, <2>5, <2>6
<1>9. ASSUME NEW id \in SettingsFiles \cup {Custom}, FetchSettings(id), setting' = id,
             UNCHANGED <<nodes, writes>>
      PROVE  AreOwn'
  <2>1. CASE id = Custom
    BY <1>3, <1>5, <1>9, <2>1 DEF FetchSettings, AreOwn, Custom
  <2>2. CASE id # Custom
    <3>1. PICK r : r = [of |-> id, n |-> asked', data |-> Null, served |-> FALSE]
      OBVIOUS
    <3>2. reads' = reads \cup {r} /\ isLoading' = TRUE /\ r.served = FALSE
      BY <1>9, <2>2, <3>1 DEF FetchSettings
    <3>3. QED  BY <1>3, <1>5, <1>9, <3>2 DEF AreOwn
  <2>3. QED  BY <2>1, <2>2
<1>10. CASE \E id \in files \cup {Custom} : HandleSettingClick(id)
  <2>1. PICK id \in files \cup {Custom} : HandleSettingClick(id)
    BY <1>10
  <2>2. id \in SettingsFiles \cup {Custom}
    BY DEF SettingsOK
  <2>3. FetchSettings(id) /\ setting' = id /\ UNCHANGED <<nodes, writes>>
    BY <2>1 DEF HandleSettingClick
  <2>4. QED  BY <1>9, <2>2, <2>3
<1>11. CASE Reload
  <2>1. setting \in SettingsFiles \cup {Custom}
    BY <1>4, <1>11 DEF Reload, PageOK
  <2>2. FetchSettings(setting) /\ setting' = setting /\ UNCHANGED <<nodes, writes>>
    BY <1>11 DEF Reload
  <2>3. QED  BY <1>9, <2>1, <2>2
<1>12. CASE HandleSave
  <2>1. PICK w : w = [file |-> setting, data |-> settings, at |-> "get", mine |-> TRUE,
                      n |-> asked']
    OBVIOUS
  <2>2. w.data = settings /\ w.file = setting /\ settings = OwnData(setting)
    BY <1>3, <1>12, <2>1 DEF HandleSave, AreOwn
  <2>3. writes' = writes \cup {w} /\ UNCHANGED <<nodes, setting, settings, isLoading, reads>>
    BY <1>12, <2>1 DEF HandleSave
  <2>4. QED  BY <1>3, <1>5, <2>2, <2>3 DEF AreOwn, Custom
<1>13. CASE ReadServed
  <2>1. PICK r \in reads : reads' = (reads \ {r}) \cup {[r EXCEPT !.data = nodes[r.of].data, !.served = TRUE]}
    BY <1>13 DEF ReadServed
  <2>2. PICK q : q = [r EXCEPT !.data = nodes[r.of].data, !.served = TRUE]
    OBVIOUS
  <2>3. r \in [of : SettingsFiles, n : Nat, data : {Null} \cup Nat, served : BOOLEAN]
    BY <1>4 DEF PageOK
  <2>4. q.data = OwnData(q.of)
    BY <1>3, <2>2, <2>3 DEF AreOwn
  <2>5. /\ reads' = (reads \ {r}) \cup {q}
        /\ UNCHANGED <<nodes, setting, settings, isLoading, writes>>
    BY <1>13, <2>1, <2>2 DEF ReadServed, nodeVars
  <2>6. QED  BY <1>3, <1>5, <2>4, <2>5 DEF AreOwn, Custom
<1>14. CASE ReadAnswered
  <2>1. PICK r \in reads : /\ r.served /\ reads' = reads \ {r}
                           /\ settings' = IF r.data = Null THEN settings ELSE r.data
                           /\ Strained(r.of # setting \/ r.data = Null, "misread")
    BY <1>14 DEF ReadAnswered
  <2>2. r.of = setting /\ settings' = OwnData(setting)
    BY <1>1, <1>3, <2>1 DEF Strained, AreOwn
  <2>3. UNCHANGED <<nodes, setting, writes>>
    BY <1>14 DEF ReadAnswered
  <2>4. QED  BY <1>3, <1>5, <2>1, <2>2, <2>3 DEF AreOwn
<1>15. CASE ReadFails
  BY <1>1, <1>15 DEF ReadFails
<1>16. CASE WriteServed
  <2>1. PICK w \in writes :
            \/ UNCHANGED nodes /\ writes' = (writes \ {w}) \cup {[w EXCEPT !.at = "put"]}
            \/ /\ UpdateNode(w.file, w.data)
               /\ writes' = (writes \ {w}) \cup {[w EXCEPT !.at = "answer"]}
    BY <1>16 DEF WriteServed
  <2>2. w \in [file : SettingsFiles, data : Nat, at : {"get", "put", "answer"},
               mine : BOOLEAN, n : Nat]
    BY <1>4 DEF PageOK
  <2>3. PICK v : /\ v.data = OwnData(v.file) /\ v.file = w.file
                 /\ writes' = (writes \ {w}) \cup {v}
    BY <1>3, <2>1, <2>2 DEF AreOwn
  <2>4. SettingsFiles' = SettingsFiles /\ SettingsFiles \subseteq DOMAIN nodes
    BY <1>16, WriteServedNodes, TreeFacts
  <2>8. \A n \in SettingsFiles : OwnData(n)' = OwnData(n)
    BY <1>0, <1>16, WriteServedNodes
  <2>5. \A n \in SettingsFiles' : nodes'[n].data = OwnData(n)'
    <3>1. CASE UNCHANGED nodes
      BY <1>5, <3>1
    <3>2. CASE UpdateNode(w.file, w.data)
      <4>1. /\ nodes'[w.file].data = w.data
            /\ \A n \in DOMAIN nodes : n # w.file => nodes'[n] = nodes[n]
        BY <2>2, <3>2, UpdateKeepsTree
      <4>2. QED  BY <1>3, <2>4, <2>8, <4>1 DEF AreOwn
    <3>3. QED  BY <2>1, <3>1, <3>2
  <2>6. UNCHANGED <<setting, settings, isLoading, reads>>
    BY <1>16 DEF WriteServed
  <2>7. QED  BY <1>3, <1>20, <2>2, <2>3, <2>5, <2>6, <2>8 DEF AreOwn, Custom
<1>17. CASE WriteEnds
  BY <1>3, <1>5, <1>17 DEF WriteEnds, AreOwn, Custom, nodeVars
<1>18. CASE LeaveSettings /\ UNCHANGED nodes
  <2>1. /\ setting' = Null /\ reads' = {} /\ UNCHANGED nodes
        /\ writes' = {[w EXCEPT !.mine = FALSE] : w \in writes}
    BY <1>18 DEF LeaveSettings
  <2>2. \A v \in writes' : v.data = OwnData(v.file)
    BY <1>3, <1>4, <2>1 DEF AreOwn, PageOK
  <2>3. QED  BY <1>5, <2>1, <2>2 DEF AreOwn
<1>19. QED  BY <1>7, <1>8, <1>10, <1>11, <1>12, <1>13, <1>14, <1>15, <1>16, <1>17, <1>18
            DEF SettingsStep

------------------------------------------------------------------------------
(* The workspace *)

\* The actions of the workspace, and how it follows the drawer.
WorkspaceStep ==
    \/ \E kind \in Kinds : OpenDialog(kind)
    \/ CloseDialog \/ Submit
    \/ FindSettingsFolder \/ FetchServed \/ FetchAnswered \/ FetchFails
    \/ OrderServed \/ OrderAnswered

FollowStep ==
    \/ UnmountWorkspace \/ ResetToRoot \/ UNCHANGED workspaceVars
    \/ MountedWith({Fetch(Null, "list")} \cup {Fetch(Null, "find")})
    \/ MountedWith({Fetch(Null, "list")} \cup {})
    \/ /\ fetches' = fetches \cup {Fetch(Null, "find")} \/ fetches' = fetches \cup {}
       /\ UNCHANGED <<workspace, dialog, orders>>

\* More below the root only widens what the workspace may hold.
LEMMA WorkspaceWidens ==
    ASSUME Below \subseteq Below'
    PROVE  /\ \A f : FetchOK(f) => FetchOK(f)'
           /\ \A o : OrderOK(o) => OrderOK(o)'
           /\ workspace \in [parent : {Null} \cup Below, nodes : SUBSET Below] =>
                workspace \in [parent : {Null} \cup Below', nodes : SUBSET Below']
           /\ dialog \in {Null} \cup [kind : Kinds, selected : {Null} \cup Below] =>
                dialog \in {Null} \cup [kind : Kinds, selected : {Null} \cup Below']
<1>1. ASSUME NEW f, FetchOK(f)
      PROVE  FetchOK(f)'
  BY <1>1 DEF FetchOK, Fetches
<1>2. ASSUME NEW o, OrderOK(o)
      PROVE  OrderOK(o)'
  BY <1>2 DEF OrderOK, Orders, Kinds
<1>3. QED  BY <1>1, <1>2

\* The readings the pages begin.
LEMMA FetchBegins ==
    ASSUME NEW p, NEW n, NEW what, NEW f, n \in Nat, p \in {Null} \cup Below,
           what \in {"list", "find"},
           f = [of |-> p, n |-> n, for |-> what, nodes |-> Null]
    PROVE  FetchOK(f) /\ f.for = what /\ f.nodes = Null
BY DEF FetchOK, Fetches

\* All that the workspace holds is below the root.
LEMMA WorkspaceTyped ==
    ASSUME asked \in Nat, TreeOK, WorkspaceOK, Below \subseteq Below',
           WorkspaceStep \/ FollowStep
    PROVE  WorkspaceOK'
<1>1. /\ workspace \in [parent : {Null} \cup Below, nodes : SUBSET Below]
      /\ dialog \in {Null} \cup [kind : Kinds, selected : {Null} \cup Below]
      /\ \A f \in fetches : FetchOK(f)
      /\ \A o \in orders : OrderOK(o)
  BY DEF WorkspaceOK
<1>2. ASSUME NEW B, Below \subseteq B, B = Below',
             UNCHANGED workspace \/ workspace' \in [parent : {Null} \cup Below, nodes : SUBSET Below],
             UNCHANGED dialog \/ dialog' \in {Null} \cup [kind : Kinds, selected : {Null} \cup Below],
             \A f \in fetches' : f \in fetches \/ FetchOK(f),
             \A o \in orders' : o \in orders \/ OrderOK(o)
      PROVE  WorkspaceOK'
  <2>1. workspace' \in [parent : {Null} \cup B, nodes : SUBSET B]
    BY <1>1, <1>2
  <2>2. dialog' \in {Null} \cup [kind : Kinds, selected : {Null} \cup B]
    BY <1>1, <1>2
  <2>3. /\ \A f \in fetches' : FetchOK(f)'
        /\ \A o \in orders' : OrderOK(o)'
    BY <1>1, <1>2, WorkspaceWidens
  <2>4. QED  BY <1>2, <2>1, <2>2, <2>3 DEF WorkspaceOK, Kinds
<1>3. \A f, g : FetchOK(f) /\ f.for # "find" /\ g = [f EXCEPT !.nodes = ShownOf(f.of)]
                => FetchOK(g)
  <2>1. SUFFICES ASSUME NEW f, NEW g, FetchOK(f), f.for # "find",
                        g = [f EXCEPT !.nodes = ShownOf(f.of)]
                 PROVE  FetchOK(g)
    OBVIOUS
  <2>2. ShownOf(f.of) \subseteq Below
    BY <2>1, ShownIsBelow DEF FetchOK, Fetches
  <2>3. QED  BY <2>1, <2>2 DEF FetchOK, Fetches
<1>4. Null \in {Null} \cup Below /\ Root \in [parent : {Null} \cup Below, nodes : SUBSET Below]
  BY DEF Root
<1>5. ASSUME NEW F, MountedWith(F), \A f \in F : FetchOK(f)
      PROVE  WorkspaceOK'
  <2>1. \A o \in orders : OrderOK([o EXCEPT !.mine = FALSE])
    BY <1>1 DEF OrderOK, Orders
  <2>2. \A o \in orders' : OrderOK(o)
    BY <1>5, <2>1 DEF MountedWith
  <2>3. workspace' = Root /\ dialog' = Null /\ fetches' = F
    BY <1>5 DEF MountedWith
  <2>4. QED  BY <1>2, <1>4, <1>5, <2>2, <2>3
<1>6. PICK l, f : l = Fetch(Null, "list") /\ f = Fetch(Null, "find")
  OBVIOUS
<1>7. FetchOK(l) /\ FetchOK(f)
  BY <1>4, <1>6, FetchBegins DEF Fetch
<1>8. CASE FollowStep
  <2>1. CASE UnmountWorkspace
    BY <1>5, <2>1 DEF UnmountWorkspace
  <2>2. CASE MountedWith({l} \cup {f}) \/ MountedWith({l} \cup {})
    BY <1>5, <1>7, <2>2
  <2>3. CASE ResetToRoot
    BY <1>2, <1>4, <1>6, <1>7, <2>3 DEF ResetToRoot
  <2>4. CASE UNCHANGED workspaceVars
    BY <1>2, <2>4 DEF workspaceVars
  <2>5. CASE /\ fetches' = fetches \cup {f} \/ fetches' = fetches \cup {}
             /\ UNCHANGED <<workspace, dialog, orders>>
    BY <1>2, <1>7, <2>5
  <2>6. QED  BY <1>6, <1>8, <2>1, <2>2, <2>3, <2>4, <2>5 DEF FollowStep
<1>9. ASSUME NEW kind \in Kinds, OpenDialog(kind)
      PROVE  WorkspaceOK'
  <2>1. PICK p \in (ListedNodes \cap Folders) \cup {Null} :
            dialog' = [kind |-> kind, selected |-> p]
    BY <1>9 DEF OpenDialog
  <2>2. p \in {Null} \cup Below
    BY <1>1, <2>1 DEF ListedNodes
  <2>3. dialog' \in {Null} \cup [kind : Kinds, selected : {Null} \cup Below]
    BY <2>1, <2>2
  <2>4. UNCHANGED <<workspace, fetches, orders>>
    BY <1>9 DEF OpenDialog
  <2>5. QED  BY <1>2, <2>3, <2>4
<1>10. CASE CloseDialog
  BY <1>2, <1>10 DEF CloseDialog
<1>11. CASE Submit
  <2> DEFINE Order(p) == [kind |-> dialog.kind, place |-> p, shown |-> workspace.parent,
                          n |-> asked', served |-> p = Null, mine |-> TRUE]
  <2>1. PICK p \in Places : orders' = orders \cup {Order(p)}
    BY <1>11 DEF Submit
  <2>2. p \in {Null} \cup Below
    <3>1. dialog \in [kind : Kinds, selected : {Null} \cup Below]
      BY <1>1, <1>11 DEF Submit
    <3>2. PlacesToChoose \subseteq Below
      BY <1>4, ShownIsBelow DEF PlacesToChoose
    <3>3. PlacesForFolder \subseteq Below
      BY <1>1 DEF PlacesForFolder, ListedNodes
    <3>4. PlaceForConfiguration \in {Null} \cup Below
      BY <1>1, <3>1 DEF PlaceForConfiguration
    <3>5. Places \in {PlacesToChoose, PlacesForFolder, {PlaceForConfiguration}}
      BY <3>1 DEF Places, Kinds
    <3>6. QED  BY <3>2, <3>3, <3>4, <3>5
  <2>3. asked' \in Nat /\ dialog.kind \in Kinds /\ workspace.parent \in {Null} \cup Below
        /\ UNCHANGED <<workspace, dialog, fetches>>
    BY <1>1, <1>11 DEF Submit, Ask
  <2>4. OrderOK(Order(p))
    BY <2>2, <2>3 DEF OrderOK, Orders
  <2> HIDE DEF Order
  <2>5. QED  BY <1>2, <2>1, <2>3, <2>4
<1>12. CASE FindSettingsFolder
  BY <1>2, <1>4, <1>6, <1>7, <1>12 DEF FindSettingsFolder
<1>13. CASE FetchServed
  BY <1>1, <1>2, <1>3, <1>13 DEF FetchServed
<1>14. CASE FetchAnswered
  <2>1. PICK r \in fetches : /\ r.nodes # Null /\ fetches' = fetches \ {r}
                             /\ workspace' = [workspace EXCEPT !.nodes = r.nodes]
    BY <1>14 DEF FetchAnswered
  <2>2. r.nodes \in SUBSET Below
    BY <1>1, <2>1 DEF FetchOK, Fetches
  <2>3. workspace' \in [parent : {Null} \cup Below, nodes : SUBSET Below]
    BY <1>1, <2>1, <2>2
  <2>4. UNCHANGED <<dialog, orders>>
    BY <1>14 DEF FetchAnswered
  <2>5. QED  BY <1>2, <2>1, <2>3, <2>4
<1>15. CASE FetchFails
  <2>1. fetches' \subseteq fetches /\ UNCHANGED <<dialog, orders>>
    BY <1>15 DEF FetchFails
  <2>2. workspace' = workspace \/ workspace' = [workspace EXCEPT !.nodes = {}]
    BY <1>15 DEF FetchFails
  <2>3. workspace' \in [parent : {Null} \cup Below, nodes : SUBSET Below]
    BY <1>1, <2>2
  <2>4. QED  BY <1>2, <2>1, <2>3
<1>16. CASE OrderServed
  <2>1. PICK o \in orders : \E d : /\ d = [o EXCEPT !.served = TRUE]
                                   /\ orders' = (orders \ {o}) \cup {d}
    BY <1>16 DEF OrderServed
  <2> PICK d : d = [o EXCEPT !.served = TRUE] /\ orders' = (orders \ {o}) \cup {d}
    BY <2>1
  <2>2. OrderOK(d)
    BY <1>1, <2>1 DEF OrderOK, Orders
  <2>3. UNCHANGED <<workspace, dialog, fetches>>
    BY <1>16 DEF OrderServed
  <2>4. QED  BY <1>2, <2>1, <2>2, <2>3
<1>17. CASE OrderAnswered
  <2>1. PICK o \in orders :
            /\ orders' = orders \ {o}
            /\ \/ UNCHANGED <<workspace, fetches, dialog>>
               \/ dialog' = Null /\ Refetch(o) /\ UNCHANGED workspace
               \/ dialog' = Null /\ o.served /\ SelectWorkspace(o)
               \/ dialog' = Null /\ UNCHANGED <<workspace, fetches>>
    BY <1>17 DEF OrderAnswered
  <2>2. o.n \in Nat /\ o.shown \in {Null} \cup Below /\ o.place \in {Null} \cup Below
    BY <1>1 DEF OrderOK, Orders
  <2>3. PICK g, h : /\ g = [of |-> o.shown, n |-> o.n, for |-> "list", nodes |-> Null]
                    /\ h = [of |-> o.place, n |-> o.n, for |-> "list", nodes |-> Null]
    OBVIOUS
  <2>4. FetchOK(g) /\ FetchOK(h)
    BY <2>2, <2>3, FetchBegins
  <2>5. CASE dialog' = Null /\ Refetch(o) /\ UNCHANGED workspace
    BY <1>2, <2>1, <2>3, <2>4, <2>5 DEF Refetch
  <2>6. CASE dialog' = Null /\ o.served /\ SelectWorkspace(o)
    <3>1. workspace' \in [parent : {Null} \cup Below, nodes : SUBSET Below]
      BY <2>2, <2>6 DEF SelectWorkspace
    <3>2. fetches' = fetches \cup {h}
      BY <2>3, <2>6 DEF SelectWorkspace
    <3>3. QED  BY <1>2, <2>1, <2>4, <2>6, <3>1, <3>2
  <2>7. QED  BY <1>2, <2>1, <2>5, <2>6
<1>18. QED  BY <1>8, <1>9, <1>10, <1>11, <1>12, <1>13, <1>14, <1>15, <1>16, <1>17
            DEF WorkspaceStep

\* A step that reads nothing to the end keeps the list as current as it was.
LEMMA CurrentGrows ==
    ASSUME WorkspaceOK, IsCurrent, ListsKept,
           workspace' = workspace \/ workspace'.nodes = {},
           Listings \subseteq Listings', \A f \in Listings' : f \in Listings \/ f.nodes = Null,
           \A o \in orders : Made(o) => o \in orders'
    PROVE  IsCurrent'
<1>1. /\ workspace.parent \in {Null} \cup Below
      /\ \A f \in Listings : f.of \in {Null} \cup Below
  BY DEF WorkspaceOK, FetchOK, Fetches, Listings
<1>2. PICK p : p = workspace.parent
  OBVIOUS
<1>3. ShownOf(p)' = ShownOf(p) /\ \A f \in Listings : ShownOf(f.of)' = ShownOf(f.of)
  BY <1>1, <1>2 DEF ListsKept
<1>4. workspace' = workspace => ShownOf(workspace.parent)' = ShownOf(p)'
  BY <1>2
<1>5. \/ workspace'.nodes \in {{}, ShownOf(workspace.parent)'}
      \/ Listings' # {}
      \/ \E o \in orders' : Made(o)
  BY <1>2, <1>3, <1>4 DEF IsCurrent
<1>6. ASSUME NEW f \in Listings', f.nodes # Null
      PROVE  \/ f.nodes = ShownOf(f.of)'
             \/ \E g \in Listings' : g # f
             \/ \E o \in orders' : Made(o)
  BY <1>3, <1>6 DEF IsCurrent
<1>7. QED  BY <1>5, <1>6 DEF IsCurrent, Made

\* The list is current, or a reading of it is under way, or a creation that reads
\* it when it is answered.
LEMMA CurrentKept ==
    ASSUME TreeOK, WorkspaceOK, Current, ListsKept \/ OrderServed,
           \/ WorkspaceStep
           \/ FollowStep /\ strains \subseteq strains'
    PROVE  Current'
<1>1. SUFFICES ASSUME "unread" \notin strains', "outrun" \notin strains'
               PROVE  IsCurrent'
  BY DEF Current
<1>2. strains \subseteq strains'
  BY DEF WorkspaceStep, OpenDialog, CloseDialog, Submit, FindSettingsFolder, FetchServed,
         FetchAnswered, FetchFails, OrderServed, OrderAnswered, Strained, nodeVars
<1>3. IsCurrent
  BY <1>1, <1>2 DEF Current
<1>4. \A f \in fetches : f \in Fetches /\ (f.for = "find" => f.nodes = Null)
  BY DEF WorkspaceOK, FetchOK
<1>5. PICK l, f : l = Fetch(Null, "list") /\ f = Fetch(Null, "find")
  OBVIOUS
<1>6. l.for = "list" /\ l.nodes = Null /\ f.for = "find" /\ "find" # "list"
  BY <1>5 DEF Fetch
<1>7. ASSUME NEW F, MountedWith(F), F \subseteq {l, f}
      PROVE  IsCurrent'
  <2>1. workspace'.nodes = {} /\ fetches' = F
    BY <1>7 DEF MountedWith, Root
  <2>2. \A g \in Listings' : g.nodes = Null
    BY <1>6, <1>7, <2>1 DEF Listings
  <2>3. QED  BY <2>1, <2>2 DEF IsCurrent
<1>8. ASSUME ListsKept, workspace' = workspace \/ workspace'.nodes = {},
             \A g \in fetches : g \in fetches' \/ g.for = "find",
             \A g \in fetches' : g \in fetches \/ g.nodes = Null,
             orders \subseteq orders'
      PROVE  IsCurrent'
  <2>1. Listings \subseteq Listings' /\ \A g \in Listings' : g \in Listings \/ g.nodes = Null
    BY <1>6, <1>8 DEF Listings
  <2>2. QED  BY <1>3, <1>8, <2>1, CurrentGrows
<1>9. CASE FollowStep /\ ListsKept
  <2>1. CASE UnmountWorkspace
    BY <1>7, <2>1 DEF UnmountWorkspace
  <2>2. CASE MountedWith({l} \cup {f}) \/ MountedWith({l} \cup {})
    BY <1>7, <2>2
  <2>3. CASE ResetToRoot
    BY <1>5, <1>6, <1>8, <1>9, <2>3 DEF ResetToRoot, Root
  <2>4. CASE UNCHANGED workspaceVars
    BY <1>8, <1>9, <2>4 DEF workspaceVars
  <2>5. CASE /\ fetches' = fetches \cup {f} \/ fetches' = fetches \cup {}
             /\ UNCHANGED <<workspace, dialog, orders>>
    <3>1. f.nodes = Null
      BY <1>5 DEF Fetch
    <3>2. QED  BY <1>8, <1>9, <2>5, <3>1
  <2>6. QED  BY <1>5, <1>9, <2>1, <2>2, <2>3, <2>4, <2>5 DEF FollowStep
<1>10. CASE ListsKept /\ ((\E kind \in Kinds : OpenDialog(kind)) \/ CloseDialog \/ Submit)
  BY <1>8, <1>10 DEF OpenDialog, CloseDialog, Submit
<1>11. CASE ListsKept /\ FindSettingsFolder
  BY <1>5, <1>6, <1>8, <1>11 DEF FindSettingsFolder, Root
<1>12. CASE ListsKept /\ FetchServed
  <2>1. PICK r \in fetches :
          /\ r.for # "find"
          /\ fetches' = (fetches \ {r}) \cup {[r EXCEPT !.nodes = ShownOf(r.of)]}
    BY <1>12 DEF FetchServed
  <2>2. PICK shown : shown = ShownOf(r.of)
    OBVIOUS
  <2>3. PICK q : q = [r EXCEPT !.nodes = shown]
    OBVIOUS
  <2>4. r \in Fetches
    BY <1>4
  <2>5. q.for = "list" /\ q.of = r.of /\ q.nodes = shown
    BY <2>1, <2>3, <2>4 DEF Fetches
  <2>6. fetches' = (fetches \ {r}) \cup {q}
    BY <2>1, <2>2, <2>3
  <2>7. Listings' = (Listings \ {r}) \cup {q} /\ Listings' # {}
    BY <2>5, <2>6 DEF Listings
  <2>8. \A g \in Listings : g.of \in {Null} \cup Below
    BY <1>4 DEF Listings, Fetches
  <2>9. r \in Listings
    BY <2>1, <2>4 DEF Listings, Fetches
  <2>10. ShownOf(q.of)' = shown
    <3>1. PICK p : p = r.of
      OBVIOUS
    <3>2. ShownOf(p)' = ShownOf(p)
      BY <1>12, <2>8, <2>9, <3>1 DEF ListsKept
    <3>3. QED  BY <2>2, <2>5, <3>1, <3>2
  <2>11. ASSUME NEW g \in Listings', g.nodes # Null
         PROVE  g.nodes = ShownOf(g.of)' \/ \E h \in Listings' : h # g
    <3>1. CASE g = q
      BY <2>5, <2>10, <3>1
    <3>2. CASE g # q
      BY <2>7, <3>2
    <3>3. QED  BY <3>1, <3>2
  <2>12. QED  BY <2>7, <2>11 DEF IsCurrent
<1>13. CASE ListsKept /\ FetchAnswered
  <2>1. PICK r \in fetches :
          /\ r.nodes # Null /\ fetches' = fetches \ {r}
          /\ workspace' = [workspace EXCEPT !.nodes = r.nodes]
          /\ Strained(r.of # workspace.parent \/ \E g \in fetches \ {r} : g.for = "list", "outrun")
    BY <1>13 DEF FetchAnswered
  <2>2. r.of = workspace.parent /\ \A g \in fetches \ {r} : g.for # "list"
    BY <1>1, <2>1 DEF Strained
  <2>3. r \in Listings /\ Listings' = {}
    BY <1>4, <2>1, <2>2 DEF Listings, Fetches
  <2>4. r.nodes = ShownOf(r.of) \/ \E o \in orders : Made(o)
    BY <1>3, <2>1, <2>2, <2>3 DEF IsCurrent, Listings
  <2>5. workspace'.nodes = r.nodes /\ workspace'.parent = workspace.parent /\ UNCHANGED orders
    BY <1>13, <2>1 DEF FetchAnswered, WorkspaceOK
  <2>6. PICK p : p = workspace.parent
    OBVIOUS
  <2>7. p \in {Null} \cup Below
    BY <2>6 DEF WorkspaceOK
  <2>8. ShownOf(p)' = ShownOf(p) /\ ShownOf(workspace.parent)' = ShownOf(p)'
    BY <1>13, <2>5, <2>6, <2>7 DEF ListsKept
  <2>9. ShownOf(r.of) = ShownOf(p)
    BY <2>2, <2>6
  <2>10. QED  BY <2>3, <2>4, <2>5, <2>8, <2>9 DEF IsCurrent, Made
<1>14. CASE FetchFails
  BY <1>1, <1>14 DEF FetchFails
<1>15. CASE OrderServed
  <2>1. PICK o \in orders :
          /\ ~o.served
          /\ orders' = (orders \ {o}) \cup {[o EXCEPT !.served = TRUE]}
          /\ o.kind = "select" => UNCHANGED nodes
          /\ Strained(~o.mine, "outrun")
    BY <1>15 DEF OrderServed, WorkspaceOK
  <2>2. PICK d : d = [o EXCEPT !.served = TRUE]
    OBVIOUS
  <2>3. o \in Orders
    BY DEF WorkspaceOK, OrderOK
  <2>4. o.mine /\ d.mine /\ d.served /\ d.kind = o.kind
    BY <1>1, <2>1, <2>2, <2>3 DEF Strained, Orders
  <2>5. orders' = (orders \ {o}) \cup {d} /\ UNCHANGED <<workspace, fetches>>
    BY <1>15, <2>1, <2>2 DEF OrderServed
  <2>6. CASE o.kind # "select"
    BY <2>4, <2>5, <2>6 DEF IsCurrent, Made
  <2>7. CASE o.kind = "select"
    <3>1. ListsKept
      BY <2>1, <2>7, NodesUnchanged
    <3>2. \A v \in orders : Made(v) => v \in orders'
      BY <2>1, <2>5 DEF Made
    <3>3. Listings' = Listings
      BY <2>5 DEF Listings
    <3>4. QED  BY <1>3, <2>5, <3>1, <3>2, <3>3, CurrentGrows
  <2>8. QED  BY <2>6, <2>7
<1>16. CASE ListsKept /\ OrderAnswered
  <2>1. PICK o \in orders :
          /\ orders' = orders \ {o}
          /\ IF ~o.mine THEN UNCHANGED <<workspace, fetches>>
             ELSE IF o.kind # "select" THEN Refetch(o) /\ UNCHANGED workspace
                  ELSE SelectWorkspace(o) \/ UNCHANGED <<workspace, fetches>>
    BY <1>16 DEF OrderAnswered
  <2>2. PICK g, h : /\ g = [of |-> o.shown, n |-> o.n, for |-> "list", nodes |-> Null]
                    /\ h = [of |-> o.place, n |-> o.n, for |-> "list", nodes |-> Null]
    OBVIOUS
  <2>3. g.for = "list" /\ g.nodes = Null /\ h.nodes = Null
    BY <2>2
  <2>4. CASE o.mine /\ o.kind # "select"
    <3>1. fetches' = fetches \cup {g}
      BY <2>1, <2>2, <2>4 DEF Refetch
    <3>2. g \in Listings' /\ \A q \in Listings' : q.nodes # Null => q # g
      BY <2>3, <3>1 DEF Listings
    <3>3. QED  BY <3>2 DEF IsCurrent
  <2>5. CASE ~(o.mine /\ o.kind # "select")
    <3>1. \/ UNCHANGED <<workspace, fetches>>
          \/ workspace'.nodes = {} /\ fetches' = fetches \cup {h}
      BY <2>1, <2>2, <2>5 DEF SelectWorkspace
    <3>2. \A v \in orders : Made(v) => v \in orders'
      BY <2>1, <2>5 DEF Made
    <3>3. Listings \subseteq Listings' /\ \A q \in Listings' : q \in Listings \/ q.nodes = Null
      BY <2>3, <3>1 DEF Listings
    <3>4. workspace' = workspace \/ workspace'.nodes = {}
      BY <3>1
    <3>5. QED  BY <1>3, <1>16, <3>2, <3>3, <3>4, CurrentGrows
  <2>6. QED  BY <2>4, <2>5
<1>17. QED  BY <1>9, <1>10, <1>11, <1>12, <1>13, <1>14, <1>15, <1>16 DEF WorkspaceStep

\* Other steps of the pages leave the workspace as it is.
LEMMA WorkspaceStays ==
    ASSUME WorkspaceOK, Current, UNCHANGED workspaceVars, ListsKept, strains \subseteq strains'
    PROVE  WorkspaceOK' /\ Current'
<1>1. UNCHANGED <<workspace, dialog, fetches, orders>>
  BY DEF workspaceVars
<1>2. Below' = Below
  BY DEF ListsKept
<1>3. WorkspaceOK'
  BY <1>1, <1>2, WorkspaceWidens DEF WorkspaceOK, Kinds
<1>4. Listings' = Listings
  BY <1>1 DEF Listings
<1>5. IsCurrent => IsCurrent'
  BY <1>1, <1>4, CurrentGrows
<1>6. QED  BY <1>3, <1>5 DEF Current

------------------------------------------------------------------------------
(* The first documents *)

\* The items of the first file.
FirstItems == [k \in 1..Kept |-> Item(k - 1, <<Side \div 2, Side \div 2>>, 5)]

LEMMA FirstItemsAre ==
    FirstItems \in Lists /\ Distinct(FirstItems) /\ AllOf(FirstItems, 5)
<1> DEFINE m == <<Side \div 2, Side \div 2>>
           e(k) == Item(k - 1, m, 5)
<1>1. Kept \in Nat /\ m \in Spots
  BY KeptAssumption, MiddleIsSpot
<1> HIDE DEF m
<1>2. \A k \in 1..Kept : e(k) \in Items /\ e(k).id = k - 1 /\ e(k).of = 5
  BY <1>1 DEF Item, Items
<1>3. FirstItems = [k \in 1..Kept |-> e(k)]
  BY DEF FirstItems, m
<1> HIDE DEF e
<1>4. FirstItems \in Lists
  BY <1>1, <1>2, <1>3, IsASeq DEF Lists
<1>5. DOMAIN FirstItems = 1..Kept /\ \A k \in 1..Kept : FirstItems[k] = e(k)
  BY <1>3
<1>6. Distinct(FirstItems)
  BY <1>1, <1>2, <1>5 DEF Distinct
<1>7. QED  BY <1>2, <1>4, <1>5, <1>6 DEF AllOf

\* The file beside sim_settings, where there is one.
OtherFile(name, data) ==
    \/ name = "other" /\ data = 9
    \/ name = "empty" /\ data = Null
    \/ name = "unparsable" /\ data = Defaults

\* What the service makes.
Seeded ==
    /\ nodes[1] = Node("root", Null, {}, TRUE, Null)
    /\ nodes[2] = Node("settings", 1, {1}, TRUE, Null)
    /\ nodes[3] = Node("sim_settings", 2, {1, 2}, FALSE, 3)
    /\ nodes[4] = Node("other", 1, {1}, TRUE, Null)
    /\ nodes[5] = Node("configuration", 4, {1, 4}, FALSE, FirstItems)
    /\ nodes[6] = Node("configuration", 4, {1, 4}, FALSE, <<>>)

\* What the icon has made, with another file.
IconMade(name, data) ==
    /\ nodes[7] = Node("settings", Null, {}, TRUE, Null)
    /\ nodes[8] = Node("sim_settings", 7, {7}, FALSE, 8)
    /\ nodes[9] = Node(name, 7, {7}, FALSE, data)

LEMMA FirstDocuments ==
    ASSUME Init
    PROVE  /\ nodes \in Seq(Documents) /\ Seeded
           /\ \/ DOMAIN nodes = 1..6
              \/ /\ DOMAIN nodes = 1..9
                 /\ \E name, data : OtherFile(name, data) /\ IconMade(name, data)
<1>1. <<>> \in Lists /\ FirstItems \in Lists
  BY EmptySeq, FirstItemsAre DEF Lists
<1>2. PICK a, b, c, d, e, f :
        /\ a = Node("root", Null, {}, TRUE, Null)
        /\ b = Node("settings", 1, {1}, TRUE, Null)
        /\ c = Node("sim_settings", 2, {1, 2}, FALSE, 3)
        /\ d = Node("other", 1, {1}, TRUE, Null)
        /\ e = Node("configuration", 4, {1, 4}, FALSE, FirstItems)
        /\ f = Node("configuration", 4, {1, 4}, FALSE, <<>>)
  OBVIOUS
<1>3. ASSUME NEW name \in Names, NEW parent \in {Null} \cup Nat, NEW above \in SUBSET Nat,
             NEW folder \in BOOLEAN, NEW data \in {Null} \cup Nat \cup Lists
      PROVE  Node(name, parent, above, folder, data) \in Documents
  BY DEF Node, Documents
<1>4. /\ "root" \in Names /\ "other" \in Names /\ "configuration" \in Names
      /\ "settings" \in Names /\ "sim_settings" \in Names
      /\ Null \in {Null} \cup Nat /\ 1 \in {Null} \cup Nat /\ 2 \in {Null} \cup Nat
      /\ 4 \in {Null} \cup Nat /\ 7 \in {Null} \cup Nat
      /\ {} \in SUBSET Nat /\ {1} \in SUBSET Nat /\ {1, 2} \in SUBSET Nat
      /\ {1, 4} \in SUBSET Nat /\ {7} \in SUBSET Nat
  BY DEF Names
<1>5. /\ Null \in {Null} \cup Nat \cup Lists /\ 3 \in {Null} \cup Nat \cup Lists
      /\ 8 \in {Null} \cup Nat \cup Lists /\ <<>> \in {Null} \cup Nat \cup Lists
      /\ FirstItems \in {Null} \cup Nat \cup Lists
      /\ TRUE \in BOOLEAN /\ FALSE \in BOOLEAN
  BY <1>1
<1>6. /\ a \in Documents /\ b \in Documents /\ c \in Documents /\ d \in Documents
      /\ e \in Documents /\ f \in Documents
  BY <1>2, <1>3, <1>4, <1>5
<1>7. Forest = <<a, b, c, d, e, f>>
  BY <1>2 DEF Forest, FirstItems
<1>8. /\ Forest \in Seq(Documents) /\ Len(Forest) = 6 /\ DOMAIN Forest = 1..6
      /\ Forest[1] = a /\ Forest[2] = b /\ Forest[3] = c /\ Forest[4] = d
      /\ Forest[5] = e /\ Forest[6] = f
  BY <1>6, <1>7
<1> HIDE DEF Forest
<1>9. CASE nodes = Forest
  BY <1>2, <1>8, <1>9 DEF Seeded
<1>10. ASSUME NEW name, NEW data, OtherFile(name, data), nodes = Forest \o Settings(name, data)
       PROVE  nodes \in Seq(Documents) /\ Seeded /\ DOMAIN nodes = 1..9 /\ IconMade(name, data)
  <2>1. PICK g, h, k :
          /\ g = Node("settings", Null, {}, TRUE, Null)
          /\ h = Node("sim_settings", 7, {7}, FALSE, 8) /\ k = Node(name, 7, {7}, FALSE, data)
    OBVIOUS
  <2>2. name \in Names /\ data \in {Null} \cup Nat \cup Lists
    BY <1>10 DEF OtherFile, Names, Defaults
  <2>3. g \in Documents /\ h \in Documents /\ k \in Documents
    BY <1>3, <1>4, <1>5, <2>1, <2>2
  <2> DEFINE T == Settings(name, data)
             both == Forest \o T
  <2>4. T = <<g, h, k>>
    BY <2>1 DEF Settings
  <2>5. T \in Seq(Documents) /\ Len(T) = 3 /\ T[1] = g /\ T[2] = h /\ T[3] = k
    BY <2>3, <2>4
  <2> HIDE DEF T
  <2>6. /\ both \in Seq(Documents) /\ Len(both) = Len(Forest) + Len(T)
        /\ \A i \in 1..Len(Forest) + Len(T) :
             both[i] = IF i <= Len(Forest) THEN Forest[i] ELSE T[i - Len(Forest)]
    BY <1>8, <2>5, ConcatProperties
  <2>7. nodes = both
    BY <1>10 DEF T
  <2> HIDE DEF both
  <2>8. /\ nodes \in Seq(Documents) /\ Len(nodes) = 9
        /\ \A i \in 1..9 : nodes[i] = IF i <= 6 THEN Forest[i] ELSE T[i - 6]
    BY <1>8, <2>5, <2>6, <2>7
  <2>9. DOMAIN nodes = 1..9
    BY <2>8, LenProperties
  <2>10. /\ nodes[1] = a /\ nodes[2] = b /\ nodes[3] = c /\ nodes[4] = d
         /\ nodes[5] = e /\ nodes[6] = f
    BY <1>8, <2>8
  <2>11. nodes[7] = g /\ nodes[8] = h /\ nodes[9] = k
    BY <2>5, <2>8
  <2>12. Seeded
    BY <1>2, <2>10 DEF Seeded
  <2>13. IconMade(name, data)
    BY <2>1, <2>11 DEF IconMade
  <2>14. QED  BY <2>8, <2>9, <2>12, <2>13
<1>11. \/ nodes = Forest
       \/ \E name, data : OtherFile(name, data) /\ nodes = Forest \o Settings(name, data)
  BY DEF Init, OtherFile
<1>12. QED  BY <1>9, <1>10, <1>11

\* What the first documents are to the pages.
LEMMA FirstSets ==
    ASSUME Init
    PROVE  /\ TreeOK /\ ConfigurationFiles = {5, 6}
           /\ nodes[5].data = FirstItems /\ nodes[6].data = <<>>
           /\ \/ SettingsFolders = {} /\ SettingsFiles = {} /\ SimSettings = {}
              \/ SettingsFolders = {7} /\ SettingsFiles = {8, 9} /\ SimSettings = {8}
           /\ \A n \in SettingsFiles : nodes[n].data = OwnData(n)
           /\ \A p \in SettingsFolders : FilesOf(p) \subseteq SettingsFiles
<1>1. /\ nodes \in Seq(Documents) /\ Seeded
      /\ \/ DOMAIN nodes = 1..6
         \/ /\ DOMAIN nodes = 1..9
            /\ \E name, data : OtherFile(name, data) /\ IconMade(name, data)
  BY FirstDocuments
<1>2. /\ nodes[1].name = "root" /\ nodes[1].parent = Null /\ nodes[1].above = {}
      /\ nodes[2].name = "settings" /\ nodes[2].parent = 1 /\ nodes[2].above = {1}
      /\ nodes[3].name = "sim_settings" /\ nodes[3].parent = 2 /\ nodes[3].above = {1, 2}
      /\ nodes[4].name = "other" /\ nodes[4].parent = 1 /\ nodes[4].above = {1}
      /\ nodes[5].name = "configuration" /\ nodes[5].parent = 4 /\ nodes[5].above = {1, 4}
      /\ nodes[6].name = "configuration" /\ nodes[6].parent = 4 /\ nodes[6].above = {1, 4}
      /\ nodes[4].folder /\ nodes[5].data = FirstItems /\ nodes[6].data = <<>>
  BY <1>1 DEF Node, Seeded
<1>4. /\ 7 \notin DOMAIN nodes => DOMAIN nodes = {1, 2, 3, 4, 5, 6}
      /\ 7 \in DOMAIN nodes => DOMAIN nodes = {1, 2, 3, 4, 5, 6, 7, 8, 9}
  <2>1. 1..6 = {1, 2, 3, 4, 5, 6} /\ 1..9 = {1, 2, 3, 4, 5, 6, 7, 8, 9}
    OBVIOUS
  <2>2. QED  BY <1>1, <2>1
<1>5. /\ Null # 1 /\ Null # 2 /\ Null # 4 /\ Null # 7
      /\ "root" # "other" /\ "root" # "configuration" /\ "root" # "settings"
      /\ "root" # "sim_settings" /\ "other" # "configuration" /\ "other" # "settings"
      /\ "other" # "sim_settings" /\ "configuration" # "settings"
      /\ "configuration" # "sim_settings" /\ "settings" # "sim_settings"
      /\ "empty" \notin {"root", "other", "configuration", "settings", "sim_settings"}
      /\ "unparsable" \notin {"root", "other", "configuration", "settings", "sim_settings",
                               "empty"}
  BY AskedAssumption
<1>6. 7 \in DOMAIN nodes =>
        /\ nodes[7].name = "settings" /\ nodes[7].parent = Null /\ nodes[7].above = {}
        /\ nodes[8].name = "sim_settings" /\ nodes[8].parent = 7 /\ nodes[8].above = {7}
        /\ nodes[9].name \in {"other", "empty", "unparsable"}
        /\ nodes[9].parent = 7 /\ nodes[9].above = {7}
        /\ nodes[7].folder /\ ~nodes[8].folder /\ ~nodes[9].folder
        /\ nodes[8].data = 8 /\ OtherFile(nodes[9].name, nodes[9].data)
  <2>1. 7 \notin 1..6
    OBVIOUS
  <2>2. SUFFICES ASSUME NEW name, NEW data, OtherFile(name, data), IconMade(name, data)
                 PROVE  /\ nodes[7].name = "settings" /\ nodes[7].parent = Null
                        /\ nodes[7].above = {}
                        /\ nodes[8].name = "sim_settings" /\ nodes[8].parent = 7
                        /\ nodes[8].above = {7}
                        /\ nodes[9].name \in {"other", "empty", "unparsable"}
                        /\ nodes[9].parent = 7 /\ nodes[9].above = {7}
                        /\ nodes[7].folder /\ ~nodes[8].folder /\ ~nodes[9].folder
                        /\ nodes[8].data = 8 /\ OtherFile(nodes[9].name, nodes[9].data)
    BY <1>1, <2>1
  <2>3. /\ nodes[9].name = name /\ nodes[9].data = data /\ nodes[9].parent = 7
        /\ nodes[9].above = {7} /\ nodes[9].folder = FALSE
    BY <2>2 DEF IconMade, Node
  <2>4. /\ nodes[7].name = "settings" /\ nodes[7].parent = Null /\ nodes[7].above = {}
        /\ nodes[7].folder = TRUE
    BY <2>2 DEF IconMade, Node
  <2>5. /\ nodes[8].name = "sim_settings" /\ nodes[8].parent = 7 /\ nodes[8].above = {7}
        /\ nodes[8].folder = FALSE /\ nodes[8].data = 8
    BY <2>2 DEF IconMade, Node
  <2>6. name \in {"other", "empty", "unparsable"} /\ OtherFile(nodes[9].name, nodes[9].data)
    BY <2>2, <2>3 DEF OtherFile
  <2>7. QED  BY <2>3, <2>4, <2>5, <2>6
<1>7. AtRoot = {4}
  <2>1. \A n \in DOMAIN nodes : nodes[n].parent = 1 => n \in {2, 4}
    BY <1>2, <1>4, <1>5, <1>6, SMTT(30)
  <2>2. 4 \in DOMAIN nodes
    BY <1>4
  <2>3. QED  BY <1>2, <1>5, <2>1, <2>2 DEF AtRoot
<1>8. Below = {4, 5, 6}
  BY <1>2, <1>4, <1>6, <1>7, SMTT(30) DEF Below
<1>9. ConfigurationFiles = {5, 6}
  BY <1>2, <1>4, <1>5, <1>6 DEF ConfigurationFiles
<1>10. TopLevel("root") = {1}
  <2>1. \A n \in DOMAIN nodes : nodes[n].parent = Null => n \in {1, 7}
    BY <1>2, <1>4, <1>5, <1>6
  <2>2. 1 \in DOMAIN nodes
    BY <1>4
  <2>3. QED  BY <1>2, <1>5, <1>6, <2>1, <2>2 DEF TopLevel
<1>11. SettingsFolders = {n \in DOMAIN nodes : nodes[n].parent = Null /\ nodes[n].name = "settings"
                                               /\ nodes[n].folder}
  BY DEF SettingsFolders, TopLevel
<1>12. SettingsFolders = IF 7 \in DOMAIN nodes THEN {7} ELSE {}
  BY <1>2, <1>4, <1>5, <1>6, <1>11
<1>13. 7 \in DOMAIN nodes => FilesOf(7) = {8, 9}
  BY <1>2, <1>4, <1>6 DEF FilesOf, GetNodeChildren
<1>14. SettingsFiles = IF 7 \in DOMAIN nodes THEN {8, 9} ELSE {}
  BY <1>12, <1>13 DEF SettingsFiles
<1>15. SimSettings = IF 7 \in DOMAIN nodes THEN {8} ELSE {}
  BY <1>5, <1>6, <1>14 DEF SimSettings, IsSimSettings
<1>16. \A n \in SettingsFiles : nodes[n].data = OwnData(n)
  BY <1>5, <1>6, <1>14 DEF OwnData, OtherFile
<1>17. TreeOK
  <2>0. \A n \in DOMAIN nodes :
          n \in {1, 2, 3, 4, 5, 6} \/ (7 \in DOMAIN nodes /\ n \in {7, 8, 9})
    <3>1. CASE 7 \in DOMAIN nodes
      BY <1>4, <3>1
    <3>2. CASE 7 \notin DOMAIN nodes
      BY <1>4, <3>2
    <3>3. QED  BY <3>1, <3>2
  <2>8. {1, 2, 3, 4, 5, 6} \subseteq DOMAIN nodes
    BY <1>4
  <2>9. 7 \in DOMAIN nodes => {7, 8, 9} \subseteq DOMAIN nodes
    BY <1>4
  <2>1. \A n \in DOMAIN nodes :
          /\ nodes[n].above \subseteq DOMAIN nodes
          /\ IF nodes[n].parent = Null THEN nodes[n].above = {}
             ELSE nodes[n].parent \in nodes[n].above
    <3>1. ASSUME NEW n \in {1, 2, 3, 4, 5, 6}
          PROVE  /\ nodes[n].above \subseteq DOMAIN nodes
                 /\ IF nodes[n].parent = Null THEN nodes[n].above = {}
                    ELSE nodes[n].parent \in nodes[n].above
      BY <1>2, <1>5, <2>8
    <3>2. ASSUME NEW n \in {7, 8, 9}, 7 \in DOMAIN nodes
          PROVE  /\ nodes[n].above \subseteq DOMAIN nodes
                 /\ IF nodes[n].parent = Null THEN nodes[n].above = {}
                    ELSE nodes[n].parent \in nodes[n].above
      BY <1>5, <1>6, <2>9, <3>2
    <3>3. QED  BY <2>0, <3>1, <3>2
  <2>2. \A n \in DOMAIN nodes : \A a \in nodes[n].above : nodes[a].above \subseteq nodes[n].above
    <3>1. ASSUME NEW n \in {1, 2, 3, 4, 5, 6}, NEW a \in nodes[n].above
          PROVE  nodes[a].above \subseteq nodes[n].above
      BY <1>2
    <3>2. ASSUME NEW n \in {7, 8, 9}, 7 \in DOMAIN nodes, NEW a \in nodes[n].above
          PROVE  nodes[a].above \subseteq nodes[n].above
      BY <1>6, <3>2
    <3>3. QED  BY <2>0, <3>1, <3>2
  <2>3. \A n \in Below : nodes[n].above \cap SettingsFolders = {}
    BY <1>2, <1>8, <1>12
  <2>4. \A n \in Below : ~nodes[n].folder => nodes[n].name = "configuration"
    BY <1>2, <1>8
  <2>5. \A n \in ConfigurationFiles : nodes[n].data \in Lists
    <3>1. <<>> \in Lists
      BY EmptySeq DEF Lists
    <3>2. QED  BY <1>2, <1>9, <3>1, FirstItemsAre
  <2>6. \A n \in SettingsFiles : nodes[n].data \in {Null} \cup Nat
    BY <1>6, <1>14 DEF OtherFile, Defaults
  <2>7. QED  BY <1>1, <1>8, <1>9, <1>10, <2>1, <2>2, <2>3, <2>4, <2>5, <2>6 DEF TreeOK
<1>18. QED  BY <1>2, <1>9, <1>12, <1>13, <1>14, <1>15, <1>16, <1>17

LEMMA InitHolds == Init => IInv
<1> SUFFICES ASSUME Init
             PROVE  IInv
  OBVIOUS
<1>1. /\ TreeOK /\ ConfigurationFiles = {5, 6}
      /\ nodes[5].data = FirstItems /\ nodes[6].data = <<>>
      /\ \/ SettingsFolders = {} /\ SettingsFiles = {} /\ SimSettings = {}
         \/ SettingsFolders = {7} /\ SettingsFiles = {8, 9} /\ SimSettings = {8}
      /\ \A n \in SettingsFiles : nodes[n].data = OwnData(n)
      /\ \A p \in SettingsFolders : FilesOf(p) \subseteq SettingsFiles
  BY FirstSets
<1>2. asked = 0 /\ EditorInit /\ SettingsInit /\ WorkspaceInit(WorkspaceShown(drawer))
  BY DEF Init
<1>3. workspace \in {Root, [parent |-> Null, nodes |-> ShownOf(Null)]}
      /\ dialog = Null /\ fetches = {} /\ orders = {}
  BY <1>2 DEF WorkspaceInit
<1>4. WorkspaceOK
  <2>1. ShownOf(Null) \subseteq Below
    BY <1>1, ShownIsBelow
  <2>2. QED  BY <1>3, <2>1 DEF Root, WorkspaceOK
<1>5. IsCurrent
  <2>1. workspace.nodes = {} \/ workspace.nodes = ShownOf(workspace.parent)
    BY <1>3 DEF Root
  <2>2. QED  BY <1>3, <2>1 DEF IsCurrent, Listings
<1>6. SettingsOK
  <2>1. drawer \in Drawers
    <3>1. /\ [type |-> Null, open |-> TRUE] \in Drawers
          /\ [type |-> "settings", open |-> TRUE] \in Drawers
      BY DEF Drawers
    <3>2. QED  BY <1>2, <3>1 DEF SettingsInit
  <2>2. files \subseteq SettingsFiles
    <3>1. SettingsFolders \subseteq Nat
      BY <1>1, TreeFacts
    <3>2. SettingsFolders # {} => First(SettingsFolders) \in SettingsFolders
      BY <3>1, FirstIs
    <3>3. QED  BY <1>1, <1>2, <3>2 DEF SettingsInit
  <2>3. QED  BY <1>2, <2>1, <2>2 DEF SettingsInit, SettingsOK, Defaults
<1>7. IsOneFolder
  BY <1>1, <1>2 DEF SettingsInit, IsOneFolder
<1>8. AreOwn
  BY <1>1, <1>2 DEF SettingsInit, AreOwn
<1>9. <<>> \in Lists /\ Distinct(<<>>) /\ \A f : AllOf(<<>>, f)
  BY EmptySeq DEF Lists, Distinct, AllOf
<1>10. EditorOK
  BY <1>2, <1>9 DEF EditorInit, EditorOK
<1>11. AreApart
  BY <1>1, <1>2, <1>9, FirstItemsAre DEF EditorInit, AreApart
<1>12. AreUnique
  BY <1>1, <1>2, <1>9, FirstItemsAre DEF EditorInit, AreUnique
<1>13. QED  BY <1>1, <1>2, <1>4, <1>5, <1>6, <1>7, <1>8, <1>10, <1>11, <1>12
            DEF IInv, Current, OneFolder, OwnSettings, Apart, Unique

------------------------------------------------------------------------------
(* The pages together *)

LEMMA Follows == WorkspaceFollows => FollowStep
<1> DEFINE find == IF target' = "settings" THEN {Fetch(Null, "find")} ELSE {}
           list == {Fetch(Null, "list")}
<1>1. find = {Fetch(Null, "find")} \/ find = {}
  OBVIOUS
<1>2. WorkspaceFollows =>
        \/ UnmountWorkspace \/ MountedWith(list \cup find) \/ ResetToRoot
        \/ fetches' = fetches \cup find /\ UNCHANGED <<workspace, dialog, orders>>
        \/ UNCHANGED workspaceVars
  <2> DEFINE Shown == WorkspaceShown(drawer)
             Shows == WorkspaceShown(drawer')
  <2>1. WorkspaceFollows <=>
          CASE ~Shows /\ Shown -> UnmountWorkspace
            [] Shows /\ ~Shown -> MountedWith(list \cup find)
            [] Shows /\ Shown /\ target' # target ->
                  IF target' = "root" THEN ResetToRoot
                  ELSE fetches' = fetches \cup find /\ UNCHANGED <<workspace, dialog, orders>>
            [] OTHER -> UNCHANGED workspaceVars
    BY DEF WorkspaceFollows
  <2> HIDE DEF Shown, Shows, find, list
  <2>2. QED  BY <2>1
<1>3. QED  BY <1>1, <1>2 DEF FollowStep

LEMMA NextKeeps == IInv /\ [Next]_vars => IInv'
<1> SUFFICES ASSUME IInv, [Next]_vars
             PROVE  IInv'
  OBVIOUS
<1>1. /\ asked \in Nat /\ TreeOK /\ WorkspaceOK /\ SettingsOK /\ EditorOK
      /\ Current /\ OneFolder /\ OwnSettings /\ Apart /\ Unique
  BY DEF IInv
<1>2. ASSUME UNCHANGED editorVars, ConfigurationsKept, strains \subseteq strains'
      PROVE  EditorOK' /\ Apart' /\ Unique'
  BY <1>1, <1>2, EditorKept DEF Apart, Unique
<1>3. ASSUME UNCHANGED settingsVars, SettingsKept, strains \subseteq strains'
      PROVE  SettingsOK' /\ OneFolder' /\ OwnSettings'
  BY <1>1, <1>3, SettingsStay DEF OneFolder, OwnSettings
<1>4. ASSUME UNCHANGED workspaceVars, ListsKept, strains \subseteq strains'
      PROVE  WorkspaceOK' /\ Current'
  BY <1>1, <1>4, WorkspaceStays
<1>5. ASSUME SettingsStep
      PROVE  SettingsOK' /\ OneFolder' /\ OwnSettings'
  BY <1>1, <1>5, SettingsTyped, OneFolderKept, OwnSettingsKept
<1>6. ASSUME EditorStep
      PROVE  EditorOK' /\ Apart' /\ Unique'
  BY <1>1, <1>6, EditorTyped, EditorApart, EditorUnique
<1>7. ASSUME UNCHANGED nodes
      PROVE  TreeOK' /\ ConfigurationsKept /\ SettingsKept /\ ListsKept
  BY <1>1, <1>7, NodesUnchanged
<1>8. ASSUME asked' = asked \/ Ask
      PROVE  asked' \in Nat
  BY <1>1, <1>8 DEF Ask
<1>9. CASE OnDrawer /\ WorkspaceFollows /\ UNCHANGED editorVars
  <2>1. HandleDrawerToggle \/ HandleWorkspaceClick \/ CheckDone
    BY <1>9 DEF OnDrawer
  <2>2. UNCHANGED <<nodes, strains>> /\ (asked' = asked \/ Ask)
    BY <2>1 DEF HandleDrawerToggle, HandleWorkspaceClick, CheckDone, nodeVars
  <2>3. SettingsStep
    BY <2>1 DEF SettingsStep
  <2>4. FollowStep
    BY <1>9, Follows
  <2>5. ListsKept /\ TreeOK' /\ ConfigurationsKept
    BY <1>7, <2>2
  <2>6. WorkspaceOK' /\ Current'
    <3>1. Below \subseteq Below'
      BY <2>5 DEF ListsKept
    <3>2. QED  BY <1>1, <2>2, <2>4, <2>5, <3>1, WorkspaceTyped, CurrentKept
  <2>7. QED  BY <1>2, <1>5, <1>8, <1>9, <2>2, <2>3, <2>5, <2>6 DEF IInv
<1>10. CASE OnSettings /\ UNCHANGED <<editorVars, workspaceVars>>
  <2>1. SettingsStep
    BY <1>10 DEF OnSettings, SettingsStep
  <2>2. strains \subseteq strains' /\ (asked' = asked \/ Ask)
    BY <1>10 DEF OnSettings, HandleSettingsClick, Reload, HandleSave, HandleSettingClick,
         CheckServed, CheckFails, FetchSettingsFolder, ReadServed, ReadAnswered, ReadFails,
         WriteServed, WriteEnds, Strained, nodeVars
  <2>3. CheckServed \/ WriteServed \/ UNCHANGED nodes
    BY <1>10 DEF OnSettings, HandleSettingsClick, Reload, HandleSave, HandleSettingClick,
         CheckFails, FetchSettingsFolder, ReadServed, ReadAnswered, ReadFails, WriteEnds,
         nodeVars
  <2>4. TreeOK' /\ ConfigurationsKept /\ ListsKept
    BY <1>1, <1>7, <2>3, CheckServedNodes, WriteServedNodes
  <2>5. QED  BY <1>2, <1>4, <1>5, <1>8, <1>10, <2>1, <2>2, <2>4 DEF IInv
<1>11. CASE FileOpened /\ UNCHANGED workspaceVars
  <2>1. PICK o \in opens : OpenAnswered(o) /\ LeaveSettings
    BY <1>11 DEF FileOpened
  <2>2. UNCHANGED <<nodes, asked>> /\ strains \subseteq strains'
    BY <2>1 DEF OpenAnswered, Strained
  <2>3. EditorStep /\ SettingsStep
    BY <2>1, <2>2 DEF EditorStep, SettingsStep
  <2>4. QED  BY <1>4, <1>5, <1>6, <1>7, <1>8, <1>11, <2>2, <2>3 DEF IInv
<1>12. CASE OnConfiguration /\ UNCHANGED <<settingsVars, workspaceVars>>
  <2>1. OpenListed => \E n \in ConfigurationFiles : OpenFile(n)
    <3>1. SUFFICES ASSUME NEW n \in ListedNodes \ Folders, OpenFile(n)
                   PROVE  n \in ConfigurationFiles
      BY DEF OpenListed
    <3>2. n \in Below
      BY <1>1 DEF ListedNodes, WorkspaceOK
    <3>3. n \in DOMAIN nodes /\ ~nodes[n].folder
      BY <3>1, <3>2 DEF Folders, Below
    <3>4. nodes[n].name = "configuration"
      BY <1>1, <3>2, <3>3 DEF TreeOK
    <3>5. QED  BY <3>3, <3>4 DEF ConfigurationFiles
  <2>2. EditorStep
    BY <1>12, <2>1 DEF OnConfiguration, EditorStep
  <2>3. strains \subseteq strains' /\ (asked' = asked \/ Ask)
    BY <1>12 DEF OnConfiguration, OpenListed, ClickSector, OpenModal, ToggleDrawing,
         HandleClearSelectedLocation, CloseModal, HandleEdit, HandleCreate, DeleteItem,
         SubmitForm, Write, OpenFile, OpenServed, OpenFails, SaveServed, SaveAnswered,
         SaveFails, Strained, nodeVars
  <2>4. SaveServed \/ UNCHANGED nodes
    BY <1>12 DEF OnConfiguration, OpenListed, ClickSector, OpenModal, ToggleDrawing,
         HandleClearSelectedLocation, CloseModal, HandleEdit, HandleCreate, DeleteItem,
         SubmitForm, OpenFile, OpenServed, OpenFails, SaveAnswered, SaveFails, nodeVars
  <2>5. TreeOK' /\ SettingsKept /\ ListsKept
    BY <1>1, <1>7, <2>4, SaveServedNodes
  <2>6. QED  BY <1>3, <1>4, <1>6, <1>8, <1>12, <2>2, <2>3, <2>5 DEF IInv
<1>13. CASE OnWorkspace /\ UNCHANGED <<editorVars, settingsVars>>
  <2>1. WorkspaceStep
    BY <1>13 DEF OnWorkspace, WorkspaceStep, Kinds
  <2>2. strains \subseteq strains' /\ (asked' = asked \/ Ask)
    BY <1>13 DEF OnWorkspace, OpenDialog, CloseDialog, Submit, FindSettingsFolder,
         FetchServed, FetchAnswered, FetchFails, OrderServed, OrderAnswered, Strained, nodeVars
  <2>3. OrderServed \/ UNCHANGED nodes
    BY <1>13 DEF OnWorkspace, OpenDialog, CloseDialog, Submit, FindSettingsFolder,
         FetchServed, FetchAnswered, FetchFails, OrderAnswered, nodeVars
  <2>4. TreeOK' /\ ConfigurationsKept /\ SettingsKept /\ Below \subseteq Below'
        /\ (ListsKept \/ OrderServed)
    BY <1>1, <1>7, <2>3, OrderServedNodes DEF ListsKept
  <2>5. WorkspaceOK' /\ Current'
    BY <1>1, <2>1, <2>4, WorkspaceTyped, CurrentKept
  <2>6. QED  BY <1>2, <1>3, <1>8, <1>13, <2>2, <2>4, <2>5 DEF IInv
<1>14. CASE UNCHANGED vars
  BY <1>2, <1>3, <1>4, <1>7, <1>8, <1>14 DEF IInv, vars, nodeVars
<1>15. QED  BY <1>9, <1>10, <1>11, <1>12, <1>13, <1>14 DEF Next

LEMMA Invariant == Spec => []IInv
BY InitHolds, NextKeeps, PTL DEF Spec

------------------------------------------------------------------------------
(* What the pages keep *)

\* No two items of a configuration have the same id, in the store or in a file, as
\* long as none is created and no file is opened while another change is under way
\* (handleCreate, the lists' deletions and forms).
THEOREM UniqueIds == Spec => []IdsUnique
<1>1. IInv => IdsUnique
  <2>1. SUFFICES ASSUME IInv, AreUnique, NEW list \in Configurations
                 PROVE  Cardinality(Ids(list)) = Len(list)
    BY DEF IdsUnique, IInv, Unique
  <2>2. list \in Lists /\ Distinct(list)
    BY <2>1 DEF IInv, EditorOK, TreeOK, AreUnique, Configurations
  <2>3. QED  BY <2>2, DistinctIds
<1>2. QED  BY <1>1, Invariant, PTL

\* No item gets from one configuration into another, as long as no file is opened
\* while a change is under way (the answers of handleCreate, of deletions and forms).
THEOREM ApartFiles == Spec => []FilesApart
<1>1. IInv => FilesApart
  BY DEF IInv, Apart, AreApart, AllOf, FilesApart
<1>2. QED  BY <1>1, Invariant, PTL

\* No item is listed in two sectors (objectWithinSelectedSector, of places that the
\* dialog takes).
THEOREM ListedInOneSector == Spec => []ListedOnce
<1>1. IInv => ListedOnce
  <2>1. SUFFICES ASSUME IInv, NEW s \in SectorIds, NEW t \in SectorIds,
                        NEW k \in Listed(s), k \in Listed(t)
                 PROVE  s = t
    BY DEF ListedOnce
  <2>2. items[k].place \in Spots
    BY <2>1, ListFacts DEF Listed, IInv, EditorOK, Items
  <2>3. QED  BY <2>1, <2>2, SpotInOneSector DEF Listed
<1>2. QED  BY <1>1, Invariant, PTL

\* A file of settings is only overwritten with settings that were read from it,
\* whichever files are shown in turn, as long as each reading finds data and its file
\* is still the one shown (handleSave).
THEOREM SettingsAreOfFile == Spec => []SettingsOfFile
<1>1. IInv => SettingsOfFile
  BY DEF IInv, OwnSettings, AreOwn, SettingsOfFile
<1>2. QED  BY <1>1, Invariant, PTL

\* The icon makes one settings folder with one sim_settings at most, as long as the
\* clicks on it do not overlap (handleSettingsClick); it does not look at those that
\* the service has made under the root.
THEOREM SimSettingsAreOne == Spec => []OneSimSettings
<1>1. IInv => OneSimSettings
  <2>1. SUFFICES ASSUME IsOneFolder
                 PROVE  /\ Cardinality(SettingsFolders) <= 1
                        /\ Cardinality(SimSettings) <= 1
    BY DEF IInv, OneFolder, OneSimSettings, SimSettings
  <2>2. ASSUME NEW S, \A x, y \in S : x = y
        PROVE  Cardinality(S) <= 1
    <3>1. CASE S = {}
      BY <3>1, FS_EmptySet
    <3>2. CASE S # {}
      <4>1. PICK x \in S : S = {x}
        BY <2>2, <3>2
      <4>2. QED  BY <4>1, FS_Singleton
    <3>3. QED  BY <3>1, <3>2
  <2>3. QED  BY <2>1, <2>2 DEF IsOneFolder
<1>2. QED  BY <1>1, Invariant, PTL

\* When nothing is under way the list of the workspace is what the folder holds, as
\* long as no reading fails or is outrun (fetchChildNodes, the drawer's dialogs).
THEOREM ListsAreCurrent == Spec => []ListIsCurrent
<1>1. IInv => ListIsCurrent
  BY DEF IInv, Current, IsCurrent, Listings, ListIsCurrent
<1>2. QED  BY <1>1, Invariant, PTL
================================================================================
