-------------------------- MODULE ConfigurationEditor --------------------------
(***************************************************************************)
(* The editor of the main page: a configuration file is opened, and items  *)
(* of the selected sector are created, deleted and saved.  Every change    *)
(* writes the whole configuration to the file and reaches the store only   *)
(* with the answer.  One list of items stands for the four of them, the    *)
(* sensors, cameras, brigades and patrols.                                 *)
(***************************************************************************)
EXTENDS ConfigurationNodes, ForestGrid

CONSTANTS
    Rows, Columns, Side,    \* the grid and the side of a sector
    Points                  \* where the operator may click on the dialog's map

\* A sector has places off its borders.
ASSUME GridAssumption ==
    /\ Rows \in Nat \ {0} /\ Columns \in Nat \ {0} /\ Side \in Nat /\ Side >= 2
    /\ Points \subseteq (0..Columns * Side) \X (0..Rows * Side)

VARIABLES
    items,      \* of the configuration in the store
    file,       \* fileSystemNode, or Null
    sector,     \* currentSectorId
    modal,      \* the dialog for a new item, or Null
    opens,      \* files being read
    saves       \* configurations being written

editorVars == <<items, file, sector, modal, opens, saves>>

SectorIds == 1..Rows * Columns
Sectors == PreprocessSectors(CreateSectors(Rows, Columns), Rows, Columns,
                             {0, Columns * Side} \X {0, Rows * Side})
BoundsOf(s) == GetBoundsFromContours(Sectors[s].contours)

\* getDefaultMapLocation is off the forest.
DefaultMapLocation == <<-1, -1>>

ConfigurationFiles == {n \in DOMAIN nodes : nodes[n].name = "configuration"}

\* An item is of the file that was open when it was made.
Item(id, place, of) == [id |-> id, place |-> place, of |-> of]

EditorInit ==
    /\ items = <<>> /\ file = Null /\ sector = Null /\ modal = Null
    /\ opens = {} /\ saves = {}

ClickSector(s) ==
    /\ file # Null /\ modal = Null
    /\ sector' = s
    /\ UNCHANGED <<items, file, modal, opens, saves, nodeVars>>

------------------------------------------------------------------------------
(* Opening a file *)

\* The file's name first, and its contents with the answer.
OpenFileFirst(n) ==
    /\ Ask /\ modal = Null
    /\ opens' = opens \cup {[node |-> n, n |-> asked', data |-> Null]}
    /\ file' = n
    /\ UNCHANGED <<items, sector, modal, saves, nodes, strains>>

OpenFile(n) ==
    /\ Ask /\ modal = Null
    /\ opens' = opens \cup {[node |-> n, n |-> asked', data |-> Null]}
    /\ UNCHANGED <<items, file, sector, modal, saves, nodes, strains>>

OpenServed ==
    /\ \E o \in opens :
        /\ o.data = Null
        /\ opens' = (opens \ {o}) \cup {[o EXCEPT !.data = nodes[o.node].data]}
    /\ UNCHANGED <<items, file, sector, modal, saves, nodeVars>>

\* The pane of the sector, and the dialog in it, go away with the selection.
OpenAnswered(o) ==
    /\ o.data # Null /\ opens' = opens \ {o}
    /\ items' = o.data /\ file' = o.node
    /\ sector' = Null /\ modal' = Null
    /\ Strained(saves # {}, "mixed")
    /\ UNCHANGED <<saves, nodes, asked>>

OpenFails ==
    /\ \E o \in opens : opens' = opens \ {o}
    /\ UNCHANGED <<items, file, sector, modal, saves, nodeVars>>

------------------------------------------------------------------------------
(* The dialog for a new item *)

OpenModal ==
    /\ sector # Null /\ modal = Null
    /\ modal' = [drawing |-> FALSE, place |-> DefaultMapLocation]
    /\ UNCHANGED <<items, file, sector, opens, saves, nodeVars>>

IsLocationDrawn == modal.place # DefaultMapLocation

ToggleDrawing ==
    /\ modal # Null /\ ~IsLocationDrawn
    /\ modal' = [modal EXCEPT !.drawing = ~@]
    /\ UNCHANGED <<items, file, sector, opens, saves, nodeVars>>

HandleEditOnBorder(p) ==
    /\ modal # Null /\ modal.drawing /\ ~IsLocationDrawn
    /\ IsPointInOrOnBounds(p, BoundsOf(sector))
    /\ modal' = [modal EXCEPT !.place = p]
    /\ UNCHANGED <<items, file, sector, opens, saves, nodeVars>>

\* A point outside of the sector, or on its border, is not taken.
HandleEdit(p) ==
    /\ modal # Null /\ modal.drawing /\ ~IsLocationDrawn
    /\ IsPointInBounds(p, BoundsOf(sector))
    /\ modal' = [modal EXCEPT !.place = p]
    /\ UNCHANGED <<items, file, sector, opens, saves, nodeVars>>

HandleClearSelectedLocation ==
    /\ modal # Null /\ IsLocationDrawn
    /\ modal' = [drawing |-> FALSE, place |-> DefaultMapLocation]
    /\ UNCHANGED <<items, file, sector, opens, saves, nodeVars>>

CloseModal ==
    /\ modal # Null /\ modal' = Null
    /\ UNCHANGED <<items, file, sector, opens, saves, nodeVars>>

------------------------------------------------------------------------------
(* Changes *)

Ids(list) == {list[k].id : k \in DOMAIN list}

\* The items whose id is another one, in their order.
Without(id) ==
    LET kept == {k \in DOMAIN items : items[k].id # id}
        Nth(i) == CHOOSE k \in kept : Cardinality({j \in kept : j <= k}) = i
    IN  [i \in 1..Cardinality(kept) |-> items[Nth(i)]]

NextIdByCount == Len(items)
NextId == IF items = <<>> THEN 0 ELSE Most(Ids(items)) + 1

\* The whole configuration, as the page shows it, goes to the file of then.
Write(list, item) ==
    /\ Ask
    /\ saves' = saves \cup {[file |-> file, n |-> asked', items |-> list, item |-> item,
                             served |-> FALSE]}

HandleCreate ==
    /\ modal # Null /\ modal' = Null
    /\ LET new == Item(NextId, modal.place, file) IN Write(Append(items, new), new)
    /\ Strained(saves # {}, "doubled")
    /\ UNCHANGED <<items, file, sector, opens, nodes>>

Listed(s) == {k \in DOMAIN items : ObjectWithinSector(Sectors, s, items[k].place)}

DeleteItem ==
    /\ sector # Null /\ modal = Null
    /\ \E k \in Listed(sector) :
        Write(Without(items[k].id), Null)
    /\ UNCHANGED <<items, file, sector, modal, opens, nodes, strains>>

\* The form starts anew from the store with each change of it.
SubmitForm ==
    /\ sector # Null /\ modal = Null
    /\ Write(items, Null)
    /\ UNCHANGED <<items, file, sector, modal, opens, nodes, strains>>

SaveServed ==
    /\ \E w \in saves :
        /\ ~w.served
        /\ UpdateNode(w.file, w.items)
        /\ saves' = (saves \ {w}) \cup {[w EXCEPT !.served = TRUE]}
    /\ UNCHANGED <<items, file, sector, modal, opens, asked, strains>>

\* A new item joins whatever the store holds by now; a deletion or a save of the
\* form puts back the configuration it wrote.
SaveAnswered ==
    /\ \E w \in saves :
        /\ w.served
        /\ saves' = saves \ {w}
        /\ items' = IF w.item # Null THEN Append(items, w.item) ELSE w.items
    /\ UNCHANGED <<file, sector, modal, opens, nodeVars>>

\* A request or its answer is lost; the store stays as it is.
SaveFails ==
    /\ \E w \in saves : saves' = saves \ {w}
    /\ UNCHANGED <<items, file, sector, modal, opens, nodeVars>>

------------------------------------------------------------------------------
(* Properties *)

Configurations == {items} \cup {nodes[n].data : n \in ConfigurationFiles}

\* No two items of a configuration have the same id, in the store or in a file,
\* however they are created, deleted and saved, as long as none is created and no
\* file is opened while another change is under way (handleCreate numbers by what
\* the page shows, and the answer joins what the store holds).
IdsUnique ==
    strains \cap {"doubled", "mixed"} = {} =>
        \A list \in Configurations : Cardinality(Ids(list)) = Len(list)

\* No item gets from one configuration into another, as long as no file is
\* opened while a change is under way (its answer is put in whatever configuration
\* the store holds).
FilesApart ==
    "mixed" \notin strains =>
        /\ \A k \in DOMAIN items : items[k].of = file
        /\ \A n \in ConfigurationFiles : \A k \in DOMAIN nodes[n].data : nodes[n].data[k].of = n

\* No item is listed in two sectors: the dialog takes no point on a border, where
\* the lists of both neighbours would show it (objectWithinSelectedSector).
ListedOnce ==
    \A s, t \in SectorIds : s # t => Listed(s) \cap Listed(t) = {}
================================================================================
