----------------------------- MODULE PositionFeed -----------------------------
(***************************************************************************)
(* What the map promises of the agents' positions: a unit once reported    *)
(* stays, a report about one unit or one type of unit leaves the others    *)
(* alone, a drawn unit goes from one reported place to a later one, and a  *)
(* map that stays open comes to show the latest report of every unit.      *)
(* AgentPositions implements it.                                           *)
(***************************************************************************)
CONSTANTS Units, Places, TypeOf(_)

VARIABLES
    latest,    \* the last report of every unit reported so far
    open,      \* whether the map is there
    taken,     \* the reports it has taken in
    drawn      \* what it shows

vars == <<latest, open, taken, drawn>>

Init == latest = <<>> /\ open = FALSE /\ taken = <<>> /\ drawn = <<>>

\* A report about one unit, some units of a type, or all of them.
Scopes == {{u} : u \in Units} \cup {Units} \cup
          {{v \in Units : TypeOf(v) = TypeOf(u)} : u \in Units}

Report ==
    /\ \E scope \in Scopes :
          /\ DOMAIN latest \subseteq DOMAIN latest'
          /\ DOMAIN latest' \subseteq DOMAIN latest \cup scope
          /\ \A v \in DOMAIN latest' :
                IF v \in scope THEN latest'[v] \in Places ELSE latest'[v] = latest[v]
    /\ UNCHANGED <<open, taken, drawn>>

Show == ~open /\ open' = TRUE /\ UNCHANGED <<latest, taken, drawn>>
Hide == open /\ open' = FALSE /\ taken' = <<>> /\ drawn' = <<>> /\ UNCHANGED latest

\* What new is of a unit it has: the same as in source, or as it was.
Follows(old, new, source) ==
    /\ DOMAIN old \subseteq DOMAIN new /\ DOMAIN new \subseteq DOMAIN source
    /\ \A v \in DOMAIN new : new[v] = source[v] \/ (v \in DOMAIN old /\ new[v] = old[v])

\* The map takes in reports, and what it has taken in reaches the screen.
Draw ==
    /\ open
    /\ Follows(taken, taken', latest)
    /\ Follows(drawn, drawn', taken')
    /\ UNCHANGED <<latest, open>>

Next == Report \/ Show \/ Hide \/ Draw

\* Reports end and the map stays: what it shows becomes the last of them.
Catches == <>[]open => \A v \in Units : \A p \in Places :
    <>[](v \in DOMAIN latest /\ latest[v] = p) => <>[](v \in DOMAIN drawn /\ drawn[v] = p)

Safe == Init /\ [][Next]_vars

Spec == Safe /\ Catches
===============================================================================
