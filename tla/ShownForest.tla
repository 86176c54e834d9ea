------------------------------ MODULE ShownForest ------------------------------
(***************************************************************************)
(* The simulated forest as the browser draws it: the levels a tick's       *)
(* telemetry says of a sector, in the colours of the map.                  *)
(***************************************************************************)
EXTENDS SimulationEngine, SectorPicture

\* The percentages of a sector's telemetry.  Burn level and fire level are
\* outcomes the model of the fire abstracts; a sector burns with a fire level
\* above zero, and one that has stopped burning has none.
Telemetered(s) ==
    LET sector == sectors[s]
        fires == IF sector.state = "BURNING" THEN {25, 26, 50, 51, 75, 76} ELSE {0}
        burns == IF sector.state = "DORMANT" THEN {0} ELSE {LostBurnLevel, LostBurnLevel + 1}
    IN  SectorLevels(fires, burns, {(100 * sector.extinguishLevel) \div ExtinguishThreshold},
                     {"LOW", "CRITICAL"}, {"faint"})

\* The class the engine's own table gives a fire level.
Classification(fire) ==
    IF fire <= 25 THEN 1 ELSE IF fire <= 50 THEN 2 ELSE IF fire <= 75 THEN 3 ELSE 4

Shades == <<"early", "medium", "full", "extreme">>

\* A sector on fire is drawn in the colour of the class the engine gives it until
\* it counts as lost, one that crews put out as saved however late they did, one
\* that nothing happened to as neither, and borders show threat on sectors that
\* do not burn and are not lost (getFillColor, getLineColor).
PictureTellsState ==
    \A s \in Sectors : \A told \in Telemetered(s) :
        /\ sectors[s].state = "BURNING" =>
              Fill(told) = IF told.burn > LostBurnLevel THEN "lost"
                           ELSE Shades[Classification(told.fire)]
        /\ sectors[s].state = "EXTINGUISHED" => Fill(told) = "saved"
        /\ sectors[s].state = "DORMANT" =>
              /\ Fill(told) \notin FireClasses \cup {"saved", "lost"}
              /\ Line(told) = told.threat
              /\ LineWidth(told, 1) > 1 <=> told.threat # "LOW"
        /\ Row(told)[1] = 0 <=> sectors[s].state # "BURNING"

\* Blue is for sectors a brigade put out (getFillColor: "sektor ugaszony przez
\* brygade ... straz wygrala").  The code does not keep this one: a sector may
\* burn out half extinguished.
SavedIsSaved ==
    \A s \in Sectors : \A told \in Telemetered(s) :
        Fill(told) = "saved" => sectors[s].state = "EXTINGUISHED"
================================================================================
