----------------------------- MODULE SectorPicture -----------------------------
(***************************************************************************)
(* How the map and the table of sectors draw a sector of given levels, in  *)
(* percent.  A colour is named for what it says, and the shades that only  *)
(* depend on how many sectors the forest has are left out.                 *)
(***************************************************************************)
EXTENDS Integers

LostBurnLevel == 78
HideLabelsSectorCount == 120

\* Levels of a sector as the store holds them, and what the sensors' values of
\* its initial state say of heat and smoke.
SectorLevels(fires, burns, extinguishes, threats, heats) ==
    [fire : fires, burn : burns, extinguish : extinguishes, threat : threats, heat : heats]

IsLost(s) == s.burn > LostBurnLevel
IsSaved(s) == s.fire = 0 /\ s.extinguish >= 50

FireClass(fire) ==
    IF fire <= 25 THEN "early" ELSE IF fire <= 50 THEN "medium"
    ELSE IF fire <= 75 THEN "full" ELSE "extreme"

FireClasses == {"early", "medium", "full", "extreme"}

\* The burnt-out colour first.
FillLostFirst(s) ==
    IF IsLost(s) THEN "lost" ELSE IF IsSaved(s) THEN "saved"
    ELSE IF s.fire > 0 THEN FireClass(s.fire) ELSE s.heat

\* A sector put out late has a high burn level too, and is still shown as saved.
Fill(s) ==
    IF IsSaved(s) THEN "saved" ELSE IF IsLost(s) THEN "lost"
    ELSE IF s.fire > 0 THEN FireClass(s.fire) ELSE s.heat

\* The border carries the threat of a sector without fire.
Line(s) ==
    IF IsLost(s) THEN "lost" ELSE IF s.fire > 0 THEN "fire" ELSE s.threat

LineWidth(s, base) ==
    LET least == CASE s.threat = "MEDIUM" -> 2 [] s.threat = "HIGH" -> 3
                   [] s.threat = "VERY_HIGH" -> 4 [] s.threat = "CRITICAL" -> 5
                   [] OTHER -> base
    IN  IF s.fire = 0 /\ least > base THEN least ELSE base

ShowsLabels(count) == count <= HideLabelsSectorCount

\* The row of the table of sectors.
Row(s) == <<s.fire, s.burn, s.extinguish>>
================================================================================
