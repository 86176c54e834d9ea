----------------------------- MODULE FireSectors -----------------------------
(***************************************************************************)
(* The forest and the fire phase of a tick: the sectors of                 *)
(* engine/models/sector.py, the 4-neighbourhood of the engine, and what    *)
(* _phase_fire_propagation can make of them.                               *)
(*                                                                         *)
(* A sector is named by its grid position <<row, column>>.  Fire level,    *)
(* burn level, moisture, wind and temperature only enter the ignition      *)
(* probability and the speed of burning, so they are abstracted: whether a *)
(* threatened sector ignites and how much fuel a burning one consumes is   *)
(* an outcome of the random source.  Fuel and extinguish level are counted *)
(* in units.                                                               *)
(***************************************************************************)
EXTENDS Integers, FiniteSets

CONSTANTS
    Sectors,              \* grid positions <<row, column>>
    Water,                \* sectors whose type never catches fire
    MaxFuel,              \* fuel of an untouched sector, in units
    BurnRates,            \* units of fuel a burning sector may lose in a tick
    ExtinguishThreshold   \* crew-ticks that put a sector out

ASSUME SectorsAssumption ==
    /\ Sectors \subseteq Nat \X Nat
    /\ Water \subseteq Sectors

ASSUME BurningAssumption ==
    /\ MaxFuel \in Nat \ {0}
    /\ BurnRates \subseteq Nat \ {0}
    /\ ExtinguishThreshold \in Nat \ {0}

SectorState == {"DORMANT", "BURNING", "EXTINGUISHED", "ASH"}

Sector == [state : SectorState,
           fuel  : 0..MaxFuel,
           extinguishLevel : 0..ExtinguishThreshold]

Directions == {<<-1, 0>>, <<0, 1>>, <<1, 0>>, <<0, -1>>}

Adjacent(s) == {t \in Sectors : <<t[1] - s[1], t[2] - s[2]>> \in Directions}

IsBurning(sec, s) == sec[s].state = "BURNING"

IsFlammable(sec, s) ==
    /\ sec[s].state = "DORMANT"
    /\ sec[s].fuel > 0
    /\ s \notin Water

Burning(sec) == {s \in Sectors : IsBurning(sec, s)}

(***************************************************************************)
(* Untouched forest with the sectors of lit already on fire: ignite_sector *)
(* on a flammable sector, or a configured fire level above zero on any.    *)
(***************************************************************************)
ForestWithFire(lit) ==
    [s \in Sectors |-> [state |-> IF s \in lit THEN "BURNING" ELSE "DORMANT",
                        fuel  |-> MaxFuel,
                        extinguishLevel |-> 0]]

(***************************************************************************)
(* Sectors that may ignite in this tick: flammable, with a neighbour that  *)
(* burned in the previous snapshot.                                        *)
(***************************************************************************)
Threatened(prev) ==
    {s \in Sectors : IsFlammable(prev, s) /\ Adjacent(s) \cap Burning(prev) # {}}

\* Fuel that is never used up: the last unit stays.
FuelKept(sector, rate) == IF sector.fuel > rate THEN sector.fuel - rate ELSE sector.fuel

FuelAfter(sector, rate) == IF sector.fuel > rate THEN sector.fuel - rate ELSE 0

(***************************************************************************)
(* A sector that burned through the tick.  Burn-out is looked at before    *)
(* extinguishment, so it wins when both are due.                           *)
(***************************************************************************)
AfterBurning(sector, rate) ==
    [sector EXCEPT
        !.fuel  = FuelAfter(sector, rate),
        !.state = IF FuelAfter(sector, rate) = 0 THEN "ASH"
                  ELSE IF sector.extinguishLevel >= ExtinguishThreshold
                       THEN "EXTINGUISHED" ELSE "BURNING"]

(***************************************************************************)
(* next_sectors of the fire phase, when the random source ignites the      *)
(* sectors of ignited and takes rate[s] units of fuel from a burning s.    *)
(***************************************************************************)
FirePhase(prev, ignited, rate) ==
    [s \in Sectors |->
        IF IsBurning(prev, s) THEN AfterBurning(prev[s], rate[s])
        ELSE IF s \in ignited THEN [prev[s] EXCEPT !.state = "BURNING"]
        ELSE prev[s]]

FireOutcomes(prev) ==
    {FirePhase(prev, ignited, rate) : ignited \in SUBSET Threatened(prev),
                                      rate \in [Burning(prev) -> BurnRates]}

==============================================================================
