-------------------------- MODULE SimulationEngine --------------------------
(***************************************************************************)
(* engine/simulation_engine.py with the order handlers and step_back of    *)
(* main_new.py: the current snapshot, the agents, the set of detected      *)
(* sectors and the history that step_back returns to.  Every action runs   *)
(* under the host's lock, so a tick and an order never overlap.            *)
(***************************************************************************)
EXTENDS AgentManager, Sequences

CONSTANTS
    SensorSectors,       \* sectors with a sensor that can detect fire
    DetectionEnabled,    \* SimulationEngine.detection_enabled
    MaxHistory           \* SimulationEngine.max_history

ASSUME EngineAssumption ==
    /\ SensorSectors \subseteq Sectors
    /\ DetectionEnabled \in BOOLEAN
    /\ MaxHistory \in Nat

VARIABLES
    sectors,     \* current_snapshot.sectors
    manager,     \* engine.agent_manager
    detected,    \* _detected_sectors
    history,     \* _history, oldest first
    detached     \* <<host.agent_manager>> once it is not the engine's, else <<>>

vars == <<sectors, manager, detected, history, detached>>

Record == [sectors : [Sectors -> Sector], manager : Manager,
           detected : SUBSET Sectors]

TypeOK ==
    /\ sectors \in [Sectors -> Sector]
    /\ manager \in Manager
    /\ detected \in SUBSET Sectors
    /\ history \in Seq(Record)
    /\ detached \in Seq(Manager) /\ Len(detached) <= 1

------------------------------------------------------------------------------

\* EngineHost.start: any sectors may be the ones lit by the configuration.
Init ==
    /\ \E lit \in SUBSET Sectors : sectors = ForestWithFire(lit)
    /\ manager = NewManager
    /\ detected = {}
    /\ history = <<>>
    /\ detached = <<>>

Around(S) == S \cup UNION {Adjacent(s) : s \in S}

\* Where the foresters' telemetry places them.
PatrolSectors(m) == {m.foresters[f].at : f \in Foresters} \cap Sectors

\* Without the neighbours of sensors and patrols.
DetectOnSpot(known, sec, m, tripped) ==
    IF ~DetectionEnabled THEN Sectors
    ELSE known \cup (Burning(sec) \cap (tripped \cup PatrolSectors(m)))

(***************************************************************************)
(* _update_detection: the latch takes in every burning sector on or next   *)
(* to a tripped sensor or a forester.  Sensor noise makes tripped open.    *)
(***************************************************************************)
Detect(known, sec, m, tripped) ==
    IF ~DetectionEnabled THEN Sectors
    ELSE known \cup {s \in Burning(sec) : s \in Around(tripped \cup PatrolSectors(m))}

Snapshot == [sectors |-> sectors, manager |-> manager, detected |-> detected]

\* Trimmed one record too late.
RememberOneMore(records, record) ==
    LET all == Append(records, record)
    IN  IF Len(all) > MaxHistory + 1 THEN Tail(all) ELSE all

Remember(records, record) ==
    LET all == Append(records, record)
    IN  IF Len(all) > MaxHistory THEN Tail(all) ELSE all

(***************************************************************************)
(* SimulationEngine.step: record the state, spread the fire, move the      *)
(* agents, extinguish, patrol, detect, commit.                             *)
(***************************************************************************)
Step ==
    \E next \in FireOutcomes(sectors), tripped \in SUBSET SensorSectors :
      \E settled \in {Travel(WithdrawForesters(manager, sectors, next), next)} :
        /\ history' = Remember(history, Snapshot)
        /\ sectors' = Extinguish(settled, next)
        /\ \E recalled \in {RecallBrigades(settled, next)} :
              manager' \in AssignPatrols(recalled, next)
        /\ detected' = Detect(detected, sectors', manager', tripped)
        /\ UNCHANGED detached

\* Sectors restored, agents forgotten.
StepBackSectors(n, tripped) ==
    LET undone == Least(n, Len(history))
        record == IF undone = 0 THEN Snapshot
                  ELSE history[Len(history) - undone + 1]
    IN  /\ sectors' = record.sectors
        /\ manager' = manager
        /\ detected' = Detect(record.detected, record.sectors, manager, tripped)
        /\ history' = SubSeq(history, 1, Len(history) - undone)
        /\ detached' = detached

(***************************************************************************)
(* EngineHost.step_back: undo up to n ticks and publish what is there.     *)
(* The engine takes the recorded manager; the host keeps the old one.      *)
(***************************************************************************)
StepBack(n, tripped) ==
    LET undone == Least(n, Len(history))
        record == IF undone = 0 THEN Snapshot
                  ELSE history[Len(history) - undone + 1]
    IN  /\ sectors' = record.sectors
        /\ manager' = record.manager
        /\ detected' = Detect(record.detected, record.sectors, record.manager, tripped)
        /\ history' = SubSeq(history, 1, Len(history) - undone)
        /\ detached' = IF undone > 0 /\ detached = <<>> THEN <<manager>> ELSE detached

------------------------------------------------------------------------------
(* Orders go to the manager the host refers to. *)

HostManager == IF detached = <<>> THEN manager ELSE detached[1]

HostManagerBecomes(m) ==
    /\ IF detached = <<>>
       THEN manager' = m /\ detached' = detached
       ELSE manager' = manager /\ detached' = <<m>>
    /\ UNCHANGED <<sectors, detected, history>>

OrderForestPatrol(f, action, location) ==
    HostManagerBecomes(ForesterOrder(HostManager, f, action, location, sectors))

OrderFireBrigade(b, action, location) ==
    HostManagerBecomes(BrigadeOrder(HostManager, b, action, location, sectors))

OrderAssignBrigades(s, crew) ==
    HostManagerBecomes(AssignBrigades(HostManager, s, crew, sectors))

\* An order whose location is one of locations (NoSector: it has none).
OrderAt(locations) ==
    \/ \E f \in Foresters, a \in {"PATROL", "GO_TO_BASE"}, l \in locations :
          OrderForestPatrol(f, a, l)
    \/ \E b \in Brigades, a \in {"EXTINGUISH", "GO_TO_BASE"}, l \in locations :
          OrderFireBrigade(b, a, l)
    \/ \E s \in Sectors, crew \in (SUBSET Brigades) \ {{}} : OrderAssignBrigades(s, crew)

Order == OrderAt(SectorOrNone)

Undo == \E n \in 1..(MaxHistory + 1), tripped \in SUBSET SensorSectors :
            StepBack(n, tripped)

Next == Step \/ Order \/ Undo

Spec == Init /\ [][Next]_vars

\* The run loop steps the engine for as long as it runs.
FairSpec == Spec /\ WF_vars(Step)

------------------------------------------------------------------------------
(* Properties *)

(***************************************************************************)
(* Between ticks a crew that extinguishes stands in a sector that burns:   *)
(* the arrival test of _tick_travel and the recall of _apply_extinguishing *)
(* between them leave no crew at a fire that is out, also after a          *)
(* step_back has put sectors and agents back.                              *)
(***************************************************************************)
CrewAtFire(sec, m) ==
    \A b \in Brigades : m.brigades[b].state = "EXTINGUISHING" =>
        m.brigades[b].at \in Sectors /\ IsBurning(sec, m.brigades[b].at)

ExtinguishersAtFire == CrewAtFire(sectors, manager)

(***************************************************************************)
(* Everything step_back can return to is a state between ticks: in each    *)
(* record of the history the agents belong to the sectors beside them.     *)
(***************************************************************************)
HistoryConsistent ==
    /\ Len(history) <= MaxHistory
    /\ \A i \in 1..Len(history) : CrewAtFire(history[i].sectors, history[i].manager)

(***************************************************************************)
(* No brigade is on its way to a sector the fire never reached: orders are *)
(* validated against the snapshot, and nothing that happens afterwards,    *)
(* recalls and step_back included, turns the mission into such a one.      *)
(***************************************************************************)
MissionsAtFires(sec, m) ==
    \A b \in Brigades :
        LET agent == m.brigades[b]
        IN  agent.state = "TRAVELLING" /\ agent.action = "EXTINGUISH" =>
              /\ agent.target \in Sectors
              /\ sec[agent.target].state # "DORMANT"

MissionsToFires == MissionsAtFires(sectors, manager)

(***************************************************************************)
(* Proactive patrols spread out: no sector is the target or the patrolled  *)
(* sector of two foresters (_assign_proactive_patrols, occupied).          *)
(***************************************************************************)
PatrolsSpread ==
    \A f, g \in Foresters : f # g =>
        (Claims(manager.foresters[f]) \cap Claims(manager.foresters[g])) \ {NoSector} = {}

(***************************************************************************)
(* The support feed hides no fire that a forester stands in or next to     *)
(* (_update_detection runs after the agents have moved), and shows none    *)
(* that has not been there (_publish_support_feed masks by detected).      *)
(***************************************************************************)
WatchedFireDetected ==
    /\ Burning(sectors) \cap Around(PatrolSectors(manager)) \subseteq detected
    /\ DetectionEnabled => \A s \in detected : sectors[s].state # "DORMANT"

(***************************************************************************)
(* A tick never takes a crew off a sector that goes on burning.            *)
(***************************************************************************)
CrewHoldsFire ==
    [][Step => \A b \in Brigades :
          LET agent == manager.brigades[b]
          IN  agent.state = "EXTINGUISHING" /\ IsBurning(sectors', agent.at)
                => manager'.brigades[b] = agent]_vars

(***************************************************************************)
(* However the operator commands the crews, the fires end: fuel runs out.  *)
(***************************************************************************)
FiresEnd == <>[](Burning(sectors) = {})

------------------------------------------------------------------------------
(* What the documentation says and the code does not do *)

(***************************************************************************)
(* A crew on its way to a sector that goes on burning stays on its way, or *)
(* arrives.  agent_manager.py:551 recalls the brigades of the sector that  *)
(* went out; the code finds them by a current_sector_id that a redirected  *)
(* crew keeps from the sector it has left.                                 *)
(***************************************************************************)
MissionKept ==
    [][Step => \A b \in Brigades :
          LET old == manager.brigades[b]
              new == manager'.brigades[b]
          IN  old.state = "TRAVELLING" /\ old.action = "EXTINGUISH"
                                       /\ IsBurning(sectors', old.target)
                => \/ new.state = "TRAVELLING"    /\ new.target = old.target
                   \/ new.state = "EXTINGUISHING" /\ new.at = old.target]_vars

(***************************************************************************)
(* An order to return reaches the brigades of the simulation at once.      *)
(* agent_manager.py:9 promises the change of state with the order; after a *)
(* step_back the host gives its orders to the manager it had before.       *)
(***************************************************************************)
OrderTakesEffect ==
    [][\A b \in Brigades, l \in Sectors : OrderFireBrigade(b, "GO_TO_BASE", l) =>
          \/ manager'.brigades[b].state = "AVAILABLE"
          \/ manager'.brigades[b].action = "GO_TO_BASE"]_vars

==============================================================================
