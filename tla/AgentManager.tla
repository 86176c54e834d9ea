---------------------------- MODULE AgentManager ----------------------------
(***************************************************************************)
(* engine/agent_manager.py: the foresters and the fire brigades, what a    *)
(* tick does to them and what an order does to them.  The manager is a     *)
(* value (a record), because the engine deep-copies it into its history    *)
(* and the host keeps a reference to one of the copies.                    *)
(*                                                                         *)
(* Every sector has a location, so an order's location stands for the      *)
(* sector nearest to it; NoSector is the absent sector, and as an order's  *)
(* location the missing field.  Coordinates are abstracted: which of two   *)
(* equally old patrol targets is nearer or more spread out is left open.   *)
(***************************************************************************)
EXTENDS FireSectors

CONSTANTS
    NoSector,        \* Python's None where a sector id may stand
    Brigades,
    Foresters,       \* integers, in the order of registration
    TravelTime,      \* AgentConfig.travel_time
    PatrolDwell,     \* AgentConfig.patrol_dwell
    Proactive        \* AgentConfig.proactive_patrol

ASSUME AgentsAssumption ==
    /\ NoSector \notin Sectors
    /\ IsFiniteSet(Brigades)
    /\ Foresters \subseteq Nat
    /\ TravelTime \in Nat \ {0}
    /\ PatrolDwell \in Nat
    /\ Proactive \in BOOLEAN

AgentState  == {"AVAILABLE", "TRAVELLING", "PATROLLING", "EXTINGUISHING"}
AgentAction == {"NONE", "PATROL", "EXTINGUISH", "GO_TO_BASE"}

SectorOrNone == Sectors \cup {NoSector}

Agent == [state  : AgentState,
          action : AgentAction,
          at     : SectorOrNone,         \* current_sector_id
          target : SectorOrNone,         \* target_sector_id
          remaining : 0..TravelTime]     \* travel_ticks_remaining

(***************************************************************************)
(* _sector_last_patrolled holds tick numbers that are only ever compared:  *)
(* older holds the pairs <<s, t>> with s last patrolled before t.  The     *)
(* dwell counter is compared with PatrolDwell only and stops there.        *)
(***************************************************************************)
Manager == [brigades   : [Brigades -> Agent],
            foresters  : [Foresters -> Agent],
            older      : SUBSET (Sectors \X Sectors),
            dwell      : [Foresters -> 0..PatrolDwell],
            autonomous : SUBSET Foresters]

AgentAtBase == [state |-> "AVAILABLE", action |-> "NONE",
                at |-> NoSector, target |-> NoSector, remaining |-> 0]

NewManager == [brigades   |-> [b \in Brigades |-> AgentAtBase],
               foresters  |-> [f \in Foresters |-> AgentAtBase],
               older      |-> {},
               dwell      |-> [f \in Foresters |-> 0],
               autonomous |-> {}]

Least(a, b) == IF a < b THEN a ELSE b

------------------------------------------------------------------------------
(* Travel *)

\* A new order leaves current_sector_id as it was; a patrol dispatch clears it.
SentTo(agent, s, action) ==
    [agent EXCEPT !.state = "TRAVELLING", !.action = action,
                  !.target = s, !.remaining = TravelTime]

SentHome(agent) ==
    [agent EXCEPT !.state = "TRAVELLING", !.action = "GO_TO_BASE",
                  !.target = NoSector, !.at = NoSector, !.remaining = TravelTime]

Returned(agent) ==
    [agent EXCEPT !.state = "AVAILABLE", !.at = NoSector,
                  !.target = NoSector, !.remaining = 0]

ArrivedAs(agent, state) ==
    [agent EXCEPT !.state = state, !.at = agent.target,
                  !.target = NoSector, !.remaining = 0]

\* A crew that finds its sector not burning turns round at once; the sector
\* stays its current_sector_id on the way home.
ArrivedCrew(agent, sec) ==
    IF agent.target \in Sectors /\ IsBurning(sec, agent.target)
    THEN ArrivedAs(agent, "EXTINGUISHING")
    ELSE [SentHome(agent) EXCEPT !.at = agent.target]

\* _tick_travel; arrived is the agent as it is when it reaches its target.
TickTravel(agent, arrived) ==
    CASE agent.state # "TRAVELLING"   -> agent
      [] agent.state = "TRAVELLING" /\ agent.remaining > 1 ->
             [agent EXCEPT !.remaining = agent.remaining - 1]
      [] agent.state = "TRAVELLING" /\ agent.remaining <= 1 ->
             IF agent.action = "GO_TO_BASE" THEN Returned(agent) ELSE arrived

Travel(m, sec) ==
    [m EXCEPT
        !.foresters = [f \in Foresters |->
            TickTravel(m.foresters[f], ArrivedAs(m.foresters[f], "PATROLLING"))],
        !.brigades = [b \in Brigades |->
            TickTravel(m.brigades[b], ArrivedCrew(m.brigades[b], sec))]]

------------------------------------------------------------------------------
(* The phases of process_tick *)

NewlyIgnited(prev, next) ==
    {s \in Sectors : prev[s].state = "DORMANT" /\ next[s].state = "BURNING"}

\* 1. Foresters leave a sector that caught fire in this tick.
WithdrawForesters(m, prev, next) ==
    [m EXCEPT !.foresters = [f \in Foresters |->
        IF m.foresters[f].at \in NewlyIgnited(prev, next)
        THEN SentHome(m.foresters[f]) ELSE m.foresters[f]]]

\* 3. Every crew at a burning sector raises its extinguish level.
Crew(m, s) == {b \in Brigades : /\ m.brigades[b].state = "EXTINGUISHING"
                                /\ m.brigades[b].at = s}

\* Without the cap at the threshold.
ExtinguishUncapped(m, next) ==
    [s \in Sectors |->
        IF IsBurning(next, s)
        THEN [next[s] EXCEPT !.extinguishLevel = @ + Cardinality(Crew(m, s))]
        ELSE next[s]]

Extinguish(m, next) ==
    [s \in Sectors |->
        IF IsBurning(next, s)
        THEN [next[s] EXCEPT !.extinguishLevel =
                 Least(ExtinguishThreshold, @ + Cardinality(Crew(m, s)))]
        ELSE next[s]]

\* A sector with a crew that no longer burns: every brigade whose
\* current_sector_id it is goes home, whatever that brigade is doing.
SpentSectors(m, next) == {s \in Sectors : Crew(m, s) # {} /\ ~IsBurning(next, s)}

RecallNone(m, next) == m

\* A recall that forgot to compare the sector.
RecallEverywhere(m, next) ==
    IF SpentSectors(m, next) = {} THEN m
    ELSE [m EXCEPT !.brigades = [b \in Brigades |->
             IF m.brigades[b].at # NoSector THEN SentHome(m.brigades[b])
             ELSE m.brigades[b]]]

RecallBrigades(m, next) ==
    [m EXCEPT !.brigades = [b \in Brigades |->
        IF m.brigades[b].at \in SpentSectors(m, next)
        THEN SentHome(m.brigades[b]) ELSE m.brigades[b]]]

\* 4. Proactive patrols: note what the patrols saw, ...
OnPatrol(m, f) == m.foresters[f].state = "PATROLLING" /\ m.foresters[f].at # NoSector

NotePatrols(m) ==
    LET seen == {m.foresters[f].at : f \in {g \in Foresters : OnPatrol(m, g)}}
    IN  [m EXCEPT
           !.older = {p \in @ : p[1] \notin seen /\ p[2] \notin seen}
                     \cup ((Sectors \ seen) \X seen),
           !.dwell = [f \in Foresters |->
               IF OnPatrol(m, f) THEN Least(PatrolDwell, m.dwell[f] + 1) ELSE 0]]

\* ... and send whoever is free to the sector seen longest ago that is
\* flammable and claimed by nobody.
Claims(agent) == {agent.target} \cup
                 (IF agent.state = "PATROLLING" THEN {agent.at} ELSE {})

Occupied(m) == (UNION {Claims(m.foresters[f]) : f \in Foresters}) \ {NoSector}

Free(m) == {f \in Foresters :
               \/ m.foresters[f].state = "AVAILABLE"
               \/ /\ m.foresters[f].state = "PATROLLING"
                  /\ f \in m.autonomous
                  /\ m.dwell[f] >= PatrolDwell}

\* The comparison of ages the wrong way round.
NewestTargets(m, sec, taken) ==
    LET open == {s \in Sectors : IsFlammable(sec, s)} \ taken
    IN  IF open = {} THEN {NoSector}
        ELSE {s \in open : \A t \in open : <<s, t>> \notin m.older}

BestTargets(m, sec, taken) ==
    LET open == {s \in Sectors : IsFlammable(sec, s)} \ taken
    IN  IF open = {} THEN {NoSector}
        ELSE {s \in open : \A t \in open : <<t, s>> \notin m.older}

\* Without occupied.add(target_id) in the loop.
PatrolPicksUnclaimed(m, sec) ==
    {pick \in [Free(m) -> SectorOrNone] :
        \A f \in Free(m) : pick[f] \in BestTargets(m, sec, Occupied(m))}

\* The targets the loop over the foresters, in their order, may pick.
PatrolPicks(m, sec) ==
    {pick \in [Free(m) -> SectorOrNone] :
        \A f \in Free(m) :
            LET earlier == {g \in Free(m) : g < f}
            IN  pick[f] \in BestTargets(m, sec,
                                Occupied(m) \cup {pick[g] : g \in earlier})}

DispatchPatrols(m, pick) ==
    LET sent == {f \in DOMAIN pick : pick[f] # NoSector}
    IN  [m EXCEPT
           !.foresters = [f \in Foresters |->
               IF f \in sent
               THEN [SentTo(m.foresters[f], pick[f], "PATROL") EXCEPT !.at = NoSector]
               ELSE m.foresters[f]],
           !.dwell = [f \in Foresters |-> IF f \in sent THEN 0 ELSE m.dwell[f]],
           !.autonomous = @ \cup sent]

AssignPatrols(m, sec) ==
    LET noted == NotePatrols(m)
    IN  IF Proactive
        THEN {DispatchPatrols(noted, pick) : pick \in PatrolPicks(noted, sec)}
        ELSE {m}

------------------------------------------------------------------------------
(* Orders: the manager after an order for which the sectors are sec *)

SetForester(m, f, agent) == [m EXCEPT !.foresters[f] = agent]
SetBrigade(m, b, agent)  == [m EXCEPT !.brigades[b] = agent]

AlreadyPatrolling(agent, s) ==
    /\ agent.action = "PATROL"
    /\ \/ agent.state = "TRAVELLING" /\ agent.target = s
       \/ agent.state = "PATROLLING" /\ agent.at = s

\* The forester stops being an autonomous patrol before the rest of the order
\* is validated, so a rejected order leaves that trace.
ForesterOrder(m, f, action, location, sec) ==
    LET agent == m.foresters[f]
        owned == [m EXCEPT !.autonomous = @ \ {f}]
    IN  CASE action = "PATROL" /\ Proactive -> m
          [] action = "PATROL" /\ ~Proactive ->
                IF \/ location = NoSector
                   \/ IsBurning(sec, location)
                   \/ AlreadyPatrolling(agent, location)
                THEN owned
                ELSE SetForester(owned, f, SentTo(agent, location, "PATROL"))
          [] action = "GO_TO_BASE" ->
                IF location = NoSector \/ agent.state = "AVAILABLE" THEN owned
                ELSE SetForester(owned, f, SentHome(agent))

\* The sector a brigade is already committed to.
ActiveTarget(agent) ==
    CASE agent.state = "TRAVELLING"    -> agent.target
      [] agent.state = "EXTINGUISHING" -> agent.at
      [] OTHER -> NoSector

OnBurningMission(agent, sec) ==
    /\ agent.action = "EXTINGUISH"
    /\ ActiveTarget(agent) # NoSector
    /\ IsBurning(sec, ActiveTarget(agent))

\* Refuses the sectors that are done, and lets the untouched ones through.
NoLongerOnFire(sec, s) == sec[s].state \in {"EXTINGUISHED", "ASH"}

\* SECTOR_NOT_ON_FIRE
NotOnFire(sec, s) == sec[s].state # "BURNING"

BrigadeOrder(m, b, action, location, sec) ==
    LET agent == m.brigades[b]
    IN  CASE location = NoSector -> m
          [] location # NoSector /\ action = "EXTINGUISH" ->
                IF NotOnFire(sec, location) \/ OnBurningMission(agent, sec) THEN m
                ELSE SetBrigade(m, b, SentTo(agent, location, "EXTINGUISH"))
          [] location # NoSector /\ action = "GO_TO_BASE" ->
                IF agent.state = "AVAILABLE" THEN m
                ELSE SetBrigade(m, b, SentHome(agent))

\* /assignBrigades: the brigades that are free or extinguishing go, the
\* others are reported as skipped.
AssignBrigades(m, s, crew, sec) ==
    [m EXCEPT !.brigades = [b \in Brigades |->
        IF /\ b \in crew
           /\ ~NotOnFire(sec, s)
           /\ m.brigades[b].state \in {"AVAILABLE", "EXTINGUISHING"}
        THEN SentTo(m.brigades[b], s, "EXTINGUISH") ELSE m.brigades[b]]]

==============================================================================
