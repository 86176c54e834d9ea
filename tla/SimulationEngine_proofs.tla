----------------------- MODULE SimulationEngine_proofs -----------------------
(***************************************************************************)
(* Theorems about the engine for any forest, any crews and any history     *)
(* limit: types, the safety of the crews, that step_back only returns to   *)
(* states in which they are safe, that what foresters see is detected, that *)
(* those on proactive patrols keep to sectors of their own, and that the map *)
(* draws every sector as what it is.                                       *)
(***************************************************************************)
EXTENDS ShownForest, FiniteSetTheorems, SequenceTheorems, TLAPS

(***************************************************************************)
(* The operators of FireSectors and AgentManager: what a fire phase, a phase *)
(* of process_tick and an order return, and what they do to the crews.     *)
(***************************************************************************)
Forest == [Sectors -> Sector]

------------------------------------------------------------------------------
(* What the operators return *)

\* A sector that burned through a tick is a sector, and not a dormant one.
LEMMA AfterBurningType ==
    ASSUME NEW sector \in Sector, NEW rate \in BurnRates
    PROVE  /\ AfterBurning(sector, rate) \in Sector
           /\ AfterBurning(sector, rate).state # "DORMANT"
<1>1. PICK fuel \in 0..MaxFuel : fuel = FuelAfter(sector, rate)
  BY BurningAssumption DEF FuelAfter, Sector
<1>2. PICK state \in SectorState \ {"DORMANT"} :
          state = IF fuel = 0 THEN "ASH"
                  ELSE IF sector.extinguishLevel >= ExtinguishThreshold
                       THEN "EXTINGUISHED" ELSE "BURNING"
  BY DEF SectorState
<1>3. AfterBurning(sector, rate) = [sector EXCEPT !.fuel = fuel, !.state = state]
  BY <1>1, <1>2 DEF AfterBurning
<1>4. QED  BY <1>3 DEF Sector

\* The fire phase makes a forest of a forest.
LEMMA FirePhaseType ==
    ASSUME NEW prev \in Forest, NEW next \in FireOutcomes(prev)
    PROVE  next \in Forest
<1>1. PICK ignited \in SUBSET Threatened(prev), rate \in [Burning(prev) -> BurnRates] :
          next = FirePhase(prev, ignited, rate)
  BY DEF FireOutcomes
<1>2. ASSUME NEW s \in Sectors, IsBurning(prev, s)
      PROVE  AfterBurning(prev[s], rate[s]) \in Sector
  <2>1. s \in Burning(prev)  BY <1>2 DEF Burning
  <2>2. rate[s] \in BurnRates /\ prev[s] \in Sector  BY <2>1 DEF Forest
  <2>3. QED  BY <2>2, AfterBurningType
<1>3. ASSUME NEW s \in Sectors
      PROVE  [prev[s] EXCEPT !.state = "BURNING"] \in Sector /\ prev[s] \in Sector
  BY DEF Forest, Sector, SectorState
<1>4. QED  BY <1>1, <1>2, <1>3 DEF FirePhase, Forest

\* No sector becomes dormant again.
LEMMA NeverDormantAgain ==
    ASSUME NEW prev \in Forest, NEW next \in FireOutcomes(prev),
           NEW s \in Sectors, prev[s].state # "DORMANT"
    PROVE  next[s].state # "DORMANT"
<1>1. PICK ignited \in SUBSET Threatened(prev), rate \in [Burning(prev) -> BurnRates] :
          next = FirePhase(prev, ignited, rate)
  BY DEF FireOutcomes
<1>2. prev[s] \in Sector  BY DEF Forest
<1>3. ASSUME IsBurning(prev, s)
      PROVE  AfterBurning(prev[s], rate[s]).state # "DORMANT"
  <2>1. s \in Burning(prev)  BY <1>3 DEF Burning
  <2>2. rate[s] \in BurnRates  BY <2>1
  <2>3. QED  BY <1>2, <2>2, AfterBurningType
<1>4. [prev[s] EXCEPT !.state = "BURNING"].state = "BURNING"
  BY <1>2 DEF Sector
<1>5. QED  BY <1>1, <1>3, <1>4 DEF FirePhase

\* Extinguishing keeps the forest a forest: the level stays at its threshold.
LEMMA ExtinguishType ==
    ASSUME NEW m, NEW next \in Forest
    PROVE  Extinguish(m, next) \in Forest
<1>1. ASSUME NEW s \in Sectors
      PROVE  Cardinality(Crew(m, s)) \in Nat
  BY AgentsAssumption, FS_Subset, FS_CardinalityType DEF Crew
<1>2. ASSUME NEW s \in Sectors, NEW k \in Nat
      PROVE  [next[s] EXCEPT !.extinguishLevel = Least(ExtinguishThreshold, @ + k)] \in Sector
  <2>1. next[s] \in Sector  BY DEF Forest
  <2>2. Least(ExtinguishThreshold, next[s].extinguishLevel + k) \in 0..ExtinguishThreshold
    BY <2>1, BurningAssumption DEF Sector, Least
  <2>3. QED  BY <2>1, <2>2 DEF Sector
<1>3. QED  BY <1>1, <1>2 DEF Extinguish, Forest

\* Extinguishing changes no sector's state: that is left to the next fire phase.
LEMMA ExtinguishKeepsState ==
    ASSUME NEW m, NEW next \in Forest, NEW s \in Sectors
    PROVE  Extinguish(m, next)[s].state = next[s].state
<1>1. next[s] \in Sector  BY DEF Forest
<1>2. QED  BY <1>1 DEF Extinguish, Sector

\* Sending an agent somewhere or home, and its arrival, make an agent of an agent.
LEMMA AgentMoves ==
    ASSUME NEW agent \in Agent, NEW s \in SectorOrNone
    PROVE  /\ \A action \in AgentAction : SentTo(agent, s, action) \in Agent
           /\ SentHome(agent) \in Agent
           /\ [SentHome(agent) EXCEPT !.at = s] \in Agent
           /\ Returned(agent) \in Agent
           /\ \A state \in AgentState : ArrivedAs(agent, state) \in Agent
<1>1. /\ {"AVAILABLE", "TRAVELLING"} \subseteq AgentState
      /\ "GO_TO_BASE" \in AgentAction
      /\ NoSector \in SectorOrNone
      /\ TravelTime \in 0..TravelTime /\ 0 \in 0..TravelTime
  BY AgentsAssumption DEF AgentState, AgentAction, SectorOrNone
<1>2. \A action \in AgentAction : SentTo(agent, s, action) \in Agent
  BY <1>1 DEF SentTo, Agent
<1>3. SentHome(agent) \in Agent
  BY <1>1 DEF SentHome, Agent
<1>4. [SentHome(agent) EXCEPT !.at = s] \in Agent
  BY <1>3 DEF Agent
<1>5. Returned(agent) \in Agent
  BY <1>1 DEF Returned, Agent
<1>6. \A state \in AgentState : ArrivedAs(agent, state) \in Agent
  BY <1>1 DEF ArrivedAs, Agent
<1>7. QED  BY <1>2, <1>3, <1>4, <1>5, <1>6

\* A tick of travel makes an agent of an agent.
LEMMA TickTravelType ==
    ASSUME NEW agent \in Agent, NEW arrived \in Agent
    PROVE  TickTravel(agent, arrived) \in Agent
<1>1. CASE agent.state # "TRAVELLING"
  BY <1>1 DEF TickTravel
<1>2. CASE agent.state = "TRAVELLING" /\ agent.remaining > 1
  BY <1>2, AgentsAssumption DEF TickTravel, Agent
<1>3. CASE agent.state = "TRAVELLING" /\ agent.remaining <= 1
  <2>1. Returned(agent) \in Agent
    BY AgentMoves DEF SectorOrNone
  <2>2. TickTravel(agent, arrived) \in {Returned(agent), arrived}
    BY <1>3, AgentsAssumption DEF TickTravel, Agent
  <2>3. QED  BY <2>1, <2>2
<1>4. QED  BY <1>1, <1>2, <1>3, AgentsAssumption DEF Agent

\* A crew that arrives, or turns round at a sector that is out, is a well-typed agent.
LEMMA ArrivedCrewType ==
    ASSUME NEW agent \in Agent, NEW sec
    PROVE  ArrivedCrew(agent, sec) \in Agent
<1>1. agent.target \in SectorOrNone  BY DEF Agent
<1>2. QED  BY <1>1, AgentMoves DEF ArrivedCrew, AgentState

\* Managers that differ from a manager in one field are managers.
LEMMA ManagerUpdates ==
    ASSUME NEW m \in Manager
    PROVE  /\ \A a \in [Brigades -> Agent] : [m EXCEPT !.brigades = a] \in Manager
           /\ \A a \in [Foresters -> Agent] : [m EXCEPT !.foresters = a] \in Manager
           /\ \A s \in SUBSET Foresters : [m EXCEPT !.autonomous = s] \in Manager
BY DEF Manager

\* The travel phase of process_tick keeps the manager well typed.
LEMMA TravelType ==
    ASSUME NEW m \in Manager, NEW sec
    PROVE  Travel(m, sec) \in Manager
<1> DEFINE fs == [f \in Foresters |->
                     TickTravel(m.foresters[f], ArrivedAs(m.foresters[f], "PATROLLING"))]
           bs == [b \in Brigades |->
                     TickTravel(m.brigades[b], ArrivedCrew(m.brigades[b], sec))]
<1>1. fs \in [Foresters -> Agent]
  BY TickTravelType, AgentMoves DEF Manager, AgentState, SectorOrNone
<1>2. bs \in [Brigades -> Agent]
  BY TickTravelType, ArrivedCrewType DEF Manager
<1>3. Travel(m, sec) = [m EXCEPT !.foresters = fs, !.brigades = bs]
  BY DEF Travel
<1> HIDE DEF fs, bs
<1>4. QED  BY <1>1, <1>2, <1>3 DEF Manager

\* Withdrawing foresters (_auto_withdraw_foresters) keeps the manager well typed.
LEMMA WithdrawType ==
    ASSUME NEW m \in Manager, NEW prev, NEW next
    PROVE  WithdrawForesters(m, prev, next) \in Manager
BY ManagerUpdates, AgentMoves DEF WithdrawForesters, Manager, SectorOrNone

\* Recalling crews (_recall_brigades_from) keeps the manager well typed.
LEMMA RecallType ==
    ASSUME NEW m \in Manager, NEW next
    PROVE  RecallBrigades(m, next) \in Manager
BY ManagerUpdates, AgentMoves DEF RecallBrigades, Manager, SectorOrNone

\* Noting what the patrols saw keeps the dwell counters within their bound.
LEMMA NotePatrolsType ==
    ASSUME NEW m \in Manager
    PROVE  NotePatrols(m) \in Manager
<1> DEFINE seen  == {m.foresters[f].at : f \in {g \in Foresters : OnPatrol(m, g)}}
           older == {p \in m.older : p[1] \notin seen /\ p[2] \notin seen}
                    \cup ((Sectors \ seen) \X seen)
           dwell == [f \in Foresters |->
                       IF OnPatrol(m, f) THEN Least(PatrolDwell, m.dwell[f] + 1) ELSE 0]
<1>1. seen \subseteq Sectors
  BY DEF OnPatrol, Manager, Agent, SectorOrNone
<1>2. older \in SUBSET (Sectors \X Sectors)
  BY <1>1 DEF Manager
<1>3. dwell \in [Foresters -> 0..PatrolDwell]
  BY AgentsAssumption DEF Manager, Least
<1>4. NotePatrols(m) = [m EXCEPT !.older = older, !.dwell = dwell]
  BY DEF NotePatrols
<1> HIDE DEF older, dwell
<1>5. QED  BY <1>2, <1>3, <1>4 DEF Manager

\* Sending patrols to any sectors keeps the manager well typed.
LEMMA DispatchPatrolsType ==
    ASSUME NEW m \in Manager, NEW pick, DOMAIN pick \subseteq Foresters,
           \A f \in DOMAIN pick : pick[f] \in SectorOrNone
    PROVE  DispatchPatrols(m, pick) \in Manager
<1> DEFINE sent  == {f \in DOMAIN pick : pick[f] # NoSector}
           fs    == [f \in Foresters |->
                       IF f \in sent
                       THEN [SentTo(m.foresters[f], pick[f], "PATROL") EXCEPT !.at = NoSector]
                       ELSE m.foresters[f]]
           dwell == [f \in Foresters |-> IF f \in sent THEN 0 ELSE m.dwell[f]]
           own   == m.autonomous \cup sent
<1>1. ASSUME NEW agent \in Agent, NEW s \in SectorOrNone
      PROVE  [SentTo(agent, s, "PATROL") EXCEPT !.at = NoSector] \in Agent
  <2>1. SentTo(agent, s, "PATROL") \in Agent
    BY AgentMoves DEF AgentAction
  <2>2. NoSector \in SectorOrNone  BY DEF SectorOrNone
  <2>3. QED  BY <2>1, <2>2 DEF Agent
<1>2. fs \in [Foresters -> Agent]
  BY <1>1 DEF Manager
<1>3. dwell \in [Foresters -> 0..PatrolDwell] /\ own \in SUBSET Foresters
  BY AgentsAssumption DEF Manager
<1>4. DispatchPatrols(m, pick) =
          [m EXCEPT !.foresters = fs, !.dwell = dwell, !.autonomous = own]
  BY DEF DispatchPatrols
<1> HIDE DEF fs, dwell, own
<1>5. QED  BY <1>2, <1>3, <1>4 DEF Manager

\* Whatever targets _assign_proactive_patrols picks, the manager stays well typed.
LEMMA AssignPatrolsType ==
    ASSUME NEW m \in Manager, NEW sec, NEW after \in AssignPatrols(m, sec)
    PROVE  after \in Manager
<1>1. CASE Proactive
  <2>1. PICK pick \in PatrolPicks(NotePatrols(m), sec) :
            after = DispatchPatrols(NotePatrols(m), pick)
    BY <1>1 DEF AssignPatrols
  <2>2. pick \in [Free(NotePatrols(m)) -> SectorOrNone]
    BY <2>1 DEF PatrolPicks
  <2>3. Free(NotePatrols(m)) \subseteq Foresters
    BY DEF Free
  <2>4. QED  BY <2>1, <2>2, <2>3, NotePatrolsType, DispatchPatrolsType
<1>2. CASE ~Proactive
  BY <1>2 DEF AssignPatrols
<1>3. QED  BY <1>1, <1>2

\* An order makes a manager of a manager, whatever it asks for.
LEMMA ForesterOrderType ==
    ASSUME NEW m \in Manager, NEW f \in Foresters, NEW action \in {"PATROL", "GO_TO_BASE"},
           NEW location \in SectorOrNone, NEW sec
    PROVE  ForesterOrder(m, f, action, location, sec) \in Manager
<1> DEFINE owned == [m EXCEPT !.autonomous = @ \ {f}]
<1>1. owned \in Manager /\ owned.foresters \in [Foresters -> Agent]
  BY DEF Manager
<1>2. m.foresters[f] \in Agent
  BY DEF Manager
<1>3. ASSUME NEW agent \in Agent
      PROVE  SetForester(owned, f, agent) \in Manager
  BY <1>1 DEF SetForester, Manager
<1>4. /\ SetForester(owned, f, SentTo(m.foresters[f], location, "PATROL")) \in Manager
      /\ SetForester(owned, f, SentHome(m.foresters[f])) \in Manager
  BY <1>2, <1>3, AgentMoves DEF AgentAction
<1>5. ForesterOrder(m, f, action, location, sec) \in
          {m, owned, SetForester(owned, f, SentTo(m.foresters[f], location, "PATROL")),
                     SetForester(owned, f, SentHome(m.foresters[f]))}
  BY AgentsAssumption DEF ForesterOrder
<1> HIDE DEF owned
<1>6. QED  BY <1>1, <1>4, <1>5

\* The only changes a brigade's order makes are to send it to a burning sector or home.
LEMMA BrigadeOrderCases ==
    ASSUME NEW m, NEW b, NEW action \in {"EXTINGUISH", "GO_TO_BASE"},
           NEW location \in SectorOrNone, NEW sec
    PROVE  LET after == BrigadeOrder(m, b, action, location, sec)
           IN  \/ after = m
               \/ after = SetBrigade(m, b, SentHome(m.brigades[b]))
               \/ /\ location \in Sectors /\ sec[location].state = "BURNING"
                  /\ after = SetBrigade(m, b, SentTo(m.brigades[b], location, "EXTINGUISH"))
BY AgentsAssumption DEF BrigadeOrder, SectorOrNone, NotOnFire

\* apply_brigade_order keeps the manager well typed, accepted or not.
LEMMA BrigadeOrderType ==
    ASSUME NEW m \in Manager, NEW b \in Brigades, NEW action \in {"EXTINGUISH", "GO_TO_BASE"},
           NEW location \in SectorOrNone, NEW sec
    PROVE  BrigadeOrder(m, b, action, location, sec) \in Manager
<1>1. m.brigades[b] \in Agent /\ m.brigades \in [Brigades -> Agent]
  BY DEF Manager
<1>2. ASSUME NEW agent \in Agent
      PROVE  SetBrigade(m, b, agent) \in Manager
  BY <1>1 DEF SetBrigade, Manager
<1>3. /\ SetBrigade(m, b, SentHome(m.brigades[b])) \in Manager
      /\ SetBrigade(m, b, SentTo(m.brigades[b], location, "EXTINGUISH")) \in Manager
  BY <1>1, <1>2, AgentMoves DEF AgentAction
<1>4. QED  BY <1>3, BrigadeOrderCases

\* apply_assign_brigades keeps the manager well typed.
LEMMA AssignBrigadesType ==
    ASSUME NEW m \in Manager, NEW s \in Sectors, NEW crew, NEW sec
    PROVE  AssignBrigades(m, s, crew, sec) \in Manager
<1>1. \A b \in Brigades : /\ m.brigades[b] \in Agent
                          /\ SentTo(m.brigades[b], s, "EXTINGUISH") \in Agent
  BY AgentMoves DEF Manager, SectorOrNone, AgentAction
<1>2. QED  BY <1>1, ManagerUpdates DEF AssignBrigades

(***************************************************************************)
(* The agents fit the sectors beside them.  Orders are validated against   *)
(* the sectors only, so the two parts are inductive together with the same *)
(* fact about every record step_back may restore.                          *)
(***************************************************************************)
Sound(sec, m) == CrewAtFire(sec, m) /\ MissionsAtFires(sec, m)

IInv ==
    /\ TypeOK
    /\ Sound(sectors, manager)
    /\ Len(history) <= MaxHistory
    /\ \A i \in 1..Len(history) : Sound(history[i].sectors, history[i].manager)

------------------------------------------------------------------------------
(* The history *)

\* The history keeps the records it has and takes in at most the new one.
LEMMA RememberProperties ==
    ASSUME NEW records \in Seq(Record), NEW record \in Record
    PROVE  /\ Remember(records, record) \in Seq(Record)
           /\ Len(records) <= MaxHistory => Len(Remember(records, record)) <= MaxHistory
           /\ \A i \in 1..Len(Remember(records, record)) :
                 \/ Remember(records, record)[i] = record
                 \/ \E j \in 1..Len(records) : Remember(records, record)[i] = records[j]
<1> DEFINE all == Append(records, record)
<1>1. /\ all \in Seq(Record) /\ all # <<>> /\ Len(all) = Len(records) + 1
      /\ \A i \in 1..Len(records) : all[i] = records[i]
      /\ all[Len(records) + 1] = record
  BY AppendProperties
<1>2. /\ Tail(all) \in Seq(Record) /\ Len(Tail(all)) = Len(records)
      /\ \A i \in 1..Len(records) : Tail(all)[i] = all[i + 1]
  BY <1>1, HeadTailProperties
<1>3. Remember(records, record) = IF Len(all) > MaxHistory THEN Tail(all) ELSE all
  BY DEF Remember
<1>4. Len(records) \in Nat
  BY LenProperties
<1> HIDE DEF all
<1>5. CASE Len(all) > MaxHistory
  <2>1. ASSUME NEW i \in 1..Len(records)
        PROVE  \/ Tail(all)[i] = record
               \/ \E j \in 1..Len(records) : Tail(all)[i] = records[j]
    <3>1. CASE i = Len(records)  BY <3>1, <1>1, <1>2
    <3>2. CASE i # Len(records)
      <4>1. i + 1 \in 1..Len(records)  BY <3>2, <1>4
      <4>2. Tail(all)[i] = records[i + 1]  BY <4>1, <1>1, <1>2
      <4>3. QED  BY <4>1, <4>2
    <3>3. QED  BY <3>1, <3>2
  <2>2. QED  BY <1>2, <1>3, <1>5, <2>1
<1>6. CASE ~(Len(all) > MaxHistory)
  <2>1. ASSUME NEW i \in 1..Len(all)
        PROVE  \/ all[i] = record
               \/ \E j \in 1..Len(records) : all[i] = records[j]
    <3>1. CASE i = Len(records) + 1  BY <3>1, <1>1
    <3>2. CASE i # Len(records) + 1
      <4>1. i \in 1..Len(records)  BY <3>2, <1>1, <1>4
      <4>2. QED  BY <4>1, <1>1
    <3>3. QED  BY <3>1, <3>2
  <2>2. QED  BY <1>1, <1>3, <1>4, <1>6, <2>1, EngineAssumption
<1>7. QED  BY <1>5, <1>6

\* A prefix of the history is a history of records it had.
LEMMA PrefixProperties ==
    ASSUME NEW records \in Seq(Record), NEW n \in 0..Len(records)
    PROVE  /\ SubSeq(records, 1, n) \in Seq(Record)
           /\ Len(SubSeq(records, 1, n)) = n
           /\ \A i \in 1..n : SubSeq(records, 1, n)[i] = records[i]
<1>1. Len(records) \in Nat  BY LenProperties
<1>2. \A i \in 1..n : records[i] \in Record
  BY <1>1, ElementOfSeq
<1>3. QED  BY <1>1, <1>2, SubSeqProperties

------------------------------------------------------------------------------
(* The types *)

LEMMA InitTyped == Init => TypeOK
<1> SUFFICES ASSUME Init PROVE TypeOK
  OBVIOUS
<1>1. sectors \in [Sectors -> Sector]
  BY BurningAssumption DEF Init, ForestWithFire, Sector, SectorState
<1>2. manager \in Manager
  BY AgentsAssumption DEF Init, NewManager, AgentAtBase, Manager, Agent, AgentState,
                          AgentAction, SectorOrNone
<1>3. /\ detected \in SUBSET Sectors
      /\ history \in Seq(Record)
      /\ detached \in Seq(Manager) /\ Len(detached) <= 1
  BY EmptySeq DEF Init
<1>4. QED  BY <1>1, <1>2, <1>3 DEF TypeOK

\* Detection yields a set of sectors.
LEMMA DetectType ==
    ASSUME NEW known \in SUBSET Sectors, NEW sec, NEW m, NEW tripped
    PROVE  Detect(known, sec, m, tripped) \in SUBSET Sectors
BY DEF Detect, Burning

\* The record a tick puts in the history is well typed.
LEMMA SnapshotType ==
    ASSUME TypeOK
    PROVE  Snapshot \in Record
BY DEF TypeOK, Snapshot, Record

\* The outcome of a tick, with the agents as they are between travel and recall.
LEMMA StepCases ==
    ASSUME Step
    PROVE  \E next, settled, tripped :
              /\ next \in FireOutcomes(sectors)
              /\ settled = Travel(WithdrawForesters(manager, sectors, next), next)
              /\ history' = Remember(history, Snapshot)
              /\ sectors' = Extinguish(settled, next)
              /\ manager' \in AssignPatrols(RecallBrigades(settled, next), next)
              /\ detected' = Detect(detected, sectors', manager', tripped)
              /\ UNCHANGED detached
BY DEF Step

\* A tick keeps the types.
LEMMA StepTyped ==
    ASSUME TypeOK, Step
    PROVE  TypeOK'
<1>1. PICK next, settled, tripped :
        /\ next \in FireOutcomes(sectors)
        /\ settled = Travel(WithdrawForesters(manager, sectors, next), next)
        /\ history' = Remember(history, Snapshot)
        /\ sectors' = Extinguish(settled, next)
        /\ manager' \in AssignPatrols(RecallBrigades(settled, next), next)
        /\ detected' = Detect(detected, sectors', manager', tripped)
        /\ UNCHANGED detached
  BY StepCases
<1>2. next \in Forest
  BY <1>1, FirePhaseType DEF TypeOK, Forest
<1>3. settled \in Manager
  BY <1>1, WithdrawType, TravelType DEF TypeOK
<1>4. sectors' \in [Sectors -> Sector]
  BY <1>1, <1>2, ExtinguishType DEF Forest
<1>5. manager' \in Manager
  BY <1>1, <1>3, RecallType, AssignPatrolsType
<1>6. history' \in Seq(Record)
  BY <1>1, RememberProperties, SnapshotType DEF TypeOK
<1>7. detected' \in SUBSET Sectors
  BY <1>1, DetectType DEF TypeOK
<1>8. QED  BY <1>1, <1>4, <1>5, <1>6, <1>7 DEF TypeOK

\* The state step_back restores: the present one, or a record of the history.
LEMMA StepBackCases ==
    ASSUME TypeOK, NEW n \in Nat, NEW tripped, StepBack(n, tripped)
    PROVE  \E record \in Record, left \in 0..Len(history) :
              /\ \/ record = Snapshot
                 \/ \E i \in 1..Len(history) : record = history[i]
              /\ sectors' = record.sectors
              /\ manager' = record.manager
              /\ detected' = Detect(record.detected, record.sectors, record.manager, tripped)
              /\ history' = SubSeq(history, 1, left)
              /\ \/ detached' = detached
                 \/ detached = <<>> /\ detached' = <<manager>>
<1> DEFINE undone == Least(n, Len(history))
           record == IF undone = 0 THEN Snapshot
                     ELSE history[Len(history) - undone + 1]
<1>1. Len(history) \in Nat
  BY LenProperties DEF TypeOK
<1>2. undone \in 0..Len(history)
  BY <1>1 DEF Least
<1>3. /\ sectors' = record.sectors
      /\ manager' = record.manager
      /\ detected' = Detect(record.detected, record.sectors, record.manager, tripped)
      /\ history' = SubSeq(history, 1, Len(history) - undone)
      /\ \/ detached' = detached
         \/ detached = <<>> /\ detached' = <<manager>>
  BY DEF StepBack
<1> HIDE DEF undone
<1>4. Len(history) - undone \in 0..Len(history)
  BY <1>1, <1>2
<1>5. record = Snapshot \/ \E i \in 1..Len(history) : record = history[i]
  <2>1. CASE undone = 0  BY <2>1
  <2>2. CASE undone # 0
    <3>1. Len(history) - undone + 1 \in 1..Len(history)  BY <2>2, <1>1, <1>2
    <3>2. QED  BY <3>1, <2>2
  <2>3. QED  BY <2>1, <2>2
<1> HIDE DEF record
<1>6. record \in Record
  BY <1>5, SnapshotType, ElementOfSeq DEF TypeOK
<1>7. QED  BY <1>3, <1>4, <1>5, <1>6

\* A step_back keeps the types.
LEMMA StepBackTyped ==
    ASSUME TypeOK, NEW n \in Nat, NEW tripped, StepBack(n, tripped)
    PROVE  TypeOK'
<1>1. PICK record \in Record, left \in 0..Len(history) :
          /\ sectors' = record.sectors
          /\ manager' = record.manager
          /\ detected' = Detect(record.detected, record.sectors, record.manager, tripped)
          /\ history' = SubSeq(history, 1, left)
          /\ \/ detached' = detached
             \/ detached = <<>> /\ detached' = <<manager>>
  BY StepBackCases
<1>2. sectors' \in [Sectors -> Sector] /\ manager' \in Manager
  BY <1>1 DEF Record
<1>3. detected' \in SUBSET Sectors
  BY <1>1, DetectType DEF Record
<1>4. history' \in Seq(Record)
  BY <1>1, PrefixProperties DEF TypeOK
<1>5. detached' \in Seq(Manager) /\ Len(detached') <= 1
  <2>1. CASE detached' = detached  BY <2>1 DEF TypeOK
  <2>2. CASE detached' = <<manager>>
    BY <2>2 DEF TypeOK
  <2>3. QED  BY <1>1, <2>1, <2>2
<1>6. QED  BY <1>2, <1>3, <1>4, <1>5 DEF TypeOK

\* An order changes the manager the host refers to and nothing else.
LEMMA OrderCases ==
    ASSUME NEW locations \in SUBSET SectorOrNone, OrderAt(locations)
    PROVE  \E after :
        /\ HostManagerBecomes(after)
        /\ \/ \E f \in Foresters, a \in {"PATROL", "GO_TO_BASE"}, l \in SectorOrNone :
                after = ForesterOrder(HostManager, f, a, l, sectors)
           \/ \E b \in Brigades, a \in {"EXTINGUISH", "GO_TO_BASE"}, l \in SectorOrNone :
                after = BrigadeOrder(HostManager, b, a, l, sectors)
           \/ \E s \in Sectors, crew \in SUBSET Brigades :
                after = AssignBrigades(HostManager, s, crew, sectors)
<1>1. CASE \E f \in Foresters, a \in {"PATROL", "GO_TO_BASE"}, l \in locations :
              OrderForestPatrol(f, a, l)
  BY <1>1 DEF OrderForestPatrol
<1>2. CASE \E b \in Brigades, a \in {"EXTINGUISH", "GO_TO_BASE"}, l \in locations :
              OrderFireBrigade(b, a, l)
  BY <1>2 DEF OrderFireBrigade
<1>3. CASE \E s \in Sectors, crew \in (SUBSET Brigades) \ {{}} :
              OrderAssignBrigades(s, crew)
  BY <1>3 DEF OrderAssignBrigades
<1>4. QED  BY <1>1, <1>2, <1>3 DEF OrderAt

\* The manager that orders reach is well typed, the engine's or not.
LEMMA HostManagerTyped ==
    ASSUME TypeOK
    PROVE  HostManager \in Manager
BY DEF TypeOK, HostManager

\* An order keeps the types.
LEMMA OrderTyped ==
    ASSUME TypeOK, Order
    PROVE  TypeOK'
<1>1. PICK after :
        /\ HostManagerBecomes(after)
        /\ \/ \E f \in Foresters, a \in {"PATROL", "GO_TO_BASE"}, l \in SectorOrNone :
                after = ForesterOrder(HostManager, f, a, l, sectors)
           \/ \E b \in Brigades, a \in {"EXTINGUISH", "GO_TO_BASE"}, l \in SectorOrNone :
                after = BrigadeOrder(HostManager, b, a, l, sectors)
           \/ \E s \in Sectors, crew \in SUBSET Brigades :
                after = AssignBrigades(HostManager, s, crew, sectors)
  BY OrderCases DEF Order
<1>2. after \in Manager
  BY <1>1, HostManagerTyped, ForesterOrderType, BrigadeOrderType, AssignBrigadesType
<1>3. QED  BY <1>1, <1>2 DEF HostManagerBecomes, TypeOK

\* Every action of the engine and every order keeps the types.
LEMMA NextTyped ==
    ASSUME TypeOK, [Next]_vars
    PROVE  TypeOK'
<1>1. CASE Step   BY <1>1, StepTyped
<1>2. CASE Order  BY <1>2, OrderTyped
<1>3. CASE Undo
  BY <1>3, StepBackTyped, EngineAssumption DEF Undo
<1>4. CASE UNCHANGED vars
  BY <1>4 DEF TypeOK, vars
<1>5. QED  BY <1>1, <1>2, <1>3, <1>4 DEF Next

(***************************************************************************)
(* Type correctness for every forest and every crew: in particular the     *)
(* extinguish level never passes its threshold, and travel and dwell       *)
(* counters stay within travel_time and patrol_dwell.                      *)
(***************************************************************************)
THEOREM TypeCorrect == Spec => []TypeOK
<1>1. TypeOK /\ [Next]_vars => TypeOK'
  BY NextTyped
<1>2. QED  BY InitTyped, <1>1, PTL DEF Spec

------------------------------------------------------------------------------
(* The crews *)

\* Patrols are none of the brigades' business.
LEMMA AssignPatrolsKeepsBrigades ==
    ASSUME NEW m \in Manager, NEW sec, NEW after \in AssignPatrols(m, sec)
    PROVE  after.brigades = m.brigades
<1>1. ASSUME NEW pick, NEW k \in Manager
      PROVE  DispatchPatrols(k, pick).brigades = k.brigades
  BY DEF DispatchPatrols, Manager
<1>2. NotePatrols(m).brigades = m.brigades
  BY DEF NotePatrols, Manager
<1>3. QED  BY <1>1, <1>2, NotePatrolsType DEF AssignPatrols

\* What a tick's travel makes of a brigade.
LEMMA TravelledBrigade ==
    ASSUME NEW m \in Manager, NEW prev, NEW next, NEW b \in Brigades
    PROVE  Travel(WithdrawForesters(m, prev, next), next).brigades[b] =
               TickTravel(m.brigades[b], ArrivedCrew(m.brigades[b], next))
<1>1. WithdrawForesters(m, prev, next).brigades = m.brigades
  BY DEF WithdrawForesters, Manager
<1>2. WithdrawForesters(m, prev, next) \in Manager
  BY WithdrawType
<1>3. QED  BY <1>1, <1>2 DEF Travel, Manager

\* A crew extinguishes after the travel of a tick because it did before or has
\* arrived at a fire; it is on a mission because it was on the same one before.
LEMMA TickTravelCrew ==
    ASSUME NEW agent \in Agent, NEW next
    PROVE  LET after == TickTravel(agent, ArrivedCrew(agent, next))
           IN  /\ after.state = "EXTINGUISHING" =>
                    \/ after = agent
                    \/ after.at \in Sectors /\ IsBurning(next, after.at)
               /\ after.state = "TRAVELLING" /\ after.action = "EXTINGUISH" =>
                    /\ agent.state = "TRAVELLING" /\ agent.action = "EXTINGUISH"
                    /\ after.target = agent.target
               /\ agent.state = "EXTINGUISHING" => after = agent
<1> DEFINE after == TickTravel(agent, ArrivedCrew(agent, next))
<1>1. CASE agent.state # "TRAVELLING"
  <2>1. after = agent  BY <1>1 DEF TickTravel
  <2>2. QED  BY <1>1, <2>1
<1>2. CASE agent.state = "TRAVELLING" /\ agent.remaining > 1
  <2>1. after = [agent EXCEPT !.remaining = agent.remaining - 1]
    BY <1>2, AgentsAssumption DEF TickTravel, Agent
  <2>2. QED  BY <1>2, <2>1 DEF Agent
<1>3. CASE agent.state = "TRAVELLING" /\ ~(agent.remaining > 1)
  <2>1. after = Returned(agent) \/ after = ArrivedCrew(agent, next)
    BY <1>3, AgentsAssumption DEF TickTravel, Agent
  <2>2. Returned(agent).state = "AVAILABLE"
    BY DEF Returned, Agent
  <2>3. CASE agent.target \in Sectors /\ IsBurning(next, agent.target)
    <3>1. ArrivedCrew(agent, next) = ArrivedAs(agent, "EXTINGUISHING")
      BY <2>3 DEF ArrivedCrew
    <3>2. /\ ArrivedAs(agent, "EXTINGUISHING").state = "EXTINGUISHING"
          /\ ArrivedAs(agent, "EXTINGUISHING").at = agent.target
      BY DEF ArrivedAs, Agent
    <3>3. QED  BY <1>3, <2>1, <2>2, <2>3, <3>1, <3>2
  <2>4. CASE ~(agent.target \in Sectors /\ IsBurning(next, agent.target))
    <3>1. ArrivedCrew(agent, next) = [SentHome(agent) EXCEPT !.at = agent.target]
      BY <2>4 DEF ArrivedCrew
    <3>2. /\ SentHome(agent).state = "TRAVELLING"
          /\ SentHome(agent).action = "GO_TO_BASE"
      BY DEF SentHome, Agent
    <3>3. /\ ArrivedCrew(agent, next).state = "TRAVELLING"
          /\ ArrivedCrew(agent, next).action = "GO_TO_BASE"
      BY <3>1, <3>2, AgentMoves DEF Agent, SectorOrNone
    <3>4. QED  BY <1>3, <2>1, <2>2, <3>3
  <2>5. QED  BY <2>3, <2>4
<1>4. QED  BY <1>1, <1>2, <1>3

\* A recall leaves a brigade as it was or sends it home, and takes every crew
\* off a sector that does not burn.
LEMMA RecallCrew ==
    ASSUME NEW m \in Manager, NEW next, NEW b \in Brigades
    PROVE  LET after == RecallBrigades(m, next).brigades[b]
           IN  \/ /\ after = m.brigades[b]
                  /\ after.state = "EXTINGUISHING" /\ after.at \in Sectors
                        => IsBurning(next, after.at)
               \/ after.state = "TRAVELLING" /\ after.action = "GO_TO_BASE"
                  /\ ~IsBurning(next, m.brigades[b].at)
<1> DEFINE agent == m.brigades[b]
<1>1. agent \in Agent
  BY DEF Manager
<1>2. RecallBrigades(m, next).brigades[b] =
          IF agent.at \in SpentSectors(m, next) THEN SentHome(agent) ELSE agent
  BY DEF RecallBrigades, Manager
<1>3. SentHome(agent).state = "TRAVELLING" /\ SentHome(agent).action = "GO_TO_BASE"
  BY <1>1 DEF SentHome, Agent
<1>4. CASE agent.at \in SpentSectors(m, next)
  BY <1>2, <1>3, <1>4 DEF SpentSectors
<1>5. CASE agent.at \notin SpentSectors(m, next)
  <2>1. ASSUME agent.state = "EXTINGUISHING", agent.at \in Sectors
        PROVE  IsBurning(next, agent.at)
    <3>1. b \in Crew(m, agent.at)  BY <2>1 DEF Crew
    <3>2. QED  BY <1>5, <2>1, <3>1 DEF SpentSectors
  <2>2. QED  BY <1>2, <1>5, <2>1
<1>6. QED  BY <1>4, <1>5

\* A tick leaves the crews sound.
LEMMA StepSound ==
    ASSUME NEW prev \in Forest, NEW m \in Manager, Sound(prev, m),
           NEW next \in FireOutcomes(prev), NEW settled,
           settled = Travel(WithdrawForesters(m, prev, next), next),
           NEW after \in AssignPatrols(RecallBrigades(settled, next), next)
    PROVE  Sound(Extinguish(settled, next), after)
<1>1. settled \in Manager /\ next \in Forest
  BY WithdrawType, TravelType, FirePhaseType
<1>2. after.brigades = RecallBrigades(settled, next).brigades
  BY <1>1, RecallType, AssignPatrolsKeepsBrigades
<1>3. \A s \in Sectors : Extinguish(settled, next)[s].state = next[s].state
  BY <1>1, ExtinguishKeepsState
<1>4. \A b \in Brigades : m.brigades[b] \in Agent
  BY DEF Manager
<1>5. ASSUME NEW b \in Brigades, after.brigades[b].state = "EXTINGUISHING"
      PROVE  /\ after.brigades[b].at \in Sectors
             /\ IsBurning(Extinguish(settled, next), after.brigades[b].at)
  <2>1. /\ after.brigades[b] = settled.brigades[b]
        /\ after.brigades[b].at \in Sectors => IsBurning(next, after.brigades[b].at)
    BY <1>1, <1>2, <1>5, RecallCrew
  <2>2. settled.brigades[b] = TickTravel(m.brigades[b], ArrivedCrew(m.brigades[b], next))
    BY TravelledBrigade
  <2>3. \/ settled.brigades[b] = m.brigades[b]
        \/ settled.brigades[b].at \in Sectors
    BY <1>4, <1>5, <2>1, <2>2, TickTravelCrew
  <2>4. settled.brigades[b].at \in Sectors
    BY <1>5, <2>1, <2>3 DEF Sound, CrewAtFire
  <2>5. QED  BY <1>3, <2>1, <2>4 DEF IsBurning
<1>6. ASSUME NEW b \in Brigades, after.brigades[b].state = "TRAVELLING",
             after.brigades[b].action = "EXTINGUISH"
      PROVE  /\ after.brigades[b].target \in Sectors
             /\ Extinguish(settled, next)[after.brigades[b].target].state # "DORMANT"
  <2>1. after.brigades[b] = settled.brigades[b]
    BY <1>1, <1>2, <1>6, RecallCrew
  <2>2. settled.brigades[b] = TickTravel(m.brigades[b], ArrivedCrew(m.brigades[b], next))
    BY TravelledBrigade
  <2>3. /\ m.brigades[b].state = "TRAVELLING" /\ m.brigades[b].action = "EXTINGUISH"
        /\ after.brigades[b].target = m.brigades[b].target
    BY <1>4, <1>6, <2>1, <2>2, TickTravelCrew
  <2>4. /\ m.brigades[b].target \in Sectors
        /\ prev[m.brigades[b].target].state # "DORMANT"
    BY <2>3 DEF Sound, MissionsAtFires
  <2>5. next[m.brigades[b].target].state # "DORMANT"
    BY <2>4, NeverDormantAgain
  <2>6. QED  BY <1>3, <2>3, <2>4, <2>5
<1>7. QED  BY <1>5, <1>6 DEF Sound, CrewAtFire, MissionsAtFires

\* An order to one brigade leaves the crews sound: only a fire is a mission.
LEMMA BrigadeOrderSound ==
    ASSUME NEW sec \in Forest, NEW m \in Manager, Sound(sec, m), NEW b \in Brigades,
           NEW action \in {"EXTINGUISH", "GO_TO_BASE"}, NEW l \in SectorOrNone
    PROVE  Sound(sec, BrigadeOrder(m, b, action, l, sec))
<1>1. m.brigades[b] \in Agent
  BY DEF Manager
<1>2. ASSUME NEW agent, agent.state = "TRAVELLING",
             \/ agent.action = "GO_TO_BASE"
             \/ agent.target \in Sectors /\ sec[agent.target].state = "BURNING"
      PROVE  Sound(sec, SetBrigade(m, b, agent))
  <2>1. SetBrigade(m, b, agent).brigades = [m.brigades EXCEPT ![b] = agent]
    BY DEF SetBrigade, Manager
  <2>2. ASSUME NEW c \in Brigades
        PROVE  SetBrigade(m, b, agent).brigades[c] = IF c = b THEN agent ELSE m.brigades[c]
    BY <2>1 DEF Manager
  <2>3. CrewAtFire(sec, SetBrigade(m, b, agent))
    BY <1>2, <2>2 DEF Sound, CrewAtFire
  <2>4. MissionsAtFires(sec, SetBrigade(m, b, agent))
    BY <1>2, <2>2 DEF Sound, MissionsAtFires
  <2>5. QED  BY <2>3, <2>4 DEF Sound
<1>3. /\ SentHome(m.brigades[b]).state = "TRAVELLING"
      /\ SentHome(m.brigades[b]).action = "GO_TO_BASE"
  BY <1>1 DEF SentHome, Agent
<1>4. /\ SentTo(m.brigades[b], l, "EXTINGUISH").state = "TRAVELLING"
      /\ SentTo(m.brigades[b], l, "EXTINGUISH").target = l
  BY <1>1 DEF SentTo, Agent
<1>5. Sound(sec, SetBrigade(m, b, SentHome(m.brigades[b])))
  BY <1>2, <1>3
<1>6. ASSUME l \in Sectors, sec[l].state = "BURNING"
      PROVE  Sound(sec, SetBrigade(m, b, SentTo(m.brigades[b], l, "EXTINGUISH")))
  BY <1>2, <1>4, <1>6
<1>7. QED  BY <1>5, <1>6, BrigadeOrderCases

\* So does the dispatch of a set of brigades.
LEMMA AssignBrigadesSound ==
    ASSUME NEW sec \in Forest, NEW m \in Manager, Sound(sec, m), NEW s \in Sectors, NEW crew
    PROVE  Sound(sec, AssignBrigades(m, s, crew, sec))
<1>1. ASSUME NEW b \in Brigades
      PROVE  /\ SentTo(m.brigades[b], s, "EXTINGUISH").state = "TRAVELLING"
             /\ SentTo(m.brigades[b], s, "EXTINGUISH").target = s
  BY DEF SentTo, Agent, Manager
<1>2. \A b \in Brigades :
          \/ AssignBrigades(m, s, crew, sec).brigades[b] = m.brigades[b]
          \/ /\ sec[s].state = "BURNING"
             /\ AssignBrigades(m, s, crew, sec).brigades[b] =
                    SentTo(m.brigades[b], s, "EXTINGUISH")
  BY DEF AssignBrigades, NotOnFire, Manager
<1>3. QED  BY <1>1, <1>2 DEF Sound, CrewAtFire, MissionsAtFires

\* An order to a forester is none of the brigades' business.
LEMMA ForesterOrderKeepsBrigades ==
    ASSUME NEW m \in Manager, NEW f, NEW action \in {"PATROL", "GO_TO_BASE"},
           NEW l, NEW sec
    PROVE  ForesterOrder(m, f, action, l, sec).brigades = m.brigades
<1> DEFINE owned == [m EXCEPT !.autonomous = @ \ {f}]
<1>1. owned \in Manager /\ owned.brigades = m.brigades
  BY DEF Manager
<1>2. \A agent : SetForester(owned, f, agent).brigades = m.brigades
  BY <1>1 DEF SetForester, Manager
<1>3. \/ ForesterOrder(m, f, action, l, sec) \in {m, owned}
      \/ \E agent : ForesterOrder(m, f, action, l, sec) = SetForester(owned, f, agent)
  BY AgentsAssumption DEF ForesterOrder
<1> HIDE DEF owned
<1>4. QED  BY <1>1, <1>2, <1>3

------------------------------------------------------------------------------
(* The inductive invariant *)

\* Nobody is on a mission when the simulation starts.
LEMMA InitInv == Init => IInv
<1> SUFFICES ASSUME Init PROVE IInv
  OBVIOUS
<1>1. Sound(sectors, manager)
  BY DEF Init, NewManager, AgentAtBase, Sound, CrewAtFire, MissionsAtFires
<1>2. Len(history) = 0 /\ 0 <= MaxHistory
  BY EngineAssumption DEF Init
<1>3. QED  BY <1>1, <1>2, InitTyped DEF IInv

\* A tick keeps the crews sound, and the record it adds to the history is.
LEMMA StepInv ==
    ASSUME IInv, Step
    PROVE  IInv'
<1>1. PICK next, settled, tripped :
        /\ next \in FireOutcomes(sectors)
        /\ settled = Travel(WithdrawForesters(manager, sectors, next), next)
        /\ history' = Remember(history, Snapshot)
        /\ sectors' = Extinguish(settled, next)
        /\ manager' \in AssignPatrols(RecallBrigades(settled, next), next)
        /\ detected' = Detect(detected, sectors', manager', tripped)
        /\ UNCHANGED detached
  BY StepCases
<1>2. TypeOK'
  BY StepTyped DEF IInv
<1>3. Sound(sectors', manager')
  BY <1>1, StepSound DEF IInv, TypeOK, Forest
<1>4. Sound(Snapshot.sectors, Snapshot.manager)
  BY DEF IInv, Snapshot
<1>5. /\ Len(history') <= MaxHistory
      /\ \A i \in 1..Len(history') : Sound(history'[i].sectors, history'[i].manager)
  <2>1. history \in Seq(Record) /\ Snapshot \in Record
    BY SnapshotType DEF IInv, TypeOK
  <2>2. Len(history') <= MaxHistory
    BY <1>1, <2>1, RememberProperties DEF IInv
  <2>3. ASSUME NEW i \in 1..Len(history')
        PROVE  history'[i] = Snapshot \/ \E j \in 1..Len(history) : history'[i] = history[j]
    BY <1>1, <2>1, <2>3, RememberProperties
  <2>4. ASSUME NEW i \in 1..Len(history')
        PROVE  Sound(history'[i].sectors, history'[i].manager)
    BY <1>4, <2>3 DEF IInv
  <2>5. QED  BY <2>2, <2>4
<1>6. QED  BY <1>2, <1>3, <1>5 DEF IInv, Sound, CrewAtFire, MissionsAtFires

\* An order keeps the crews sound.
LEMMA OrderInv ==
    ASSUME IInv, Order
    PROVE  IInv'
<1>1. PICK after :
        /\ HostManagerBecomes(after)
        /\ \/ \E f \in Foresters, a \in {"PATROL", "GO_TO_BASE"}, l \in SectorOrNone :
                after = ForesterOrder(HostManager, f, a, l, sectors)
           \/ \E b \in Brigades, a \in {"EXTINGUISH", "GO_TO_BASE"}, l \in SectorOrNone :
                after = BrigadeOrder(HostManager, b, a, l, sectors)
           \/ \E s \in Sectors, crew \in SUBSET Brigades :
                after = AssignBrigades(HostManager, s, crew, sectors)
  BY OrderCases DEF Order
<1>2. TypeOK'
  BY OrderTyped DEF IInv
<1>3. UNCHANGED <<sectors, history>>
  BY <1>1 DEF HostManagerBecomes
<1>4. CASE detached = <<>>
  <2>1. HostManager = manager /\ manager' = after
    BY <1>1, <1>4 DEF HostManager, HostManagerBecomes
  <2>2. sectors \in Forest /\ manager \in Manager /\ Sound(sectors, manager)
    BY DEF IInv, TypeOK, Forest
  <2>3. ASSUME after.brigades = manager.brigades
        PROVE  Sound(sectors, after)
    BY <2>2, <2>3 DEF Sound, CrewAtFire, MissionsAtFires
  <2>4. Sound(sectors, after)
    BY <1>1, <2>1, <2>2, <2>3, ForesterOrderKeepsBrigades, BrigadeOrderSound,
       AssignBrigadesSound
  <2>5. QED
    BY <1>2, <1>3, <2>1, <2>4 DEF IInv, Sound, CrewAtFire, MissionsAtFires
<1>5. CASE detached # <<>>
  <2>1. manager' = manager
    BY <1>1, <1>5 DEF HostManagerBecomes
  <2>2. QED
    BY <1>2, <1>3, <2>1 DEF IInv, Sound, CrewAtFire, MissionsAtFires
<1>6. QED  BY <1>4, <1>5

\* A step_back returns to a record that was sound.
LEMMA UndoInv ==
    ASSUME IInv, NEW n \in Nat, NEW tripped, StepBack(n, tripped)
    PROVE  IInv'
<1>1. TypeOK /\ TypeOK'
  BY StepBackTyped DEF IInv
<1>2. PICK record \in Record, left \in 0..Len(history) :
          /\ \/ record = Snapshot
             \/ \E i \in 1..Len(history) : record = history[i]
          /\ sectors' = record.sectors
          /\ manager' = record.manager
          /\ detected' = Detect(record.detected, record.sectors, record.manager, tripped)
          /\ history' = SubSeq(history, 1, left)
          /\ \/ detached' = detached
             \/ detached = <<>> /\ detached' = <<manager>>
  BY <1>1, StepBackCases
<1>3. Sound(record.sectors, record.manager)
  BY <1>2 DEF IInv, Snapshot
<1>4. /\ Len(history') = left
      /\ \A i \in 1..left : history'[i] = history[i]
  BY <1>1, <1>2, PrefixProperties DEF TypeOK
<1>5. Len(history) \in Nat
  BY <1>1, LenProperties DEF TypeOK
<1>6. /\ Len(history') <= MaxHistory
      /\ \A i \in 1..Len(history') : Sound(history'[i].sectors, history'[i].manager)
  BY <1>4, <1>5, EngineAssumption DEF IInv
<1>7. QED  BY <1>1, <1>2, <1>3, <1>6 DEF IInv, Sound, CrewAtFire, MissionsAtFires

\* Every step keeps the inductive invariant.
LEMMA NextInv ==
    ASSUME IInv, [Next]_vars
    PROVE  IInv'
<1>1. CASE Step   BY <1>1, StepInv
<1>2. CASE Order  BY <1>2, OrderInv
<1>3. CASE Undo
  BY <1>3, UndoInv, EngineAssumption DEF Undo
<1>4. CASE UNCHANGED vars
  BY <1>4 DEF IInv, TypeOK, Sound, CrewAtFire, MissionsAtFires, vars
<1>5. QED  BY <1>1, <1>2, <1>3, <1>4 DEF Next

\* The strengthened invariant holds in every reachable state.
THEOREM Invariant == Spec => []IInv
<1>1. IInv /\ [Next]_vars => IInv'
  BY NextInv
<1>2. QED  BY InitInv, <1>1, PTL DEF Spec

------------------------------------------------------------------------------
(* What follows *)

(***************************************************************************)
(* Between ticks no crew extinguishes a sector that does not burn, whatever*)
(* orders are given and however far step_back goes.                        *)
(***************************************************************************)
THEOREM CrewsAreAtFires == Spec => []ExtinguishersAtFire
<1>1. IInv => ExtinguishersAtFire
  BY DEF IInv, Sound, ExtinguishersAtFire
<1>2. QED  BY Invariant, <1>1, PTL

(***************************************************************************)
(* No brigade is under way to a sector the fire never reached.             *)
(***************************************************************************)
THEOREM MissionsAreToFires == Spec => []MissionsToFires
<1>1. IInv => MissionsToFires
  BY DEF IInv, Sound, MissionsToFires
<1>2. QED  BY Invariant, <1>1, PTL

(***************************************************************************)
(* The history stays within max_history, and every record in it is a state *)
(* in which the crews are at fires.                                        *)
(***************************************************************************)
THEOREM HistoryIsConsistent == Spec => []HistoryConsistent
<1>1. IInv => HistoryConsistent
  BY DEF IInv, Sound, HistoryConsistent
<1>2. QED  BY Invariant, <1>1, PTL

\* A tick leaves a crew at a sector that goes on burning as it was.
LEMMA StepHoldsFire ==
    ASSUME IInv, Step, NEW b \in Brigades,
           manager.brigades[b].state = "EXTINGUISHING",
           IsBurning(sectors', manager.brigades[b].at)
    PROVE  manager'.brigades[b] = manager.brigades[b]
<1> DEFINE agent == manager.brigades[b]
<1>1. PICK next, settled, tripped :
        /\ next \in FireOutcomes(sectors)
        /\ settled = Travel(WithdrawForesters(manager, sectors, next), next)
        /\ history' = Remember(history, Snapshot)
        /\ sectors' = Extinguish(settled, next)
        /\ manager' \in AssignPatrols(RecallBrigades(settled, next), next)
        /\ detected' = Detect(detected, sectors', manager', tripped)
        /\ UNCHANGED detached
  BY StepCases
<1>2. /\ sectors \in Forest /\ manager \in Manager
      /\ agent \in Agent /\ agent.at \in Sectors
  BY DEF IInv, TypeOK, Forest, Sound, CrewAtFire, Manager
<1>3. settled \in Manager /\ next \in Forest
  BY <1>1, <1>2, WithdrawType, TravelType, FirePhaseType
<1>4. IsBurning(next, agent.at)
  BY <1>1, <1>2, <1>3, ExtinguishKeepsState DEF IsBurning
<1>5. settled.brigades[b] = agent
  BY <1>1, <1>2, TravelledBrigade, TickTravelCrew
<1>6. RecallBrigades(settled, next).brigades[b] = agent
  BY <1>3, <1>4, <1>5, RecallCrew
<1>7. manager'.brigades = RecallBrigades(settled, next).brigades
  BY <1>1, <1>3, RecallType, AssignPatrolsKeepsBrigades
<1>8. QED  BY <1>6, <1>7

(***************************************************************************)
(* A tick never takes a crew off a sector that goes on burning.            *)
(***************************************************************************)
THEOREM CrewsHoldFires == Spec => CrewHoldsFire
<1>1. IInv /\ [Next]_vars =>
        [Step => \A b \in Brigades :
            LET agent == manager.brigades[b]
            IN  agent.state = "EXTINGUISHING" /\ IsBurning(sectors', agent.at)
                  => manager'.brigades[b] = agent]_vars
  BY StepHoldsFire
<1>2. QED  BY Invariant, <1>1, PTL DEF Spec, CrewHoldsFire

(***************************************************************************)
(* What a forester sees is detected, and, for the detected sectors to stay *)
(* reached by fire when step_back restores them, so it is in every record. *)
(***************************************************************************)
Watched(sec, m, known) == Burning(sec) \cap Around(PatrolSectors(m)) \subseteq known

Reached(sec, known) == DetectionEnabled => \A s \in known : sec[s].state # "DORMANT"

WatchIInv ==
    /\ TypeOK
    /\ Watched(sectors, manager, detected)
    /\ Reached(sectors, detected)
    /\ \A i \in 1..Len(history) : Reached(history[i].sectors, history[i].detected)

\* No two foresters lay claim to a sector, now or in a record.
Spread(m) ==
    \A f, g \in Foresters : f # g =>
        (Claims(m.foresters[f]) \cap Claims(m.foresters[g])) \ {NoSector} = {}

SpreadIInv ==
    /\ TypeOK
    /\ Spread(manager)
    /\ \A i \in 1..Len(history) : Spread(history[i].manager)

------------------------------------------------------------------------------
(* Orders and the foresters *)

\* An order moves no forester to another sector, and while patrols are proactive it
\* adds nothing to what they claim.
LEMMA ForesterOrderMoves ==
    ASSUME NEW m \in Manager, NEW f \in Foresters, NEW action \in {"PATROL", "GO_TO_BASE"},
           NEW l \in SectorOrNone, NEW sec, NEW g \in Foresters
    PROVE  LET new == ForesterOrder(m, f, action, l, sec).foresters[g]
           IN  /\ new.at \in {m.foresters[g].at, NoSector}
               /\ Proactive => Claims(new) \subseteq Claims(m.foresters[g]) \cup {NoSector}
<1> DEFINE owned == [m EXCEPT !.autonomous = @ \ {f}]
           agent == m.foresters[f]
<1>1. owned \in Manager /\ owned.foresters = m.foresters
  BY DEF Manager
<1>2. agent \in Agent /\ m.foresters \in [Foresters -> Agent]
  BY DEF Manager
<1>3. \A a : SetForester(owned, f, a).foresters = [m.foresters EXCEPT ![f] = a]
  BY <1>1 DEF SetForester, Manager
<1>4. /\ SentTo(agent, l, "PATROL").at = agent.at
      /\ SentHome(agent).at = NoSector /\ SentHome(agent).target = NoSector
      /\ SentHome(agent).state = "TRAVELLING"
  BY <1>2 DEF SentTo, SentHome, Agent
<1>5. \/ ForesterOrder(m, f, action, l, sec) \in {m, owned}
      \/ ForesterOrder(m, f, action, l, sec) = SetForester(owned, f, SentHome(agent))
      \/ /\ ~Proactive
         /\ ForesterOrder(m, f, action, l, sec)
                = SetForester(owned, f, SentTo(agent, l, "PATROL"))
  BY AgentsAssumption DEF ForesterOrder
<1>6. Claims(SentHome(agent)) = {NoSector}
  BY <1>4 DEF Claims
<1> HIDE DEF owned, agent
<1>7. CASE ForesterOrder(m, f, action, l, sec).foresters = m.foresters
  BY <1>7
<1>8. CASE ForesterOrder(m, f, action, l, sec) = SetForester(owned, f, SentHome(agent))
  <2>1. ForesterOrder(m, f, action, l, sec).foresters
            = [m.foresters EXCEPT ![f] = SentHome(agent)]
    BY <1>3, <1>8
  <2>2. CASE g = f
    BY <1>2, <1>4, <1>6, <2>1, <2>2
  <2>3. CASE g # f
    BY <1>2, <2>1, <2>3
  <2>4. QED  BY <2>2, <2>3
<1>9. CASE /\ ~Proactive
           /\ ForesterOrder(m, f, action, l, sec)
                  = SetForester(owned, f, SentTo(agent, l, "PATROL"))
  <2>1. ForesterOrder(m, f, action, l, sec).foresters
            = [m.foresters EXCEPT ![f] = SentTo(agent, l, "PATROL")]
    BY <1>3, <1>9
  <2>2. CASE g = f
    BY <1>2, <1>4, <1>9, <2>1, <2>2 DEF agent
  <2>3. CASE g # f
    BY <1>2, <1>9, <2>1, <2>3
  <2>4. QED  BY <2>2, <2>3
<1>10. QED  BY <1>1, <1>5, <1>7, <1>8, <1>9

\* Orders to brigades are none of the foresters' business.
LEMMA BrigadeOrdersKeepForesters ==
    ASSUME NEW m \in Manager, NEW sec
    PROVE  /\ \A b \in Brigades, a \in {"EXTINGUISH", "GO_TO_BASE"}, l \in SectorOrNone :
                  BrigadeOrder(m, b, a, l, sec).foresters = m.foresters
           /\ \A s \in Sectors, crew \in SUBSET Brigades :
                  AssignBrigades(m, s, crew, sec).foresters = m.foresters
<1>1. \A b, agent : SetBrigade(m, b, agent).foresters = m.foresters
  BY DEF SetBrigade, Manager
<1>2. ASSUME NEW b \in Brigades, NEW a \in {"EXTINGUISH", "GO_TO_BASE"},
             NEW l \in SectorOrNone
      PROVE  BrigadeOrder(m, b, a, l, sec).foresters = m.foresters
  BY <1>1, <1>2, BrigadeOrderCases
<1>3. \A s \in Sectors, crew \in SUBSET Brigades : AssignBrigades(m, s, crew, sec).foresters = m.foresters
  BY DEF AssignBrigades, Manager
<1>4. QED  BY <1>2, <1>3

\* What an order leaves of the foresters of the engine.
LEMMA OrderMoves ==
    ASSUME TypeOK, Order
    PROVE  /\ UNCHANGED <<sectors, detected, history>>
           /\ \A g \in Foresters :
                /\ manager'.foresters[g].at \in {manager.foresters[g].at, NoSector}
                /\ Proactive => Claims(manager'.foresters[g])
                                  \subseteq Claims(manager.foresters[g]) \cup {NoSector}
<1>1. PICK after :
        /\ HostManagerBecomes(after)
        /\ \/ \E f \in Foresters, a \in {"PATROL", "GO_TO_BASE"}, l \in SectorOrNone :
                after = ForesterOrder(HostManager, f, a, l, sectors)
           \/ \E b \in Brigades, a \in {"EXTINGUISH", "GO_TO_BASE"}, l \in SectorOrNone :
                after = BrigadeOrder(HostManager, b, a, l, sectors)
           \/ \E s \in Sectors, crew \in SUBSET Brigades :
                after = AssignBrigades(HostManager, s, crew, sectors)
  BY OrderCases DEF Order
<1>2. UNCHANGED <<sectors, detected, history>>
  BY <1>1 DEF HostManagerBecomes
<1>3. CASE detached = <<>>
  <2>1. HostManager = manager /\ manager' = after /\ manager \in Manager
    BY <1>1, <1>3 DEF HostManager, HostManagerBecomes, TypeOK
  <2>2. CASE after.foresters = manager.foresters
    BY <1>2, <2>1, <2>2
  <2>3. CASE \E f \in Foresters, a \in {"PATROL", "GO_TO_BASE"}, l \in SectorOrNone :
                after = ForesterOrder(manager, f, a, l, sectors)
    <3>1. PICK f \in Foresters, a \in {"PATROL", "GO_TO_BASE"}, l \in SectorOrNone :
              manager' = ForesterOrder(manager, f, a, l, sectors)
      BY <2>1, <2>3
    <3>2. \A g \in Foresters :
             LET new == ForesterOrder(manager, f, a, l, sectors).foresters[g]
             IN  /\ new.at \in {manager.foresters[g].at, NoSector}
                 /\ Proactive => Claims(new)
                                   \subseteq Claims(manager.foresters[g]) \cup {NoSector}
      BY <2>1, ForesterOrderMoves
    <3>3. QED  BY <1>2, <3>1, <3>2
  <2>4. CASE \/ \E b \in Brigades, a \in {"EXTINGUISH", "GO_TO_BASE"}, l \in SectorOrNone :
                  after = BrigadeOrder(manager, b, a, l, sectors)
             \/ \E s \in Sectors, crew \in SUBSET Brigades :
                  after = AssignBrigades(manager, s, crew, sectors)
    <3>1. after.foresters = manager.foresters
      BY <2>1, <2>4, BrigadeOrdersKeepForesters
    <3>2. QED  BY <2>2, <3>1
  <2>5. QED  BY <1>1, <2>1, <2>3, <2>4
<1>4. CASE detached # <<>>
  <2>1. manager' = manager
    BY <1>1, <1>4 DEF HostManagerBecomes
  <2>2. QED  BY <1>2, <2>1
<1>5. QED  BY <1>3, <1>4

------------------------------------------------------------------------------
(* Detection *)

\* Detection takes in what the foresters see, and only sectors on fire.
LEMMA DetectSound ==
    ASSUME NEW known \in SUBSET Sectors, NEW sec, NEW m, NEW tripped, Reached(sec, known)
    PROVE  /\ Watched(sec, m, Detect(known, sec, m, tripped))
           /\ Reached(sec, Detect(known, sec, m, tripped))
<1>1. Around(PatrolSectors(m)) \subseteq Around(tripped \cup PatrolSectors(m))
  BY DEF Around
<1>2. CASE ~DetectionEnabled
  BY <1>2 DEF Detect, Watched, Reached, Burning
<1>3. CASE DetectionEnabled
  <2>1. Detect(known, sec, m, tripped)
          = known \cup {s \in Burning(sec) : s \in Around(tripped \cup PatrolSectors(m))}
    BY <1>3 DEF Detect
  <2>2. Watched(sec, m, Detect(known, sec, m, tripped))
    BY <1>1, <2>1 DEF Watched
  <2>3. \A s \in Burning(sec) : sec[s].state # "DORMANT"
    BY DEF Burning, IsBurning
  <2>4. Reached(sec, Detect(known, sec, m, tripped))
    BY <2>1, <2>3 DEF Reached
  <2>5. QED  BY <2>2, <2>4
<1>4. QED  BY <1>2, <1>3

\* Nobody is in the forest when the simulation starts.
LEMMA InitWatch == Init => WatchIInv
<1> SUFFICES ASSUME Init PROVE WatchIInv
  OBVIOUS
<1>1. PatrolSectors(manager) = {}
  <2>1. \A f \in Foresters : manager.foresters[f].at = NoSector
    BY DEF Init, NewManager, AgentAtBase
  <2>2. QED  BY <2>1, AgentsAssumption DEF PatrolSectors
<1>2. Watched(sectors, manager, detected)
  BY <1>1 DEF Watched, Around
<1>3. Reached(sectors, detected) /\ Len(history) = 0
  BY DEF Init, Reached
<1>4. QED  BY <1>2, <1>3, InitTyped DEF WatchIInv

\* A tick detects what is seen at its end; what was detected stays reached by fire.
LEMMA StepWatch ==
    ASSUME WatchIInv, Step
    PROVE  WatchIInv'
<1>1. PICK next, settled, tripped :
        /\ next \in FireOutcomes(sectors)
        /\ settled = Travel(WithdrawForesters(manager, sectors, next), next)
        /\ history' = Remember(history, Snapshot)
        /\ sectors' = Extinguish(settled, next)
        /\ manager' \in AssignPatrols(RecallBrigades(settled, next), next)
        /\ detected' = Detect(detected, sectors', manager', tripped)
        /\ UNCHANGED detached
  BY StepCases
<1>2. TypeOK /\ TypeOK' /\ sectors \in Forest
  BY StepTyped DEF WatchIInv, TypeOK, Forest
<1>3. Reached(sectors', detected)
  <2>1. ASSUME NEW s \in Sectors, sectors[s].state # "DORMANT"
        PROVE  sectors'[s].state # "DORMANT"
    <3>1. next \in Forest
      BY <1>1, <1>2, FirePhaseType
    <3>2. next[s].state # "DORMANT"
      BY <1>1, <1>2, <2>1, NeverDormantAgain
    <3>3. QED  BY <1>1, <3>1, <3>2, ExtinguishKeepsState
  <2>2. detected \subseteq Sectors
    BY <1>2 DEF TypeOK
  <2>3. QED  BY <2>1, <2>2 DEF WatchIInv, Reached
<1>4. Watched(sectors', manager', detected') /\ Reached(sectors', detected')
  BY <1>1, <1>2, <1>3, DetectSound DEF TypeOK
<1>5. ASSUME NEW i \in 1..Len(history')
      PROVE  Reached(history'[i].sectors, history'[i].detected)
  <2>1. history'[i] = Snapshot \/ \E j \in 1..Len(history) : history'[i] = history[j]
    BY <1>1, <1>2, RememberProperties, SnapshotType DEF TypeOK
  <2>2. QED  BY <2>1 DEF WatchIInv, Snapshot
<1>6. QED  BY <1>2, <1>4, <1>5 DEF WatchIInv, Watched, Reached, Around, PatrolSectors, Burning

\* An order moves no forester into a sector.
LEMMA OrderWatch ==
    ASSUME WatchIInv, Order
    PROVE  WatchIInv'
<1>1. TypeOK /\ TypeOK'
  BY OrderTyped DEF WatchIInv
<1>2. /\ UNCHANGED <<sectors, detected, history>>
      /\ \A g \in Foresters :
            manager'.foresters[g].at \in {manager.foresters[g].at, NoSector}
  BY <1>1, OrderMoves
<1>3. PatrolSectors(manager') \subseteq PatrolSectors(manager)
  BY <1>2, AgentsAssumption DEF PatrolSectors
<1>4. Around(PatrolSectors(manager')) \subseteq Around(PatrolSectors(manager))
  BY <1>3 DEF Around
<1>5. Watched(sectors', manager', detected')
  BY <1>2, <1>4 DEF WatchIInv, Watched
<1>6. QED  BY <1>1, <1>2, <1>5 DEF WatchIInv, Watched, Reached, Around, PatrolSectors, Burning

\* A step_back detects anew in the state it restores.
LEMMA UndoWatch ==
    ASSUME WatchIInv, NEW n \in Nat, NEW tripped, StepBack(n, tripped)
    PROVE  WatchIInv'
<1>1. TypeOK /\ TypeOK'
  BY StepBackTyped DEF WatchIInv
<1>2. PICK record \in Record, left \in 0..Len(history) :
          /\ \/ record = Snapshot
             \/ \E i \in 1..Len(history) : record = history[i]
          /\ sectors' = record.sectors
          /\ manager' = record.manager
          /\ detected' = Detect(record.detected, record.sectors, record.manager, tripped)
          /\ history' = SubSeq(history, 1, left)
          /\ \/ detached' = detached
             \/ detached = <<>> /\ detached' = <<manager>>
  BY <1>1, StepBackCases
<1>3. Reached(record.sectors, record.detected) /\ record.detected \in SUBSET Sectors
  BY <1>2 DEF WatchIInv, Snapshot, Record
<1>4. Watched(sectors', manager', detected') /\ Reached(sectors', detected')
  BY <1>2, <1>3, DetectSound
<1>5. Len(history') = left /\ left \in 0..Len(history)
      /\ \A i \in 1..left : history'[i] = history[i]
  BY <1>1, <1>2, PrefixProperties DEF TypeOK
<1>6. Len(history) \in Nat
  BY <1>1, LenProperties DEF TypeOK
<1>7. \A i \in 1..Len(history') : Reached(history'[i].sectors, history'[i].detected)
  BY <1>5, <1>6 DEF WatchIInv
<1>8. QED  BY <1>1, <1>4, <1>7 DEF WatchIInv, Watched, Reached, Around, PatrolSectors, Burning

(***************************************************************************)
(* The support feed hides no fire next to a forester and shows no sector   *)
(* the fire has not reached, whatever is ordered or undone.                *)
(***************************************************************************)
THEOREM WatchedFiresAreDetected == Spec => []WatchedFireDetected
<1>1. WatchIInv /\ [Next]_vars => WatchIInv'
  <2> SUFFICES ASSUME WatchIInv, [Next]_vars PROVE WatchIInv'
    OBVIOUS
  <2>1. CASE Step   BY <2>1, StepWatch
  <2>2. CASE Order  BY <2>2, OrderWatch
  <2>3. CASE Undo   BY <2>3, UndoWatch, EngineAssumption DEF Undo
  <2>4. CASE UNCHANGED vars
    BY <2>4 DEF WatchIInv, TypeOK, Watched, Reached, Around, PatrolSectors, Burning, vars
  <2>5. QED  BY <2>1, <2>2, <2>3, <2>4 DEF Next
<1>2. WatchIInv => WatchedFireDetected
  BY DEF WatchIInv, Watched, Reached, WatchedFireDetected
<1>3. QED  BY InitWatch, <1>1, <1>2, PTL DEF Spec

------------------------------------------------------------------------------
(* Spreading patrols *)

\* Foresters that claim no more than they did stay spread.
LEMMA FewerClaims ==
    ASSUME NEW m, NEW k, Spread(m),
           \A f \in Foresters :
              Claims(k.foresters[f]) \subseteq Claims(m.foresters[f]) \cup {NoSector}
    PROVE  Spread(k)
BY DEF Spread

\* A forester's travel and his withdrawal only give up claims.
LEMMA TravelClaims ==
    ASSUME NEW agent \in Agent
    PROVE  /\ Claims(TickTravel(agent, ArrivedAs(agent, "PATROLLING")))
                 \subseteq Claims(agent) \cup {NoSector}
           /\ Claims(SentHome(agent)) = {NoSector}
<1>1. ASSUME NEW r
      PROVE  Claims([agent EXCEPT !.remaining = r]) = Claims(agent)
  BY DEF Claims, Agent
<1>2. /\ Returned(agent).target = NoSector /\ Returned(agent).at = NoSector
      /\ SentHome(agent).target = NoSector /\ SentHome(agent).at = NoSector
      /\ ArrivedAs(agent, "PATROLLING").target = NoSector
      /\ ArrivedAs(agent, "PATROLLING").at = agent.target
  BY DEF Returned, SentHome, ArrivedAs, Agent
<1>3. /\ Claims(Returned(agent)) = {NoSector}
      /\ Claims(SentHome(agent)) = {NoSector}
      /\ Claims(ArrivedAs(agent, "PATROLLING")) \subseteq {agent.target, NoSector}
  BY <1>2 DEF Claims
<1>4. TickTravel(agent, ArrivedAs(agent, "PATROLLING"))
        \in {agent, [agent EXCEPT !.remaining = agent.remaining - 1], Returned(agent),
             ArrivedAs(agent, "PATROLLING")}
  BY DEF TickTravel, Agent
<1>5. agent.target \in Claims(agent)
  BY DEF Claims
<1>6. QED  BY <1>1, <1>3, <1>4, <1>5

\* Up to the patrols, a tick only takes claims away.
LEMMA TickClaims ==
    ASSUME NEW m \in Manager, NEW prev, NEW next, Spread(m)
    PROVE  Spread(NotePatrols(RecallBrigades(Travel(WithdrawForesters(m, prev, next), next),
                                             next)))
<1> DEFINE away == WithdrawForesters(m, prev, next)
           settled == Travel(away, next)
<1>1. /\ away \in Manager /\ settled \in Manager /\ RecallBrigades(settled, next) \in Manager
  BY WithdrawType, TravelType, RecallType
<1>2. NotePatrols(RecallBrigades(settled, next)).foresters = settled.foresters
  <2>1. RecallBrigades(settled, next).foresters = settled.foresters
    BY <1>1 DEF RecallBrigades, Manager
  <2>2. \A k \in Manager : NotePatrols(k).foresters = k.foresters
    BY DEF NotePatrols, Manager
  <2>3. QED  BY <1>1, <2>1, <2>2
<1>3. Spread(away)
  <2>1. \A f \in Foresters : away.foresters[f] \in {m.foresters[f], SentHome(m.foresters[f])}
    BY DEF WithdrawForesters, Manager
  <2>2. \A f \in Foresters :
           Claims(away.foresters[f]) \subseteq Claims(m.foresters[f]) \cup {NoSector}
    BY <2>1, TravelClaims DEF Manager
  <2>3. QED  BY <2>2, FewerClaims
<1> HIDE DEF away
<1>4. Spread(settled)
  <2>1. \A f \in Foresters : settled.foresters[f]
            = TickTravel(away.foresters[f], ArrivedAs(away.foresters[f], "PATROLLING"))
    BY <1>1 DEF Travel, Manager
  <2>2. \A f \in Foresters :
           Claims(settled.foresters[f]) \subseteq Claims(away.foresters[f]) \cup {NoSector}
    BY <1>1, <2>1, TravelClaims DEF Manager
  <2>3. QED  BY <1>3, <2>2, FewerClaims
<1>5. QED  BY <1>2, <1>4 DEF Spread, away

\* The loop over the free foresters picks, for each, a sector nobody claims and no
\* forester before him has picked, so dispatching them keeps all of them apart.
LEMMA DispatchSpread ==
    ASSUME NEW m \in Manager, NEW sec, NEW pick \in PatrolPicks(m, sec), Spread(m)
    PROVE  Spread(DispatchPatrols(m, pick))
<1> DEFINE k == DispatchPatrols(m, pick)
<1>1. pick \in [Free(m) -> SectorOrNone] /\ Free(m) \subseteq Foresters
  BY DEF PatrolPicks, Free
<1>2. ASSUME NEW f \in Free(m), pick[f] # NoSector
      PROVE  /\ pick[f] \notin Occupied(m)
             /\ \A g \in Free(m) : g < f => pick[g] # pick[f]
  BY <1>2 DEF PatrolPicks, BestTargets
<1>3. ASSUME NEW f \in Free(m), pick[f] # NoSector
      PROVE  Claims(k.foresters[f]) = {pick[f]}
  <2>1. k.foresters[f] = [SentTo(m.foresters[f], pick[f], "PATROL") EXCEPT !.at = NoSector]
    BY <1>1, <1>3 DEF DispatchPatrols, Manager
  <2>2. k.foresters[f].target = pick[f] /\ k.foresters[f].state = "TRAVELLING"
    BY <1>1, <2>1 DEF SentTo, Manager, Agent
  <2>3. QED  BY <2>2 DEF Claims
<1>4. ASSUME NEW f \in Foresters, ~(f \in Free(m) /\ pick[f] # NoSector)
      PROVE  Claims(k.foresters[f]) = Claims(m.foresters[f])
  BY <1>1, <1>4 DEF DispatchPatrols, Manager
<1>5. \A f \in Foresters : Claims(m.foresters[f]) \ {NoSector} \subseteq Occupied(m)
  BY DEF Occupied
<1> HIDE DEF k
<1>6. SUFFICES ASSUME NEW f \in Foresters, NEW g \in Foresters, f < g
               PROVE  (Claims(k.foresters[f]) \cap Claims(k.foresters[g])) \ {NoSector} = {}
  <2>1. \A f, g \in Foresters : f # g => f < g \/ g < f
    BY AgentsAssumption
  <2>2. QED  BY <2>1 DEF Spread, k
<1>7. CASE /\ f \in Free(m) /\ pick[f] # NoSector
           /\ g \in Free(m) /\ pick[g] # NoSector
  BY <1>2, <1>3, <1>6, <1>7
<1>8. CASE /\ f \in Free(m) /\ pick[f] # NoSector
           /\ ~(g \in Free(m) /\ pick[g] # NoSector)
  BY <1>2, <1>3, <1>4, <1>5, <1>8
<1>9. CASE /\ ~(f \in Free(m) /\ pick[f] # NoSector)
           /\ g \in Free(m) /\ pick[g] # NoSector
  BY <1>2, <1>3, <1>4, <1>5, <1>9
<1>10. CASE /\ ~(f \in Free(m) /\ pick[f] # NoSector)
           /\ ~(g \in Free(m) /\ pick[g] # NoSector)
  <2>1. f # g
    BY <1>6, AgentsAssumption
  <2>2. QED  BY <1>4, <1>10, <2>1 DEF Spread
<1>11. QED  BY <1>7, <1>8, <1>9, <1>10

\* A tick keeps the foresters spread.
LEMMA StepSpread ==
    ASSUME Proactive, SpreadIInv, Step
    PROVE  SpreadIInv'
<1>1. PICK next, settled, tripped :
        /\ next \in FireOutcomes(sectors)
        /\ settled = Travel(WithdrawForesters(manager, sectors, next), next)
        /\ history' = Remember(history, Snapshot)
        /\ sectors' = Extinguish(settled, next)
        /\ manager' \in AssignPatrols(RecallBrigades(settled, next), next)
        /\ detected' = Detect(detected, sectors', manager', tripped)
        /\ UNCHANGED detached
  BY StepCases
<1>2. TypeOK /\ TypeOK' /\ manager \in Manager
  BY StepTyped DEF SpreadIInv, TypeOK
<1>3. Spread(manager')
  <2>1. RecallBrigades(settled, next) \in Manager
    BY <1>1, <1>2, WithdrawType, TravelType, RecallType
  <2>2. NotePatrols(RecallBrigades(settled, next)) \in Manager
    BY <2>1, NotePatrolsType
  <2>3. Spread(NotePatrols(RecallBrigades(settled, next)))
    BY <1>1, <1>2, TickClaims DEF SpreadIInv
  <2>4. PICK pick \in PatrolPicks(NotePatrols(RecallBrigades(settled, next)), next) :
            manager' = DispatchPatrols(NotePatrols(RecallBrigades(settled, next)), pick)
    BY <1>1 DEF AssignPatrols
  <2>5. QED  BY <2>2, <2>3, <2>4, DispatchSpread
<1>4. ASSUME NEW i \in 1..Len(history')
      PROVE  Spread(history'[i].manager)
  <2>1. history'[i] = Snapshot \/ \E j \in 1..Len(history) : history'[i] = history[j]
    BY <1>1, <1>2, RememberProperties, SnapshotType DEF TypeOK
  <2>2. QED  BY <2>1 DEF SpreadIInv, Snapshot
<1>5. QED  BY <1>2, <1>3, <1>4 DEF SpreadIInv, Spread, Claims

\* So does an order, which can send a forester home but nowhere else.
LEMMA OrderSpread ==
    ASSUME Proactive, SpreadIInv, Order
    PROVE  SpreadIInv'
<1>1. TypeOK /\ TypeOK'
  BY OrderTyped DEF SpreadIInv
<1>2. /\ UNCHANGED history
      /\ \A g \in Foresters : Claims(manager'.foresters[g])
                                  \subseteq Claims(manager.foresters[g]) \cup {NoSector}
  BY <1>1, OrderMoves
<1>3. Spread(manager')
  BY <1>2, FewerClaims DEF SpreadIInv
<1>4. \A i \in 1..Len(history') : Spread(history'[i].manager)
  BY <1>2 DEF SpreadIInv
<1>5. QED  BY <1>1, <1>3, <1>4 DEF SpreadIInv, Spread, Claims

\* And a step_back, which restores foresters that were spread.
LEMMA UndoSpread ==
    ASSUME SpreadIInv, NEW n \in Nat, NEW tripped, StepBack(n, tripped)
    PROVE  SpreadIInv'
<1>1. TypeOK /\ TypeOK'
  BY StepBackTyped DEF SpreadIInv
<1>2. PICK record \in Record, left \in 0..Len(history) :
          /\ \/ record = Snapshot
             \/ \E i \in 1..Len(history) : record = history[i]
          /\ sectors' = record.sectors
          /\ manager' = record.manager
          /\ detected' = Detect(record.detected, record.sectors, record.manager, tripped)
          /\ history' = SubSeq(history, 1, left)
          /\ \/ detached' = detached
             \/ detached = <<>> /\ detached' = <<manager>>
  BY <1>1, StepBackCases
<1>3. Spread(manager')
  BY <1>2 DEF SpreadIInv, Snapshot
<1>4. Len(history') = left /\ left \in 0..Len(history)
      /\ \A i \in 1..left : history'[i] = history[i]
  BY <1>1, <1>2, PrefixProperties DEF TypeOK
<1>5. Len(history) \in Nat
  BY <1>1, LenProperties DEF TypeOK
<1>6. \A i \in 1..Len(history') : Spread(history'[i].manager)
  BY <1>4, <1>5 DEF SpreadIInv
<1>7. QED  BY <1>1, <1>3, <1>6 DEF SpreadIInv, Spread, Claims

(***************************************************************************)
(* Proactive patrols go to different sectors and keep to them: no sector   *)
(* is the target or the patrolled sector of two foresters.  Without        *)
(* proactive patrols the operator may send two to the same sector.         *)
(***************************************************************************)
THEOREM PatrolsAreSpread == ASSUME Proactive PROVE Spec => []PatrolsSpread
<1>1. Init => SpreadIInv
  <2> SUFFICES ASSUME Init PROVE SpreadIInv
    OBVIOUS
  <2>1. \A f \in Foresters : Claims(manager.foresters[f]) = {NoSector}
    BY DEF Init, NewManager, AgentAtBase, Claims
  <2>2. Len(history) = 0
    BY DEF Init
  <2>3. Spread(manager)
    BY <2>1 DEF Spread
  <2>4. \A i \in 1..Len(history) : Spread(history[i].manager)
    BY <2>2
  <2>5. QED  BY <2>3, <2>4, InitTyped DEF SpreadIInv
<1>2. SpreadIInv /\ [Next]_vars => SpreadIInv'
  <2> SUFFICES ASSUME SpreadIInv, [Next]_vars PROVE SpreadIInv'
    OBVIOUS
  <2>1. CASE Step   BY <2>1, StepSpread
  <2>2. CASE Order  BY <2>2, OrderSpread
  <2>3. CASE Undo   BY <2>3, UndoSpread, EngineAssumption DEF Undo
  <2>4. CASE UNCHANGED vars
    <3>1. TypeOK'
      BY <2>4, NextTyped DEF SpreadIInv
    <3>2. Spread(manager') /\ \A i \in 1..Len(history') : Spread(history'[i].manager)
      BY <2>4 DEF SpreadIInv, vars
    <3>3. QED  BY <3>1, <3>2 DEF SpreadIInv, Spread, Claims
  <2>5. QED  BY <2>1, <2>2, <2>3, <2>4 DEF Next
<1>3. SpreadIInv => PatrolsSpread
  BY DEF SpreadIInv, Spread, PatrolsSpread
<1>4. QED  BY <1>1, <1>2, <1>3, PTL DEF Spec

(***************************************************************************)
(* What the map draws.  A sector that went out has the level that puts it  *)
(* out, and one that never burned has none; step_back restores sectors, so *)
(* it is so in every record.                                               *)
(***************************************************************************)
LevelsFit(sec) ==
    \A s \in Sectors :
        /\ sec[s].state = "EXTINGUISHED" => sec[s].extinguishLevel = ExtinguishThreshold
        /\ sec[s].state = "DORMANT" => sec[s].extinguishLevel = 0

PictureIInv ==
    /\ TypeOK
    /\ LevelsFit(sectors)
    /\ \A i \in 1..Len(history) : LevelsFit(history[i].sectors)

\* A sector goes out with the level it has, and ignites or stays as it is otherwise.
LEMMA FirePhaseFits ==
    ASSUME NEW prev \in Forest, LevelsFit(prev), NEW next \in FireOutcomes(prev)
    PROVE  LevelsFit(next)
<1> SUFFICES ASSUME NEW s \in Sectors
             PROVE  /\ next[s].state = "EXTINGUISHED" =>
                           next[s].extinguishLevel = ExtinguishThreshold
                    /\ next[s].state = "DORMANT" => next[s].extinguishLevel = 0
  BY DEF LevelsFit
<1>1. PICK ignited \in SUBSET Threatened(prev), rate \in [Burning(prev) -> BurnRates] :
          next = FirePhase(prev, ignited, rate)
  BY DEF FireOutcomes
<1>2. prev[s] \in Sector  BY DEF Forest
<1>3. CASE IsBurning(prev, s)
  <2>1. next[s] = AfterBurning(prev[s], rate[s])
    BY <1>1, <1>3 DEF FirePhase
  <2>2. /\ next[s].extinguishLevel = prev[s].extinguishLevel
        /\ next[s].state = IF FuelAfter(prev[s], rate[s]) = 0 THEN "ASH"
                           ELSE IF prev[s].extinguishLevel >= ExtinguishThreshold
                                THEN "EXTINGUISHED" ELSE "BURNING"
    BY <1>2, <2>1 DEF AfterBurning, Sector
  <2>3. prev[s].extinguishLevel \in 0..ExtinguishThreshold
    BY <1>2 DEF Sector
  <2>4. QED  BY <2>2, <2>3, BurningAssumption
<1>4. CASE ~IsBurning(prev, s)
  <2>1. next[s] = [prev[s] EXCEPT !.state = "BURNING"] \/ next[s] = prev[s]
    BY <1>1, <1>4 DEF FirePhase
  <2>2. [prev[s] EXCEPT !.state = "BURNING"].state = "BURNING"
    BY <1>2 DEF Sector
  <2>3. QED  BY <2>1, <2>2 DEF LevelsFit
<1>5. QED  BY <1>3, <1>4

\* Crews raise the levels of burning sectors only.
LEMMA ExtinguishFits ==
    ASSUME NEW m, NEW next \in Forest, LevelsFit(next)
    PROVE  LevelsFit(Extinguish(m, next))
<1>1. ASSUME NEW s \in Sectors, next[s].state # "BURNING"
      PROVE  Extinguish(m, next)[s] = next[s]
  BY <1>1 DEF Extinguish, IsBurning
<1>2. \A s \in Sectors : Extinguish(m, next)[s].state = next[s].state
  BY ExtinguishKeepsState
<1>3. QED  BY <1>1, <1>2 DEF LevelsFit

\* A forest with fires is as it was found.
LEMMA InitPicture == Init => PictureIInv
<1> SUFFICES ASSUME Init PROVE PictureIInv
  OBVIOUS
<1>1. LevelsFit(sectors)
  BY DEF Init, ForestWithFire, LevelsFit
<1>2. Len(history) = 0
  BY EmptySeq DEF Init
<1>3. QED  BY <1>1, <1>2, InitTyped DEF PictureIInv

\* A tick keeps the levels fit, also in the record it makes.
LEMMA StepPicture ==
    ASSUME PictureIInv, Step
    PROVE  PictureIInv'
<1>1. PICK next, settled, tripped :
        /\ next \in FireOutcomes(sectors)
        /\ settled = Travel(WithdrawForesters(manager, sectors, next), next)
        /\ history' = Remember(history, Snapshot)
        /\ sectors' = Extinguish(settled, next)
        /\ manager' \in AssignPatrols(RecallBrigades(settled, next), next)
        /\ detected' = Detect(detected, sectors', manager', tripped)
        /\ UNCHANGED detached
  BY StepCases
<1>2. TypeOK'
  BY StepTyped DEF PictureIInv
<1>3. sectors \in Forest /\ next \in Forest
  BY <1>1, FirePhaseType DEF PictureIInv, TypeOK, Forest
<1>4. LevelsFit(next)
  BY <1>1, <1>3, FirePhaseFits DEF PictureIInv
<1>5. LevelsFit(sectors')
  BY <1>1, <1>3, <1>4, ExtinguishFits
<1>6. \A i \in 1..Len(history') : LevelsFit(history'[i].sectors)
  <2>1. history \in Seq(Record) /\ Snapshot \in Record
    BY SnapshotType DEF PictureIInv, TypeOK
  <2>2. ASSUME NEW i \in 1..Len(history')
        PROVE  history'[i] = Snapshot \/ \E j \in 1..Len(history) : history'[i] = history[j]
    BY <1>1, <2>1, <2>2, RememberProperties
  <2>3. QED  BY <2>2 DEF PictureIInv, Snapshot
<1>7. QED  BY <1>2, <1>5, <1>6 DEF PictureIInv, LevelsFit

\* step_back returns to a record whose levels fit.
LEMMA UndoPicture ==
    ASSUME PictureIInv, NEW n \in Nat, NEW tripped, StepBack(n, tripped)
    PROVE  PictureIInv'
<1>1. TypeOK /\ TypeOK'
  BY StepBackTyped DEF PictureIInv
<1>2. PICK record \in Record, left \in 0..Len(history) :
          /\ \/ record = Snapshot
             \/ \E i \in 1..Len(history) : record = history[i]
          /\ sectors' = record.sectors
          /\ manager' = record.manager
          /\ detected' = Detect(record.detected, record.sectors, record.manager, tripped)
          /\ history' = SubSeq(history, 1, left)
          /\ \/ detached' = detached
             \/ detached = <<>> /\ detached' = <<manager>>
  BY <1>1, StepBackCases
<1>3. LevelsFit(record.sectors)
  BY <1>2 DEF PictureIInv, Snapshot
<1>4. /\ Len(history') = left
      /\ \A i \in 1..left : history'[i] = history[i]
  BY <1>1, <1>2, PrefixProperties DEF TypeOK
<1>5. Len(history) \in Nat
  BY <1>1, LenProperties DEF TypeOK
<1>6. \A i \in 1..Len(history') : LevelsFit(history'[i].sectors)
  BY <1>4, <1>5 DEF PictureIInv
<1>7. QED  BY <1>1, <1>2, <1>3, <1>6 DEF PictureIInv, LevelsFit

\* Whatever happens the levels fit; orders leave the sectors alone.
LEMMA PictureInvariant == Spec => []PictureIInv
<1>1. ASSUME PictureIInv, Order
      PROVE  PictureIInv'
  <2>1. UNCHANGED <<sectors, history>>
    BY <1>1, OrderCases DEF Order, HostManagerBecomes
  <2>2. QED  BY <1>1, <2>1, OrderTyped DEF PictureIInv, LevelsFit
<1>2. ASSUME PictureIInv, [Next]_vars
      PROVE  PictureIInv'
  <2>1. CASE Step   BY <1>2, <2>1, StepPicture
  <2>2. CASE Order  BY <1>1, <1>2, <2>2
  <2>3. CASE Undo
    BY <1>2, <2>3, UndoPicture, EngineAssumption DEF Undo
  <2>4. CASE UNCHANGED vars
    BY <1>2, <2>4 DEF PictureIInv, TypeOK, LevelsFit, vars
  <2>5. QED  BY <1>2, <2>1, <2>2, <2>3, <2>4 DEF Next
<1>3. QED  BY InitPicture, <1>2, PTL DEF Spec

\* What the telemetry says of a sector.
LEMMA TelemeteredSays ==
    ASSUME TypeOK, LevelsFit(sectors), NEW s \in Sectors, NEW told \in Telemetered(s)
    PROVE  /\ sectors[s].state = "BURNING" => told.fire \in {25, 26, 50, 51, 75, 76}
           /\ sectors[s].state # "BURNING" => told.fire = 0
           /\ sectors[s].state = "DORMANT" => told.burn = 0 /\ told.extinguish = 0
           /\ sectors[s].state = "EXTINGUISHED" => told.extinguish = 100
           /\ told.burn \in Nat /\ told.threat \in {"LOW", "CRITICAL"} /\ told.heat = "faint"
<1> DEFINE sector == sectors[s]
           fires == IF sector.state = "BURNING" THEN {25, 26, 50, 51, 75, 76} ELSE {0}
           burns == IF sector.state = "DORMANT" THEN {0}
                    ELSE {LostBurnLevel, LostBurnLevel + 1}
           percent == (100 * sector.extinguishLevel) \div ExtinguishThreshold
<1>1. told \in [fire : fires, burn : burns, extinguish : {percent},
                threat : {"LOW", "CRITICAL"}, heat : {"faint"}]
  BY DEF Telemetered, SectorLevels
<1>2. /\ told.fire \in fires /\ told.burn \in burns /\ told.extinguish = percent
      /\ told.threat \in {"LOW", "CRITICAL"} /\ told.heat = "faint"
  BY <1>1
<1>3. \A t \in Nat \ {0} : 0 \div t = 0 /\ (100 * t) \div t = 100
  OBVIOUS
<1>4. sector.state = "DORMANT" => percent = 0
  BY <1>3, BurningAssumption DEF LevelsFit
<1>5. sector.state = "EXTINGUISHED" => percent = 100
  BY <1>3, BurningAssumption DEF LevelsFit
<1>6. QED  BY <1>2, <1>4, <1>5 DEF LostBurnLevel

(***************************************************************************)
(* The map draws every sector as what it is, in any forest: one that burns *)
(* in the colour of the class the engine gives its fire until it counts as *)
(* lost, one that crews put out as saved, an untouched one as neither.     *)
(***************************************************************************)
THEOREM PicturesTellState == Spec => []PictureTellsState
<1>1. ASSUME PictureIInv
      PROVE  PictureTellsState
  <2> SUFFICES ASSUME NEW s \in Sectors, NEW told \in Telemetered(s)
               PROVE
        /\ sectors[s].state = "BURNING" =>
              Fill(told) = IF told.burn > LostBurnLevel THEN "lost"
                           ELSE Shades[Classification(told.fire)]
        /\ sectors[s].state = "EXTINGUISHED" => Fill(told) = "saved"
        /\ sectors[s].state = "DORMANT" =>
              /\ Fill(told) \notin FireClasses \cup {"saved", "lost"}
              /\ Line(told) = told.threat
              /\ LineWidth(told, 1) > 1 <=> told.threat # "LOW"
        /\ Row(told)[1] = 0 <=> sectors[s].state # "BURNING"
    BY DEF PictureTellsState
  <2>1. /\ sectors[s].state = "BURNING" => told.fire \in {25, 26, 50, 51, 75, 76}
        /\ sectors[s].state # "BURNING" => told.fire = 0
        /\ sectors[s].state = "DORMANT" => told.burn = 0 /\ told.extinguish = 0
        /\ sectors[s].state = "EXTINGUISHED" => told.extinguish = 100
        /\ told.burn \in Nat /\ told.threat \in {"LOW", "CRITICAL"} /\ told.heat = "faint"
    BY <1>1, TelemeteredSays DEF PictureIInv
  <2>2. CASE sectors[s].state = "BURNING"
    <3>1. ~IsSaved(told) /\ Row(told)[1] # 0
      BY <2>1, <2>2 DEF IsSaved, Row
    <3>2. Shades[Classification(told.fire)] = FireClass(told.fire)
      BY <2>1, <2>2 DEF Shades, Classification, FireClass
    <3>3. QED  BY <2>1, <2>2, <3>1, <3>2 DEF Fill, IsLost
  <2>3. CASE sectors[s].state = "EXTINGUISHED"
    BY <2>1, <2>3 DEF Fill, IsSaved, Row
  <2>4. CASE sectors[s].state = "DORMANT"
    <3>1. ~IsSaved(told) /\ ~IsLost(told) /\ Row(told)[1] = 0
      BY <2>1, <2>4 DEF IsSaved, IsLost, LostBurnLevel, Row
    <3>2. Fill(told) = "faint" /\ Line(told) = told.threat
      BY <2>1, <2>4, <3>1 DEF Fill, Line
    <3>3. LineWidth(told, 1) = IF told.threat = "LOW" THEN 1 ELSE 5
      BY <2>1, <2>4 DEF LineWidth
    <3>4. QED  BY <2>1, <2>4, <3>1, <3>2, <3>3 DEF FireClasses
  <2>5. CASE sectors[s].state \notin {"BURNING", "EXTINGUISHED", "DORMANT"}
    BY <2>1, <2>5 DEF Row
  <2>6. QED  BY <2>2, <2>3, <2>4, <2>5
<1>2. QED  BY <1>1, PictureInvariant, PTL
================================================================================
