------------------------------- MODULE Telemetry -------------------------------
(***************************************************************************)
(* From the simulator to the backend's state: what a tick, a step_back and *)
(* a start publish (simulation_engine.py, rabbitmq_publisher.py), the      *)
(* queues the broker keeps in order, and the subscribers of                *)
(* SimulationStateService, one thread per queue, that write currentState.  *)
(*                                                                         *)
(* A sector's published tuple (fire state, levels) is its level, which a   *)
(* tick may raise; an agent's position and state are its age, the number   *)
(* of ticks it has lived.  A unit is the one agent of its kind (brigade or *)
(* forester), so that its batch, with a queue per kind, has one agent.     *)
(* Messages carry no version in the code: epoch is there for the           *)
(* properties only and counts starts and steps back.                       *)
(***************************************************************************)
EXTENDS Naturals, Sequences, SequencesExt

CONSTANTS
    Sectors, Units,
    RunSectors, RunUnits,    \* sectors and agents of the configuration of each run
    MaxLevel, MaxTicks, MaxEpochs,   \* bounds
    MayFail                  \* whether a publication may raise

Runs == 1..Len(RunSectors)

ASSUME TelemetryAssumption ==
    /\ Len(RunUnits) = Len(RunSectors) /\ Runs # {}
    /\ \A r \in Runs : RunSectors[r] \subseteq Sectors /\ RunUnits[r] \subseteq Units

VARIABLES
    run, epoch, ticks,       \* the run; starts and steps back; ticks so far
    level, age,              \* the simulator's current state
    past,                    \* its history of <<level, age>>
    available,               \* rabbitmq_publisher.available
    full, fast, batch,       \* queues: sector_state, sector_state_fast, agent batch
    sectors, agents, recommended,  \* currentState of the backend
    last, clean              \* for the properties: last event, and whether it
                             \* found nothing in the queues from an older epoch

sim == <<run, epoch, level, age, past>>
queues == <<full, fast, batch>>
state == <<sectors, agents, recommended>>
vars == <<sim, ticks, available, queues, state, last, clean>>

Absent == 0                  \* not in the map of currentState
Level == 1..MaxLevel
Age == 1..(MaxTicks + 1)

TypeOK ==
    /\ run \in Runs /\ epoch \in 1..MaxEpochs /\ ticks \in 0..MaxTicks
    /\ level \in [Sectors -> Level] /\ age \in Age
    /\ past \in Seq([Sectors -> Level] \X Age)
    /\ available \in BOOLEAN
    /\ {full, fast} \subseteq Seq([sector : Sectors, level : Level, epoch : 1..MaxEpochs])
    /\ batch \in [Units -> Seq([age : Age, epoch : 1..MaxEpochs])]
    /\ sectors \in [Sectors -> Level \cup {Absent}]
    /\ agents \in [Units -> (0..MaxEpochs) \X (Age \cup {Absent})]
    /\ recommended \in SUBSET Units
    /\ last \in {"start", "tick", "step_back", "reset"} /\ clean \in BOOLEAN

\* SimulationState.from(configuration); positions are older than any epoch.
ConfiguredSectors(r) == [s \in Sectors |-> IF s \in RunSectors[r] THEN 1 ELSE Absent]
ConfiguredAgents(r) == [u \in Units |-> <<0, IF u \in RunUnits[r] THEN 1 ELSE Absent>>]

Init ==
    /\ run = 1 /\ epoch = 1 /\ ticks = 0
    /\ level = [s \in Sectors |-> 1] /\ age = 1 /\ past = <<>>
    /\ available \in {TRUE, ~MayFail}
    /\ full = <<>> /\ fast = <<>> /\ batch = [u \in Units |-> <<>>]
    /\ sectors = ConfiguredSectors(1) /\ agents = ConfiguredAgents(1) /\ recommended = {}
    /\ last = "start" /\ clean = TRUE

------------------------------------------------------------------------------
(* The simulator *)

FullOf(now, e) ==
    LET order == SetToSeq(RunSectors[run])
    IN  [i \in 1..Len(order) |->
            [sector |-> order[i], level |-> now[order[i]], epoch |-> e]]

\* The sectors a tick changed, with the state they had before it.
FastOfPrevious(before, now, e) ==
    SelectSeq(FullOf(before, e), LAMBDA m : now[m.sector] # m.level)

\* The sectors a tick changed.
FastOf(before, now, e) ==
    SelectSeq(FullOf(now, e), LAMBDA m : before[m.sector] # m.level)

\* The agents as they were a tick ago.
BatchOfPrevious(a, e) == [age |-> a - 1, epoch |-> e]

BatchOf(a, e) == [age |-> a, epoch |-> e]

Stale(q) == \E i \in 1..Len(q) : q[i].epoch # epoch'

(***************************************************************************)
(* _phase_rabbitmq_publication: sectors, changed sectors, agents kind by   *)
(* kind.  A call that raises makes the publisher unavailable for good, and *)
(* what was left to publish is dropped, now and later.                     *)
(***************************************************************************)
Publish(before, now, a) ==
    LET F == FullOf(now, epoch')
        C == FastOf(before, now, epoch')
        kinds == SetToSeq(RunUnits[run])
        Send(i, j, k) ==
            /\ full' = full \o SubSeq(F, 1, i) /\ fast' = fast \o SubSeq(C, 1, j)
            /\ batch' = [u \in Units |->
                   IF \E n \in 1..k : kinds[n] = u
                   THEN Append(batch[u], BatchOf(a, epoch')) ELSE batch[u]]
    IN  \/ ~available /\ UNCHANGED <<queues, available>>
        \/ available /\ UNCHANGED available /\ Send(Len(F), Len(C), Len(kinds))
        \/ /\ available /\ MayFail /\ available' = FALSE
           /\ \E i \in 0..Len(F), j \in 0..Len(C), k \in 0..Len(kinds) :
                /\ j > 0 => i = Len(F)
                /\ k > 0 => i = Len(F) /\ j = Len(C)
                /\ Send(i, j, k)

Event(what) ==
    /\ last' = what
    /\ clean' = ~(Stale(full) \/ Stale(fast) \/ \E u \in Units : Stale(batch[u]))

\* SimulationEngine.step.
Tick ==
    /\ ticks < MaxTicks /\ ticks' = ticks + 1
    /\ past' = Append(past, <<level, age>>)
    /\ \E burning \in SUBSET {s \in RunSectors[run] : level[s] < MaxLevel} :
         level' = [s \in Sectors |-> IF s \in burning THEN level[s] + 1 ELSE level[s]]
    /\ age' = age + 1
    /\ UNCHANGED <<run, epoch, state>>
    /\ Publish(level, level', age')
    /\ Event("tick")

\* EngineHost.step_back: nothing counts as changed in publish_current_state.
StepBack ==
    /\ past # <<>> /\ epoch < MaxEpochs
    /\ epoch' = epoch + 1
    /\ \E n \in 1..Len(past) :
         /\ level' = past[n][1] /\ age' = past[n][2]
         /\ past' = SubSeq(past, 1, n - 1)
    /\ UNCHANGED <<run, ticks, state>>
    /\ Publish(level', level', age')
    /\ Event("step_back")

\* A start builds an engine with a publisher of its own and publishes nothing.
StartRun ==
    /\ run + 1 \in Runs /\ epoch < MaxEpochs
    /\ run' = run + 1 /\ epoch' = epoch + 1
    /\ level' = [s \in Sectors |-> 1] /\ age' = 1 /\ past' = <<>>
    /\ available' \in {TRUE, ~MayFail}
    /\ UNCHANGED <<ticks, queues, state>>
    /\ Event("start")

------------------------------------------------------------------------------
(* The backend *)

\* The subscribers of the two sector queues do the same; an unknown sector is
\* added.
ConsumeFull ==
    /\ full # <<>> /\ full' = Tail(full)
    /\ sectors' = [sectors EXCEPT ![Head(full).sector] = Head(full).level]
    /\ UNCHANGED <<sim, ticks, available, fast, batch, agents, recommended, last, clean>>

ConsumeFast ==
    /\ fast # <<>> /\ fast' = Tail(fast)
    /\ sectors' = [sectors EXCEPT ![Head(fast).sector] = Head(fast).level]
    /\ UNCHANGED <<sim, ticks, available, full, batch, agents, recommended, last, clean>>

AgentsAfter(u, m) == [agents EXCEPT ![u] = <<m.epoch, m.age>>]

\* Two subscriptions to the agents, as there were once.
ConsumeBatchAnyOrder(u) ==
    /\ \E i \in 1..Len(batch[u]) :
         /\ agents' = AgentsAfter(u, batch[u][i])
         /\ batch' = [batch EXCEPT ![u] = RemoveAt(batch[u], i)]
    /\ UNCHANGED <<sim, ticks, available, full, fast, sectors, recommended, last, clean>>

ConsumeBatch(u) ==
    /\ batch[u] # <<>> /\ batch' = [batch EXCEPT ![u] = Tail(batch[u])]
    /\ agents' = AgentsAfter(u, Head(batch[u]))
    /\ UNCHANGED <<sim, ticks, available, full, fast, sectors, recommended, last, clean>>

Known == {u \in Units : agents[u][2] # Absent}

\* The support service recommends what it likes, for units of any run.
ConsumeRecommendation ==
    /\ \E units \in SUBSET Units : recommended' = units \cap Known
    /\ UNCHANGED <<sim, ticks, available, queues, sectors, agents, last, clean>>

\* Recommendations kept across sessions.
ResetKeepsRecommended ==
    /\ sectors' = ConfiguredSectors(run)
    /\ agents' = ConfiguredAgents(run)
    /\ last' = "reset"
    /\ UNCHANGED <<sim, ticks, available, queues, recommended, clean>>

\* runSimulation: every connection of the event stream resets the state.
Reset ==
    /\ sectors' = ConfiguredSectors(run)
    /\ agents' = ConfiguredAgents(run)
    /\ recommended' = {}
    /\ last' = "reset"
    /\ UNCHANGED <<sim, ticks, available, queues, clean>>

Next == \/ Tick \/ StepBack \/ StartRun
        \/ ConsumeFull \/ ConsumeFast \/ (\E u \in Units : ConsumeBatch(u))
        \/ ConsumeRecommendation \/ Reset

Spec == Init /\ [][Next]_vars

\* The subscribers work off their queues; nobody has to tick, start or connect.
FairSpec == /\ Spec /\ WF_vars(ConsumeFull) /\ WF_vars(ConsumeFast)
            /\ \A u \in Units : WF_vars(ConsumeBatch(u))

------------------------------------------------------------------------------
(* Properties *)

ShowsTheSimulation ==
    /\ \A s \in RunSectors[run] : sectors[s] = level[s]
    /\ \A u \in RunUnits[run] : agents[u][2] = age

(***************************************************************************)
(* The backend ends up with the state of the last tick although the two    *)
(* sector queues are consumed in any order: the last message of either     *)
(* about a sector says the same.  It takes a tick that found no message    *)
(* from before the last start or step_back, and no reset after it.         *)
(***************************************************************************)
Converges == <>[](last = "tick" /\ clean /\ available => ShowsTheSimulation)

(***************************************************************************)
(* An agent on the map never jumps back to where it was: one batch queue   *)
(* keeps the broker's order (SimulationStateService.java:175-180).         *)
(***************************************************************************)
NotOlder(a, b) == a[1] < b[1] \/ (a[1] = b[1] /\ a[2] <= b[2])

AgentsNeverGoBack == [][Reset \/ \A u \in Units : NotOlder(agents[u], agents'[u])]_vars

(***************************************************************************)
(* The frontend is only offered recommendations for units it knows, also   *)
(* right after a reset to a configuration without them.                    *)
(***************************************************************************)
RecommendedAreKnown == recommended \subseteq Known

------------------------------------------------------------------------------
(* What the documentation says and the code does not do *)

(***************************************************************************)
(* After a step_back backend and map come to show the restored state       *)
(* (simulation_engine.py:283-284, publish_current_state); a message of the *)
(* fast queue about an undone tick may be consumed last.                   *)
(***************************************************************************)
StepBackIsShown == <>[](last = "step_back" /\ available => ShowsTheSimulation)

==============================================================================
