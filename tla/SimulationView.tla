---------------------------- MODULE SimulationView ----------------------------
(***************************************************************************)
(* What the browser shows of a running simulation: the backend's messages, *)
(* the throttles they pass, and the stores they update.  The backend       *)
(* appears as the sender of four kinds of message over one ordered stream; *)
(* the map that draws the buffer of positions is AgentPositions.           *)
(***************************************************************************)
EXTENDS PositionBuffer, FiniteSets

CONSTANTS
    Sectors, Levels,    \* their numbers, and their fire levels
    Null,
    MaxChanges,         \* bound on the changes of the simulation
    MaxWire             \* bound on the messages under way

ASSUME ViewAssumption ==
    /\ Null \notin Places \cup States
    /\ Places # {} /\ States # {}
    /\ Sectors \subseteq Nat \ {0} /\ 0 \in Levels
    /\ MaxChanges \in Nat /\ MaxWire \in Nat \ {0}

\* A recommended action sends a unit to a sector.
Actions == [unit : Units, sector : Sectors]

VARIABLES
    units, levels, advice,    \* the backend's state
    changes,                  \* of it so far
    built,                    \* a full state built and not yet sent, or Null
    wire,                     \* the messages under way
    ready,                    \* the throttles whose interval has passed
    store,                    \* mapConfiguration: units and sectors
    recommendations,          \* by unit
    autoApply,                \* recommendation.autoApplyEnabled
    ordered,                  \* the actions auto-apply ordered on the last full state
    accepted                  \* for the properties: advice of the last full state taken

backend == <<units, levels, advice, changes, built>>
stores == <<store, recommendations, autoApply, ordered, accepted>>
vars == <<positions, backend, wire, ready, stores>>

Throttles == {"fast", "rec", "update", "agents"}
FullState == [units : [Units -> Reported], levels : [Sectors -> Levels],
              advice : SUBSET Actions]
Messages ==
    [kind : {"positions"}, units : Partial(Units, Pos)]
    \cup [kind : {"fast"}, sector : Sectors, level : Levels]
    \cup [kind : {"state"}, body : FullState]
    \cup [kind : {"chat"}]

TypeOK ==
    /\ BufferTypeOK
    /\ units \in [Units -> Reported] /\ levels \in [Sectors -> Levels]
    /\ advice \in SUBSET Actions /\ changes \in 0..MaxChanges
    /\ built = Null \/ built \in FullState
    /\ \A i \in DOMAIN wire : wire[i] \in Messages
    /\ Len(wire) <= MaxWire
    /\ ready \in SUBSET Throttles
    /\ store.units \in [Units -> [at : Places \cup {Null}, state : States]]
    /\ store.levels \in [Sectors -> Levels]
    /\ recommendations \in Partial(Units, Sectors)
    /\ autoApply \in BOOLEAN /\ ordered \in SUBSET Actions /\ accepted \in SUBSET Actions

Base == CHOOSE p \in Places : TRUE
Idle == CHOOSE s \in States : TRUE

\* A configuration that was saved while a run had left its units without a
\* location makes a run whose first full states have none.
Init ==
    /\ BufferInit
    /\ \E located \in BOOLEAN :
          /\ units = [u \in Units |-> [at |-> IF located THEN Base ELSE Nowhere, state |-> Idle]]
          /\ store = [units |-> [u \in Units |->
                          [at |-> IF located THEN Base ELSE Null, state |-> Idle]],
                      levels |-> [n \in Sectors |-> 0]]
    /\ levels = [n \in Sectors |-> 0] /\ advice = {} /\ changes = 0
    /\ built = Null /\ wire = <<>> /\ ready = Throttles
    /\ recommendations = <<>> /\ autoApply = FALSE /\ ordered = {} /\ accepted = {}

------------------------------------------------------------------------------
(* The backend *)

Change == changes < MaxChanges /\ changes' = changes + 1

\* A message, unless the stream's buffer or its absence makes the sink drop it.
Emit(m) == wire' = wire \/ (Len(wire) < MaxWire /\ wire' = Append(wire, m))

\* A batch of the simulator about units of one type.
UnitsReport ==
    /\ Change
    /\ \E type \in {"fireBrigade", "foresterPatrol"} : \E u \in Units :
          /\ u[1] = type
          /\ \E at \in Places, s \in States :
                /\ units' = [units EXCEPT ![u] = [at |-> at, state |-> s]]
                /\ Emit([kind |-> "positions",
                         units |-> [v \in {u} |-> [at |-> at, state |-> s]]])
    /\ UNCHANGED <<positions, levels, advice, built, ready, stores>>

SectorReport ==
    /\ Change
    /\ \E n \in Sectors, l \in Levels :
          /\ l # levels[n] /\ levels' = [levels EXCEPT ![n] = l]
          /\ Emit([kind |-> "fast", sector |-> n, level |-> l])
    /\ UNCHANGED <<positions, units, advice, built, ready, stores>>

\* The support service's recommendations, one per unit, reach the browser with
\* the next full state.
Recommend ==
    /\ Change
    /\ advice' \in {A \in SUBSET Actions : \A a, b \in A : a.unit = b.unit => a = b}
    /\ UNCHANGED <<positions, units, levels, built, wire, ready, stores>>

Chat ==
    /\ Change
    /\ Emit([kind |-> "chat"])
    /\ UNCHANGED <<positions, units, levels, advice, built, ready, stores>>

\* The timer of the stream takes a copy of the whole state; it is sent later.
BuildState ==
    /\ built = Null
    /\ built' = [units |-> units, levels |-> levels, advice |-> advice]
    /\ UNCHANGED <<positions, units, levels, advice, changes, wire, ready, stores>>

SendState ==
    /\ built # Null /\ Len(wire) < MaxWire
    /\ wire' = Append(wire, [kind |-> "state", body |-> built])
    /\ built' = Null
    /\ UNCHANGED <<positions, units, levels, advice, changes, ready, stores>>

------------------------------------------------------------------------------
(* A message arrives *)

\* The kind is read off the text before it is parsed.
Receive(kind) == wire # <<>> /\ Head(wire).kind = kind /\ wire' = Tail(wire)

\* A message within its throttle's interval of the last one is dropped:
\* 50 ms, 500 ms for recommendations, 200 ms for the rest.
Passes(t) == t \in ready

\* The agents' own channel is not throttled.
ReceivePositions ==
    /\ Receive("positions")
    /\ ParseAndWriteRaw(Head(wire).units)
    /\ UNCHANGED <<backend, ready, stores>>

UpdateSectorStatesFast(s, n, l) == [s EXCEPT !.levels[n] = l]

ReceiveFast ==
    /\ Receive("fast")
    /\ IF Passes("fast")
       THEN /\ ready' = ready \ {"fast"}
            /\ store' = UpdateSectorStatesFast(store, Head(wire).sector, Head(wire).level)
       ELSE UNCHANGED <<ready, store>>
    /\ UNCHANGED <<positions, backend, recommendations, autoApply, ordered, accepted>>

\* The message's own locations.
OwnLocations(body) ==
    [u \in Units |-> [state |-> body.units[u].state, at |-> body.units[u].at]]

\* The units of the update: a location only if the message takes its turn to
\* carry locations (once in 1 s), which come from the buffer.
UpdatedUnits(body) ==
    [u \in Units |->
        [state |-> body.units[u].state,
         at |-> IF Passes("agents") /\ u \in DOMAIN positions' THEN positions'[u].at
                ELSE Null]]

ConfigurationUpdate(body) == [units |-> UpdatedUnits(body), levels |-> body.levels]

\* A unit or sector the update names takes over all it says, a missing location
\* too; what it does not name stays.
UpdateConfiguration(s, update) ==
    [units |-> [u \in Units |-> IF u \in DOMAIN update.units THEN update.units[u]
                                ELSE s.units[u]],
     levels |-> [n \in Sectors |-> IF n \in DOMAIN update.levels THEN update.levels[n]
                                   ELSE s.levels[n]]]

\* A raw chat event passes as a state without anything in it; what it does is
\* take the turn of the next locations.
ReceiveChat ==
    /\ Receive("chat")
    /\ IF Passes("update")
       THEN /\ ready' = ready \ {"update", "agents"}
            /\ store' = UpdateConfiguration(store, [units |-> <<>>, levels |-> <<>>])
       ELSE UNCHANGED <<ready, store>>
    /\ UNCHANGED <<positions, backend, recommendations, autoApply, ordered, accepted>>

\* Keyed by the unit's number alone.
ByNumber(actions) ==
    LET Of(n) == CHOOSE a \in actions : a.unit[2] = n
        kept == {Of(a.unit[2]) : a \in actions}
    IN  [u \in {a.unit : a \in kept} |-> Of(u[2]).sector]

\* A full state replaces what was left from the one before, by type and number.
Recommended(actions) ==
    [u \in {a.unit : a \in actions} |-> (CHOOSE a \in actions : a.unit = u).sector]

\* The units auto-apply sends an order to.
AutoApplied(actions) == {a \in actions : a.unit[2] > 0 /\ a.sector > 0}

ReceiveState ==
    /\ Receive("state")
    /\ IF Passes("rec")
       THEN LET body == Head(wire).body IN
            /\ ready' = ready \ {"rec", "agents"}
            /\ WriteBatch(body.units)
            /\ store' = UpdateConfiguration(store, ConfigurationUpdate(body))
            /\ recommendations' = Recommended(body.advice)
            /\ accepted' = body.advice
            /\ ordered' = IF autoApply THEN AutoApplied(body.advice) ELSE {}
       ELSE UNCHANGED <<ready, positions, store, recommendations, accepted, ordered>>
    /\ UNCHANGED <<backend, autoApply>>

Elapse(t) ==
    /\ t \notin ready /\ ready' = ready \cup {t}
    /\ UNCHANGED <<positions, backend, wire, stores>>

\* The navigation bar's switch.
SetAutoApply ==
    /\ autoApply' = ~autoApply
    /\ UNCHANGED <<positions, backend, wire, ready, store, recommendations, ordered, accepted>>

------------------------------------------------------------------------------
Next ==
    \/ UnitsReport \/ SectorReport \/ Recommend \/ Chat \/ BuildState \/ SendState
    \/ ReceivePositions \/ ReceiveFast \/ ReceiveChat \/ ReceiveState
    \/ \E t \in Throttles : Elapse(t)
    \/ SetAutoApply

Spec == Init /\ [][Next]_vars

\* The stream's timer, the network and the clock go on.
FairSpec ==
    /\ Spec
    /\ WF_vars(BuildState) /\ WF_vars(SendState)
    /\ WF_vars(ReceivePositions \/ ReceiveFast \/ ReceiveChat \/ ReceiveState)
    /\ \A t \in Throttles : WF_vars(Elapse(t))

------------------------------------------------------------------------------
(* Properties *)

\* The recommendations shown are those of the last full state that was not
\* throttled, one for every unit it names, whatever the units' numbers
\* (updateRecommendation).
RecommendationsComplete ==
    /\ DOMAIN recommendations = {a.unit : a \in accepted}
    /\ \A a \in accepted : recommendations[a.unit] = a.sector

\* Once the simulation stands still, the stores come to hold the backend's
\* units, levels and recommendations, though any message but a full state may
\* be lost, any may be throttled, and a full state may be older than the
\* messages before it (startSseConnection).
Converges ==
    <>[](/\ \A u \in Units : store.units[u].state = units[u].state
         /\ store.levels = levels
         /\ accepted = advice
         /\ \A u \in Units : units[u].at # Nowhere =>
                /\ u \in DOMAIN positions
                /\ positions[u] = [at |-> units[u].at, state |-> units[u].state])

\* Auto-apply sends all orders (onmessage: "send all orders immediately").  The
\* code does not keep this one: it takes the number 0 for no number.
AutoAppliesAll ==
    [][accepted' # accepted /\ autoApply => accepted' \subseteq ordered']_vars
================================================================================
