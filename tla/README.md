# Verification of the fire simulator

TLA+ models of the forest-fire simulator, the TLC runs that check them, and
theorems about them that TLAPS proves. The reference is the code; paths below
are relative to the repository (`src/` stands for its root in `PROJECT.json`).

## 1. The system

Five programs around one RabbitMQ exchange.

| part | where | state it keeps | operations |
|---|---|---|---|
| simulator: engine | `fire-simulation/src/engine` | snapshot of the sectors, agents, detected sectors, history, random source | `step`, `step_back`, `publish_current_state` |
| simulator: host | `fire-simulation/main_new.py` | flags, lock, loop thread, references to manager and engine | HTTP routes, `_run_loop` |
| simulator: publisher | `fire-simulation/src/messaging` | connection, `available` | publish to the queues |
| backend | `fire-backend` | `currentState` (sectors, agents, recommendations), reactive sinks | queue subscribers, event stream, order forwarding, proxies |
| support service | `fire-support` | masked copy of the state, last recommendations, worker pool, threads | start/stop, consumers, recommendation loop, MCTS, LLM agents |
| configuration service | `fire-configurations` | a tree of nodes in a document store | create, update, delete, list |
| browser: session | `fire-visualization/src/store`, `services/api` | controllers of streams, `isFetching`, the configuration with its levels and units, recommendations | start, stop, resume, orders, retries |
| browser: map | `features/maps`, `components/maps` | buffer of positions, markers, trails, histories, selection, view | frames, clicks, order dialogs |
| browser: pages | `pages`, `features/configuration`, `layout` | opened file, forms, drawer, workspace, settings, copies of what the bar controls | edit and save configurations and settings, pause, step |

How they interact. The browser reads a configuration, has the backend start
the simulator (`/run_simulation`) and the support service (`/start`), and opens
the event stream (`run-simulation`), which resets the backend's state. The host
then steps the engine in a thread of its own. Every tick publishes the state of
all sectors, of the sectors that changed, of the agents and a masked feed for
the support service. The backend merges these in one thread per queue and
streams them on; the support service answers with recommendations. The browser
merges four kinds of event into its stores and draws positions from a buffer
beside them. Orders go from the browser through the backend to the host, which
changes the agents under the lock it ticks under.

What is hard about it:

* **engine** – one tick has phases whose order matters, agents refer to sectors
  that the fire changes under them, orders and `step_back` come between any two
  ticks, and `step_back` replaces the object graph while the host keeps
  references into it;
* **host** – request threads and the loop thread share flags without the lock,
  test before they lock, wait with a timeout, and may raise anywhere;
* **telemetry** – two queues about the same sectors with one thread each and no
  version in the messages, failed publications, runs that follow each other;
* **session** – thunks that await several requests in a row while others start
  and stop, a stream that reconnects with a request that has side effects;
* **view** – events that are dropped, throttled, merged or overtaken by an older
  full state; markers that are created late and skip small moves; frames that
  read a buffer which messages write;
* **pages** – components that keep copies of what they control and lose them when
  they are left, callbacks that captured an earlier rendering, answers that come
  when something else is shown;
* **support** – a service that may be started twice, threads that outlive a
  stop, triggers that are cleared late, results that arrive late.

What correctness means per component: crews fight fires that burn and come home
when they are out; patrols spread over the forest and cover it; what stands next
to a forester is detected; `step_back` returns to a state that was one; there is
one loop and pause, stop and manual steps do what their names say, whatever
other clients do; the backend ends up with the simulator's state and agents do
not jump back; a session is that of the run that goes on, and Stop can end it;
the map draws reported places and comes to show the latest; an order reaches the
sector the operator pointed at; controls do not claim what is not so; a file
gets the items and the settings that are its own. `PROJECT.json` lists under
`hazards` each place where this may go wrong and the properties that watch it, or
says why none does.

## 2. Modules

```
FireSectors <- AgentManager <- SimulationEngine <- ShownForest <- MCEngine <- MCLiveness
ShownForest also EXTENDS SectorPicture;  ShownForest <- SimulationEngine_proofs
EngineHost <- EngineHost_proofs
Telemetry  <- MCTelemetry, Telemetry_proofs

HttpClient     <- FrontendSession <- FrontendSession_proofs
PositionBuffer <- AgentPositions, SimulationView <- SimulationView_proofs (about both)
                  AgentPositions implements PositionFeed

ForestGrid <- MapPages,  MapPages and ControlBar <- OperatorPages <- MCOperator
ForestGrid <- NewForest <- MCNewForest
ForestGrid and ConfigurationNodes <- ConfigurationEditor
ConfigurationNodes                <- SettingsEditor, Workspace
ConfigurationEditor, SettingsEditor, Workspace <- EditorPages <- MCEditor
ForestGrid <- ForestGrid_proofs,  which with
    OperatorPages and NewForest   <- OperatorPages_proofs
    EditorPages                   <- EditorPages_proofs
```

(`A <- B`: B EXTENDS A.) The engine is a value-level model of everything that
happens under the host's lock; `EngineHost` is the model of how the threads get
that lock and of what they decide without it; `Telemetry` starts where a tick
ends and abstracts the engine to what it publishes; the browser's modules start
where a request or an event of the backend arrives.

### FireSectors, AgentManager, SimulationEngine, ShownForest

Operators without state of their own, put together by the actions of
`SimulationEngine`:

* `Step` is `SimulationEngine.step` with every phase in the code's order: record
  the history, fire phase, withdrawal of foresters, travel of foresters and
  brigades, extinguishing and recall, proactive patrols, detection.
* `StepBack(n, tripped)` is `EngineHost.step_back` with `publish_current_state`,
  which runs detection on the restored state. The host keeps its old manager:
  `detached` holds it from then on.
* `OrderForestPatrol`, `OrderFireBrigade`, `OrderAssignBrigades` are the three
  routes; they act on `HostManager`, which is the engine's manager until the
  first `step_back` that undid something.

A sector is `<<row, column>>`. Its state, fuel and extinguish level are kept (in
units); fire level, burn level, moisture, wind and temperature only decide with
what probability a sector ignites and how fast it burns, so any sector next to a
burning one may ignite and any rate of `BurnRates` may apply. What matters is
kept: burn-out is tested before extinguishment, and both before the crews work.

An agent is its state, action, `at` (current_sector_id), `target` and remaining
ticks, with the code's habits: a redirected crew keeps `at`, a crew that turns
round keeps the sector as `at` on its way home, a patrol dispatch clears it.
`_sector_last_patrolled` is kept as the order of the ages (`older`), the dwell
counter up to the value it is compared with: both keep the state space finite
without a bound on the number of ticks. Coordinates are abstracted, so an
order's location is the sector nearest to it (or missing), and of the oldest
patrol targets any may be picked where the code breaks the tie by distance.

`ShownForest` adds what a tick tells of a sector in percent, with the levels the
engine abstracts left open, and puts it through `SectorPicture`, the colours and
borders of the map (`useSectorsLayer`) and the row of the table of sectors.

### EngineHost

One process per client and one loop per start. Every test or assignment of `start`,
`stop`, `pause`, `resume`, `manual_step`, `step_back`, the orders and `_run_loop` that
another thread may see in between is an action: the tests made before the lock
(`RequestStart`, `RequestStep`), the two reads of `_thread` in `stop` (`Look`,
`Fetch`), the thread that `start` stores and then starts (`Spawn`, `Run`), the join
that may raise or give up on any loop (`Join`), the failed start (`BuildFails`, with
manager and engine of different starts), the loop's tests of `_stop` and `_paused`,
its wait for the lock, and a tick that may raise (`Tick`). `late` only counts, for
`PauseSettles`; `strained` records that a join gave up on a living loop, or that a
start met a start or a stop of somebody else, since the host last rested.

### Telemetry

`Tick`, `StepBack` and `StartRun` publish what `_phase_rabbitmq_publication`
publishes, in its order, to `full`, `fast` and a `batch` queue per kind of agent;
a publication may raise at any message, after which the publisher is unavailable
and the rest is dropped. `ConsumeFull`, `ConsumeFast`, `ConsumeBatch`,
`ConsumeRecommendation` are the subscribers, `Reset` is `runSimulation`. A
sector's published tuple is a level that ticks raise, an agent's an age; `epoch`
is not in the code's messages and lets the properties tell starts and steps back
apart.

### HttpClient, FrontendSession

`HttpClient` is what a request makes of a response: it throws, or returns the
parsed body. `FrontendSession` is the thunks over it. A start `c` goes through
the awaits of `startFetchingConfigurationUpdate`: clicked (`ClickRun`), snapshot
answered, start served by the simulator, answered to the browser or failed, stream
opened (`StreamOpens`, which resets the backend), broken, retried by the library,
closed. `signal[c]` is the controller a stream listens to, `controller` the one
Stop aborts and replaces. The chat source hangs on a module-level `handle`. The
services appear as far as these requests change them: which start the simulator
runs, and for which start the backend was reset. Pages come and go by `GoBack` and
`GoForward`; the main page resumes a running simulation if the snapshot says so.

### PositionFeed, PositionBuffer, AgentPositions, SimulationView

`PositionBuffer` is the buffer of `AgentPositionController` with its two writers.
`AgentPositions` is the map over it: `Report` writes, `Frame` reads the buffer and
creates, moves or recolours markers, records trails and history paths,
`Animate` ends a glide, `Settle` ends the 200 ms in which a marker's state is not
changed, `EnterPage`, `OpenMap`, `LeavePage`, `ToggleHistory` are the operator.
`PositionFeed` says what that promises: reports about one unit or one type leave
the others alone, a drawn unit goes from a reported place to a later one, never
back, and a map that stays open comes to show the latest. `taken` in it is the
report a unit is on its way to; a glide that is cut short ends at an earlier
report than the latest, which the first version of that module did not allow.
A trail gets a place after a jump, at a marker's first update, and when it is
`MinPixels` (the code's `TRAIL_MIN_PIXEL_DISTANCE`) or more from the last one it
got, both as they were projected when they were looked at; `Zoom` changes the
projection and leaves `lastProj` alone.

`SimulationView` is the way of an event: the backend's state changes (`UnitsReport`,
`SectorReport`, `Recommend`), messages go over one ordered wire, may be lost but
for the full state (`BuildState` and `SendState`, a state may be built before and
sent after other messages), pass the filters and throttles of `onmessage`
(`Passes`, `Elapse`) and change the stores.

### ForestGrid, MapPages, ControlBar, OperatorPages

`ForestGrid` cuts the rectangle of a configuration into sectors and looks places
up again: the browser's contours and lists, the random place it draws for an order,
the simulator's nearest centre, the backend's `resolveSectorId`. `MapPages` is the
selection, tooltip and view of the maps of the two pages, the dialog that moves a
unit and the orders; `ControlBar` is pause, steps and the switch that applies
recommendations, with the host's flag as far as requests change it
(`HostChanges` is everybody else). `clicked` and `alone` are there for properties
only.

### ConfigurationNodes, ConfigurationEditor, SettingsEditor, Workspace, EditorPages, NewForest

`ConfigurationNodes` is the configuration service as the pages use it. A document
keeps the folders it is in (`above`), which is what the service's walk from a folder
to its children finds, since no page moves a document. A request is an element of a
set (`opens`, `saves`, `checks`, `reads`, `writes`, `fetches`, `orders`) that the
service serves and whose answer the page takes, or that fails, in any order.
`ConfigurationEditor` is a file that is opened and its items; `SettingsEditor` the
drawer, the icon that makes settings and the page that edits them; `Workspace` the
folder that is shown and the dialogs. The tree begins as the service leaves it at
start-up, with a root and, in it, a settings folder with its `sim_settings`; three of
the four initial trees have also been used before, so that there is a settings folder
of the icon's, with files that hold their own settings, nothing, or text that does not
parse. `EditorPages` puts them together: a dialog covers the rest, opening a file
leaves the settings page, the workspace comes and goes with the drawer. `strains` only
records what overtook or failed; the properties name the strains under which the code
does not keep them. `NewForest` is the dialog that draws a forest. The numbers its
fields take are counted in `Parts`, so that they may be fractions, nothing or
negative. The preview leaves out sectors with invalid corners, the file that is
created does not.

## 3. What TLC checks

Every run passes.

| run | instance | question |
|---|---|---|
| `crews` | 3 sectors in a row, 2 brigades, fuel 4, threshold 2, travel 2 | crews and fires through every order at every moment, and how the map shows them |
| `history` | 2 sectors, 1 brigade, 2 foresters, travel 1, dwell 2, a sensor, history 2 | ticks, orders and `step_back` in any order; patrols' claims |
| `liveness` | 3 sectors, 2 brigades, 1 forester, fuel 3 of which a tick burns 1 or 2, threshold 1, 2 orders | fires end, crews come home, the forest is covered, fires beside a forester are known |
| `host_many_clients` | 2 clients, 2 starts, joins that give up, failures | pause settles, loops take turns, stop ends loops, requests end |
| `telemetry` | 2 runs with a sector each, 2 and 1 kinds of agents, 2 ticks, 1 step back or start, failures | backend converges, agents keep their order, only known units are recommended |
| `session` | 3 clicks on Run, 2 on Stop, failures | what is open can be stopped, belongs to its run, and an accepted start is followed |
| `positions` | a brigade and a patrol with one number, 2 places, 2 states, 3 reports | the map implements `PositionFeed`; states are complete |
| `trails` | a brigade, places 1, 2, 3 and 5 of which 5 is a jump from 1 and 2, steps of one that are less than a pixel unless zoomed in, 2 changes of zoom, 4 reports | trails are complete |
| `view` | a brigade and a patrol with one number, 2 places (and none), 1 sector, 2 changes, 1 message under way | the browser converges to the backend; recommendations are complete |
| `operator` | 2 sectors of side 10, a unit of each type, 1 update | orders, selection, steps and switch |
| `editor` | 2 sectors, 2 files, 4 trees to begin with, 3 requests, items inside and on the border | ids, files, lists and settings stay apart |
| `new_forest` | 5 places to press, one of them off the earth; numbers −1, 0, ½, 1, 1½, 2, 3 | what is created is what was shown |

The properties:

* `ExtinguishersAtFire` – between ticks a crew that extinguishes stands in a
  sector that burns; `CrewHoldsFire` – a tick does not take it away while it
  burns. Together they say that `_recall_brigades_from` and the arrival test
  leave nobody behind and send nobody home too early.
* `MissionsToFires` – no crew travels to a sector the fire has never reached.
* `PictureTellsState` – fires have the colour of the class the engine gives them,
  what crews put out is shown as saved even if it was late, untouched sectors as
  neither, and borders show threat where it matters.
* `PatrolsSpread`, `WatchedFireDetected` – no sector is claimed twice; the
  support sees every fire beside a forester, and none in untouched forest.
* `HistoryConsistent` – what `step_back` can return to was a state between
  ticks, and there is not more of it than `max_history`.
* `FiresEnd`, `CrewsComeHome`, `ForestCovered` – the other three of `liveness`.
* `PauseSettles`, `LoopsObeyStop`, `RequestsEnd` – see their comments in
  `EngineHost`; `LoopsTakeTurns` – whatever two clients do to each other, only a
  start that meets a start or a stop, and a join that gives up, can leave a loop that
  `_thread` is not, and not any more once the host has come to rest.
* `Converges`, `AgentsNeverGoBack`, `RecommendedAreKnown` – see `Telemetry`.
* `StopReachesStreams` – whatever has not ended listens to the controller that the
  next Stop aborts; `ChatIsHeld` – no chat source is open that nobody can close;
  `SessionIsOfRun` – while starts do not overlap, what is shown is of the run that
  goes on; `StartsAreFollowed` – an accepted start gets its stream.
* `TrailsComplete`, `StatesShown`, `ImplementsFeed` – a trail ends within a
  pixel of the place its marker was sent to, through small steps, jumps and
  ways back, also while trails are off; a state that waits out
  a throttle is shown in the end; the map keeps the promise of `PositionFeed`.
* `RecommendationsComplete`, `Converges` of `SimulationView` – no recommendation is
  lost to a unit of the other type with the same number; in the end the stores
  agree with the backend, whatever was dropped, throttled or overtaken.
* `OrdersReachSector` – any place the browser draws for a sector is found to be in
  that sector by the simulator and by the backend; `SelectionIsLastClick` – a
  toggling reducer, several maps and a dialog, and still the last click counts;
  `StepsOfferedInPause`, `SwitchNeverOverstates` – the copies of the bar do not
  claim what is not so.
* `IdsUnique`, `FilesApart`, `ListedOnce`, `SettingsOfFile`, `OneSimSettings`,
  `ListIsCurrent` – see the comments in the modules of the editor; most hold as
  long as the operator lets a request finish, and section 5 says what happens
  otherwise.
* `CreatedAsShown` – the file that is created opens with the sectors of the
  preview, as long as one of the two numbers is whole; when both are, with rows
  times columns of them over the rectangle on the map. What two fractions do is in
  section 5.

### Bounds and why they are enough

* The engine's ticks, orders and steps back are unbounded; its state space is
  finite because fuel only falls. With fuel 4 and threshold 2 a fire lasts long
  enough for a crew to arrive (travel 2), to put it out alone or with a second
  crew, to be late, or to see it burn out under its hands. Two brigades are what
  a recall that hits another crew takes, three sectors what a redirection with
  the fire spreading both ways takes.
* In `history` two foresters share two sectors, so that a claim of one is what the
  other wants; dwell 2 separates a patrol that has just arrived from one that may
  move on. Two records are what undoing one, all, and more than there is takes.
* In `liveness` fuel 3 is the least with which a crew that arrives in the first tick
  puts a fire out before it burns out; a sector that burns 1 and then 2 ends exactly
  at nothing, one that burns 2 twice is cut off there. One forester and three sectors
  make the age of the targets matter: with more foresters than that there is hardly a
  choice.
* `MaxOrders` bounds the operator of `liveness` only: an operator who repeats
  GO_TO_BASE for ever keeps a crew on its way (`agent_manager.py:737` starts the
  way home again), so nobody could promise `CrewsComeHome` otherwise.
* `MaxStarts` of `EngineHost`: 2 lets one loop survive into the life of the next.
  Two clients are enough for each pair of checks and acts to interleave; the
  theorems remove both bounds for what they prove. 101 138 states.
* `Telemetry`: two ticks after or before one step back or one start give every
  order of an old and a new message on each queue. Sectors do not influence
  each other on the way, so each run has one, and the second run another one and
  no brigade, so that messages of the first run are about what it does not have.
* `session`: three starts let one be replaced while another is on its way, two
  stops let one be late; 100 334 states.
* `positions`: a third report is what a glide that ends at neither the first nor
  the last takes; the two places are within a glide of each other, and every step
  is recorded. The two units have one number and two types, which is what keys that
  forget the type mix up; 142 872 states.
* `trails`: units do not share trails, so there is one. Four reports are a place, a
  step too small to record, one that together with it is large enough, and a way
  back or a jump; a zoom and its undoing make a step too small, or large enough, in
  between; 62 646 states.
* `view`: two changes are an old and a new state on each channel, one message
  under way is enough because the full state is built apart from being sent, so
  that a message may overtake what it holds; 174 986 states.
* `operator`: the grid of one row has an inner border, which is where look-ups
  could differ; a second update adds nothing that tells the first from none.
* `editor`: three requests are two that overlap and one that is lost or overtaken;
  two items in the first file and a place on the border that dialog and list
  disagree about; 2 654 000 states or so, two and a half minutes. The third request is
  also what a save after switching takes: open one settings file, another one, save.
* `new_forest`: any number of drawings; the places make rectangles in
  every direction, flat ones, and one that leaves the earth. The
  preview's limit, 100 in the code, is 2. Halves are the fractions of which whole
  ones are two; 3 373 650 states.

Deadlock checking is off where the system may stop: an engine whose forest has
burned down with every agent at rest steps to the same state, and in the browser's
modules the bounded requests and clicks end. It is on in `EngineHost` and
`Telemetry`.

### Fairness and why the code justifies it

* `MCLiveness`: weak fairness of `Step`. While the loop runs it steps for ever;
  nothing in the engine can refuse a step. Orders are not fair.
* `EngineHost`: weak fairness of every thread that can go on, which is what the
  operating system's scheduler gives, and strong fairness of the two lock
  acquisitions: the lock is free again and again, since every holder frees it
  without waiting for anybody and a loop sleeps between ticks. Requests are not
  fair; nobody has to make one.
* `Telemetry`: weak fairness of the subscribers. Ticks, steps back, starts, resets
  and recommendations are not fair.
* `FrontendSession`: weak fairness of the answers of requests, one way or the
  other, and of the library's retries; strong fairness of `StreamOpens`, a backend
  that is reachable again and again. Clicks and faults are not fair.
* `AgentPositions`: weak fairness of `Frame` (`requestAnimationFrame`, which a
  mounted map keeps asking for), `Animate` and `Settle` (the browser's clock).
* `SimulationView`: weak fairness of the backend's timer (`BuildState`,
  `SendState`), of receiving what is on the wire and of time (`Elapse`).
* The pages have no fairness and no liveness property.

## 4. What is proved

`tlapm` checks every proof for all values of the constants that satisfy the named
assumptions of the modules, and nothing else is assumed.

* `SimulationEngine_proofs` begins with lemmas, one for each operator on the manager
  (the phases of a tick and the orders): it keeps the manager well typed. Then
  `TypeCorrect`, `CrewsAreAtFires`, `MissionsAreToFires`, `HistoryIsConsistent`,
  `CrewsHoldFires`. `ExtinguishersAtFire` is not inductive: `StepBack` makes any
  record of the history the current state, and an arriving crew only extinguishes if
  what it travels to is a sector. The inductive invariant `IInv` is therefore typing
  and soundness (`CrewAtFire` and `MissionsAtFires`) of the current state *and* of
  every record. Missions are sound through a tick because no sector becomes DORMANT
  again (the fire phase) and because travel, recall and withdrawal only ever shorten
  or drop a mission; the order that creates one is validated against the snapshot.
  Orders to a detached manager do not touch the state the invariant speaks of.
  `HistoryIsConsistent` adds the bound on the length inductively, and `CrewsHoldFires`
  follows from `IInv` step by step. `WatchedFiresAreDetected` follows from
  `WatchIInv`: detection ran on the sectors the foresters are in now, an order can
  only take a forester out of a sector, and what is known has been reached by fire, in
  every record too, because a step back runs detection on what it restores.
  `PatrolsAreSpread`, under `Proactive`, from `SpreadIInv`: claims are disjoint now
  and in every record; each pick of a tick is outside what is occupied, which grows
  with it. Without proactive patrols the operator may send two foresters to one
  sector, so the theorem has that condition. `PicturesTellState` needs `PictureIInv`:
  a sector that went out has exactly the extinguish level that puts it out and one
  that never burned has none, in every record too. The colours follow by the
  thresholds of `SectorPicture`, for every value of the levels the engine leaves open.
  The proof made one correction: `Classification` was a CASE with overlapping guards,
  whose value TLA+ leaves open where more than one holds; the code's chain of `if`s is
  an IF now.
* `EngineHost_proofs`: `TypeCorrect`; `PausesSettle` for any clients, from
  `LateInv` (a loop that has finished a late tick is not past the pause test
  again while paused); `LoopsAreOne` for any clients and with joins that give up,
  from `LoopInv`: what holds of a place whatever the others do (`PlaceInv`) and,
  unless the host is strained, `TurnInv`, which says at each place of each client
  which loop can be alive and what `_thread` refers to. Nothing is assumed of the
  clients or of time; without `~strained` TLC finds two loops (section 5).
* `Telemetry_proofs`: `AgentsMoveOn` and `RecommendationsAreKnown`. An agent's
  times are ordered by start or step back, then age; `QueueInOrder` says that
  what is shown, the queue of its kind front to back, and the simulator are in
  that order. A tick, a step back and a start append something later, failing
  publications append nothing, and a subscriber takes the front.
* `FrontendSession_proofs`: `StopsReachStreams`, `SessionsAreOfRuns`,
  `ChatsAreHeld` and `TypeCorrect`. `SessionIInv` is typing, the first property,
  and, while starts do not overlap, that there is one start on its way or one
  stream, never both, that the simulator runs that start from the moment it is
  served, and that the backend was reset for it when the stream is open. That the
  snapshot never says that a simulation runs (section 5) is a lemma of it.
  `TypeCorrect` needs that stop requests under way were clicks.
* `SimulationView_proofs`, about `SimulationView`: `TypeCorrect` and
  `RecommendationsAreComplete`. That the store has one entry for each recommended unit
  is not inductive, since what is accepted next is on the wire or in the state the
  timer built: `IInv` says of each of these copies that it names a unit once
  (`AdviceFits`), so that what is written one after the other does not overwrite.
  About `AgentPositions`: `MapImplementsFeed` (`MapSpec => Feed!Safe`) and
  `TrailsAreComplete`. The invariant is that a marker belongs to a unit of the buffer,
  is there on an open map only, and that its trail ends at its target until it is
  first updated, and from then on at the place `lastProj` was projected from, to which
  its target is close in the view of that projection. Each step is mapped: `Report` to
  `Report` (of a unit, a type or all), `Frame` and `Animate` to `Draw`, opening and
  leaving to `Show` and `Hide`, the rest to a stutter. TLC checks the whole of
  `Feed!Spec`, with its liveness, on the instance.
* `ForestGrid_proofs`: lemmas about the grid for any numbers of rows and columns.
  `DivMod` and `DivModUnique` make sector numbers and cells the same thing
  (`SectorCell`, `CellSector`); `Lines` and `LinesApart` say where `Linspace` puts
  the borders; with them the bounds of a created sector are those of its cell
  (`SectorsAreCells`, after `preprocessSectors` too: `SquaresAreCells`), a place
  inside of a sector is in no other one and on no other's border (`InsideOfOne`),
  and among centres that of its own cell is the nearest (`NearerCentre`), so that
  the simulator's and the backend's look-ups return that sector (`InsideIsFound`).
* `OperatorPages_proofs`: `SwitchIsTrue` and `StepsAreOfferedInPause` from the bar's
  invariant, step by step for requests that are answered, fail, get lost or are left
  behind by a page that goes; `LastClickIsSelected` because every other step leaves
  both the selection and the last click alone. `OrdersArrive` holds on every grid: an
  order is written once, with what the look-ups made of its place, and the lemmas on
  the grid say what that is. Places are drawn a tenth of the side or more away from
  the borders, and a side of at least 10 makes that tenth at least 1 in whole
  coordinates (`PositionsAreInside`). `ForestsAreCreatedAsShown`: while the dialog is
  open the form's location is the rectangle on the map or the default one
  (`LocationIsDrawn`); with the preview the numbers are positive and within the limit.
  When one of them is whole, its last row or column is found to be the last one
  (`LastIsFound`), so that sectors are numbered rightly, and each of them has valid
  corners because a number has no fewer lines than whole steps (`NewSector`,
  `NewSectorIsValid`), so that the preview's filter drops none. When both are whole
  the lines end at the border (`WholeSteps`), the sectors are as many as cells
  (`SectorsCount`) and their corners span the rectangle again (`SectorsSpanRegion`).
* `EditorPages_proofs`: the six properties of the editor, from one invariant
  `IInv`, which TLC checked first on the instance of the run `editor`. None of the
  six is inductive, because each is about documents that requests under way will
  write or lists they will bring:
  - `TreeOK`, `WorkspaceOK`, `SettingsOK`, `EditorOK` – documents form a
    forest in which the folders above a folder are above what it holds, no settings
    folder is above anything in the root's tree, which has all the configurations,
    and requests name documents of the kind they are for. `ListedInOneSector`
    follows from `EditorOK` alone: wherever items are kept or carried, their places
    are off the borders, or the default place, which no sector contains.
  - `Unique` for `UniqueIds` – with no overlap, a new item under way is the only
    one, and neither the store nor any other change under way has its number.
  - `Apart` for `ApartFiles` – every change under way is of the file that is
    open, and an answer that opens a file brings that file's items.
  - `OwnSettings` for `SettingsAreOfFile` – a page that is not loading shows its
    file's settings, and every writing under way carries what belongs to its file.
  - `OneFolder` for `SimSettingsAreOne` – at most one check is under way, and what
    it is about to create is not there yet.
  - `Current` for `ListsAreCurrent` – the list is current, or a listing is under
    way, or a creation was served whose answer will ask for one; a listing that
    was served is current unless another one or such an answer follows.
  Each clause is weakened by the strains its property names, and a step that
  strains needs to keep the rest only.

What the assumptions on constants ask: `BurnRates`, thresholds, travel and grids are
positive; `Places` and `States` of the view are not empty and `Null` is neither in
them nor a number; a side of at least 10 for places drawn in whole coordinates
(`PagesAssumption`), of at least 2 for a sector to have an inside (`GridAssumption`);
rectangles of a new forest can be cut into whole cells by every number the preview
takes, fractions included (`DrawingAssumption`). The last three stand for the code's
floating point, whose rounding is not modelled.

Only model-checked: everything temporal with fairness (`FiresEnd`,
`CrewsComeHome`, `ForestCovered`, `RequestsEnd`, `LoopsObeyStop`, both
`Converges`, `StartsAreFollowed`, `StatesShown` and the liveness of
`ImplementsFeed`), which the prover cannot do. Every other property of a run is
the subject of a theorem.

## 5. Where the code does not do what it seems to promise

Met while the models were written. What lies within their abstraction is in them as
it is in the code, and the properties above are stated so that they say what does
hold. Where a definition states what does not, it is named; none of them is among
the runs.

Simulator and backend:

1. `MissionKept` – two crews fight A, one is sent on to B, A goes out: the recall
   (`agent_manager.py:553`, documented at :551) finds the crew on its way to B by
   its old `current_sector_id` and sends it home.
2. `OrderTakesEffect` – after a `step_back` the host gives its orders to the manager
   the engine no longer uses (`simulation_engine.py:268`, against
   `agent_manager.py:9`).
3. `MCLiveness` with `Unlocated = TRUE` – an order without a location is refused,
   and the patrol it named stays where it is for good (`agent_manager.py:606`).
4. `LoopsTakeTurns` without `~strained` – a loop whose tick and sleep outlast the two
   seconds of `stop` is revived by the next `start` (`main_new.py:161`); two starts
   at once make two loops. `ManualStepsAlone` – a manual step that was let in before a
   start or a resume of somebody else is made while the loop runs.
5. `StepBackIsShown` – a message of the fast queue about an undone tick overwrites
   the restored state (`simulation_engine.py:291`).
6. A forester on his way to a sector that ignites is not withdrawn; GO_TO_BASE
   restarts a way home (`agent_manager.py:737`); EXTINGUISH on a mission is
   acknowledged and ignored (`:718`); a failed start leaves a new manager beside an
   old engine; an unavailable publisher stays so; after a `step_back` sensor noise is
   drawn anew (`simulation_engine.py:272`).
7. Sectors of an earlier run reappear after a reset whose comment says they do not
   mix (`SimulationStateService.java:796`); `ResetsAreStarts` – a retry of the event
   stream is a POST that resets the backend in the middle of the run (`:796–797`).

Session:

8. `getSnapshot` looks for `.data` in a body that is parsed already, so the main
   page never resumes a running simulation.
9. Stop while a start is on its way is lost on the start; a late stop ends the
    next run; Stop leaves the chat source open until the next start; a stream that
    is refused or closed leaves `isFetching` TRUE
    (`serverCommunicationReducers.ts:578`), after which nothing starts until Stop.
10. `AutoAppliesAll` – automatic orders skip units and sectors with the number 0.
11. A known location of a unit is lost on an update without it until the next report.

Map and pages:

12. `SavedIsSaved` – a sector that burned out half extinguished is drawn as saved
    (`useSectorsLayer.ts:57–59`); the legend of `LogTabs.tsx:103` says 80 % where the
    code says 78.
13. Positions are never cleared between runs, the loop of frames goes on after the
    last subscriber left, the interpolation always returns its end, and each
    position holds the one before it (`AgentPositionController.ts:70`), a chain that
    grows with the run.
14. The map's handler that hides the tooltip is the one of its first rendering;
    `ForesterMap` fits its view again on every update; markers of brigades start
    larger than those of patrols, "to tell the type" (`AgentMarkerManager.tsx:369–371`),
    and get the same size at their first update (`:469–476`). After a change of zoom
    the last point of a trail is compared as it was projected before (`:520–527`), so
    that a step of any length may be left out.
15. The switch for recommendations is shown off after the page was left, while it is
    on; the pause button is out of step after a lost answer or a page change.
16. The dialog for a place refuses points on a border that the lists count to both
    sectors, and a default place is saved if none was drawn.
17. Two creations under way get one number, and the later answer wins; an answer
    that comes after another file was opened joins that file's configuration.
18. Settings are saved to the chosen file with the values of another one if reading
    it failed or was overtaken; two quick clicks on the icon make two folders. The
    icon looks for the settings folder among the nodes without a parent
    (`MainDrawer.tsx:51–68`), but the service makes it under the root
    (`fire-configurations/app/main.py:201–237`): the first click makes a second folder and a
    second `sim_settings`, and the first ones are never shown as settings. A
    settings file without data is shown with, and saved with, the settings of the file
    before it (`SettingsPage.tsx:87–105`).
19. The first click on the workspace's icon empties the list without reading it, and
    a listing of the root that fails empties it too (`WorkspaceNavigation.tsx:104–107`).
20. A rectangle that is refused stays on the new forest's map and blocks drawing
    until it is cleared; the preview's limit is not enforced on creation; places on
    the equator or the meridian of Greenwich count as missing; a configuration can
    be created without an area. The fields take fractions and negative numbers, and
    Create submits from outside of the form, so nothing checks them. With 1.5 columns
    a third of the rectangle is left out; with 1.5 rows as well no sector is found
    to be the last (`configuration.ts:90`), the preview shows none
    (`NewConfigurationMap.tsx:91–113`) and the file keeps one with corners that are
    no places.

## 6. What is not modelled

* Random numbers and the formulas of fire, wind and sensors (floats; their
  outcomes are open in the models); coordinates under way; rounding in the grid.
* The support service with its state manager, worker pool, MCTS and LLM agents. Its
  recommendations are arbitrary in `Telemetry` and `SimulationView`. What is hard in
  it: a second start of a running service and a stop that waits for some threads
  only (`support_service.py:155`), a configuration that clears the state while a
  recommendation is computed from it (`:398`, `:815`), a trigger that is set during
  the computation it asks for and cleared after it (`:621`), requests that start and
  stop one global service (`main.py:45`), tasks whose caller has given up
  (`mcts_worker.py:140`).
* The order path through the backend: requests without state of their own, and a
  queue for failed ones that nobody consumes (`SimulationStateController.java:158`);
  errors that replace a broken stream by an empty one (`StateUpdatesService.java:73`).
* Moving and deleting configuration nodes, which no page does (`main.py:101`,
  `nodes.py:110`), and the service's start-up, of which the models have what it
  leaves in the tree.
* In the browser: edits that are not saved and the fields of a sector; log list and
  terminal; layers that only draw what the store holds and the throttled overlay;
  the LLM switch, which is disabled; styles, sample data, and components that no
  page mounts.
* `set_speed`, which changes only the length of a sleep; log files; declarations of
  queues and data classes.

The list of components in `PROJECT.json` names each part with its reason.

## 7. What would come next

1. `SupportService` – lifecycle, consumers against a reset, the recommendation loop
   with trigger, cooldown and suppression; abstract specification: the operator
   sees the recommendation of the newest state that was published.
2. `WorkerPool` – every caller gets an answer, a result goes to its task.
3. `OrderPath` – browser, backend and host with timeouts and the fallback queue; an
   accepted order is carried out at most once.
4. `EngineHost` as a refinement of a host whose requests are atomic, for one client.
5. Action properties of the pages: a request that is answered changes what its
   page shows and nothing else; and a proof of the steps that `Converges` of
   `SimulationView` and of `Telemetry` rest on (no message makes a store older).
