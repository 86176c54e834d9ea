------------------------------ MODULE EngineHost ------------------------------
(***************************************************************************)
(* EngineHost of main_new.py with the threads that share it: one thread    *)
(* per HTTP request (a client) and one tick loop per start.  The host's    *)
(* lock protects the engine, but not the flags, the reference to the loop  *)
(* and the checks a request makes before it takes the lock.                *)
(*                                                                         *)
(* A start, the manager and the engine it builds and the loop it spawns    *)
(* have the same number; 0 is Python's None.  What a tick, a manual step,  *)
(* a step_back or an order does to the engine is SimulationEngine's.       *)
(***************************************************************************)
EXTENDS Naturals, FiniteSets

CONSTANTS
    Clients,
    Nobody,        \* the holder of a free lock
    MaxStarts,     \* bound on the starts
    Faulty         \* a tick may raise, a configuration may be rejected

Loops == 1..MaxStarts

ASSUME HostAssumption ==
    /\ MaxStarts \in Nat
    /\ Nobody \notin Clients \cup Loops
    /\ Clients \cap Loops = {}
    /\ Faulty \in BOOLEAN

VARIABLES
    stop, paused,        \* the events _stop and _paused
    lock,                \* who holds _lock
    thread,              \* _thread
    manager, engine,     \* agent_manager and engine, by the start they are of
    started,             \* starts that got as far as building something
    loop,                \* where each loop stands in _run_loop
    request, pc,         \* what each client asked for, and where it stands
    joining,             \* the thread a client waits for in stop
    late,                \* ticks a loop finished since the pause (history)
    strained             \* since the host last rested, a join gave up or a
                         \* start met a start or a stop (history)

shared == <<stop, paused, thread, manager, engine, started>>
vars == <<shared, lock, loop, request, pc, joining, late, strained>>

LoopPC == {"none", "check_stop", "check_paused", "acquire", "tick", "sleep", "dead"}
ClientPC == {"idle", "stop", "look", "fetch", "join", "forget", "acquire",
             "locked", "clear", "spawn", "run"}

TypeOK ==
    /\ stop \in BOOLEAN /\ paused \in BOOLEAN
    /\ lock \in Clients \cup Loops \cup {Nobody}
    /\ thread \in 0..MaxStarts /\ started \in 0..MaxStarts
    /\ manager \in 0..MaxStarts /\ engine \in 0..MaxStarts
    /\ loop \in [Loops -> LoopPC]
    /\ request \in [Clients -> {"none", "start", "stop", "step", "order"}]
    /\ pc \in [Clients -> ClientPC]
    /\ joining \in [Clients -> 0..MaxStarts]
    /\ late \in [Loops -> 0..2]
    /\ strained \in BOOLEAN

Init ==
    /\ stop = FALSE /\ paused = FALSE
    /\ lock = Nobody
    /\ thread = 0 /\ manager = 0 /\ engine = 0 /\ started = 0
    /\ loop = [l \in Loops |-> "none"]
    /\ request = [c \in Clients |-> "none"] /\ pc = [c \in Clients |-> "idle"]
    /\ joining = [c \in Clients |-> 0]
    /\ late = [l \in Loops |-> 0]
    /\ strained = FALSE

Alive(l) == loop[l] \notin {"none", "dead"}

IsRunning == thread \in Loops /\ Alive(thread)

------------------------------------------------------------------------------
(* Requests and the checks they make without the lock *)

AtRest == (\A c \in Clients : pc[c] = "idle") /\ (\A l \in Loops : ~Alive(l))

\* A start with a start or a stop of somebody else under way, or a stop with
\* a start.
Crosses(c, what) ==
    \E d \in Clients \ {c} :
        \/ what = "start" /\ request[d] \in {"start", "stop"}
        \/ what = "stop" /\ request[d] = "start"

Ask(c, what, next) ==
    /\ pc[c] = "idle"
    /\ strained' = (~AtRest /\ (strained \/ Crosses(c, what)))
    /\ request' = [request EXCEPT ![c] = what]
    /\ pc' = [pc EXCEPT ![c] = next]
    /\ UNCHANGED <<shared, lock, loop, joining, late>>

\* start stops the loop that runs, if it finds one.
RequestStart(c) ==
    started < MaxStarts /\ Ask(c, "start", IF IsRunning THEN "stop" ELSE "acquire")

RequestStop(c) == Ask(c, "stop", "stop")

\* manual_step and step_back: refused while the loop runs unpaused.
RequestStep(c) == ~(IsRunning /\ ~paused) /\ Ask(c, "step", "acquire")

RequestOrder(c) == manager # 0 /\ Ask(c, "order", "acquire")

\* Unless they are asked for, ticks count as late from the pause on.
SetPaused(flag) ==
    /\ paused' = flag
    /\ late' = IF flag THEN late ELSE [l \in Loops |-> 0]

Pause(c) ==
    /\ pc[c] = "idle" /\ SetPaused(TRUE)
    /\ UNCHANGED <<stop, lock, thread, manager, engine, started, loop, request, pc, joining, strained>>

Resume(c) ==
    /\ pc[c] = "idle" /\ SetPaused(FALSE)
    /\ UNCHANGED <<stop, lock, thread, manager, engine, started, loop, request, pc, joining, strained>>

------------------------------------------------------------------------------
(* EngineHost.stop, which takes no lock *)

Goto(c, next) == pc' = [pc EXCEPT ![c] = next] /\ request' = request

Answer(c) ==
    /\ pc' = [pc EXCEPT ![c] = "idle"]
    /\ request' = [request EXCEPT ![c] = "none"]

SetStop(c) ==
    /\ pc[c] = "stop" /\ Goto(c, "look")
    /\ stop' = TRUE /\ SetPaused(FALSE)
    /\ UNCHANGED <<lock, thread, manager, engine, started, loop, joining, strained>>

Look(c) ==
    /\ pc[c] = "look" /\ Goto(c, IF thread = 0 THEN "forget" ELSE "fetch")
    /\ UNCHANGED <<shared, lock, loop, joining, late, strained>>

\* _thread is read again: when it has become None the request ends here.
Fetch(c) ==
    /\ pc[c] = "fetch"
    /\ IF thread = 0 THEN Answer(c) ELSE Goto(c, "join")
    /\ joining' = [joining EXCEPT ![c] = thread]
    /\ UNCHANGED <<shared, lock, loop, late, strained>>

\* join() forgotten.
JoinNobody(c) ==
    /\ pc[c] = "join" /\ Goto(c, "forget")
    /\ joining' = [joining EXCEPT ![c] = 0]
    /\ UNCHANGED <<shared, lock, loop, late, strained>>

\* join(timeout=2.0) ends with the loop or gives up on it; joining a thread
\* that has not been started raises.
Join(c) ==
    /\ pc[c] = "join"
    /\ IF loop[joining[c]] = "none" THEN Answer(c)
       ELSE Goto(c, "forget")
    /\ strained' = (strained \/ Alive(joining[c]))
    /\ joining' = [joining EXCEPT ![c] = 0]
    /\ UNCHANGED <<shared, lock, loop, late>>

Forget(c) ==
    /\ pc[c] = "forget"
    /\ IF request[c] = "start" THEN Goto(c, "acquire") ELSE Answer(c)
    /\ thread' = 0
    /\ UNCHANGED <<stop, paused, lock, manager, engine, started, loop, joining, late, strained>>

------------------------------------------------------------------------------
(* What requests do under the lock *)

Acquire(c) ==
    /\ pc[c] = "acquire" /\ lock = Nobody
    /\ Goto(c, "locked") /\ lock' = c
    /\ UNCHANGED <<shared, loop, joining, late, strained>>

\* A step, a step_back or an order.
Apply(c) ==
    /\ pc[c] = "locked" /\ request[c] \in {"step", "order"}
    /\ Answer(c) /\ lock' = Nobody
    /\ UNCHANGED <<shared, loop, joining, late, strained>>

\* start builds the manager, then the engine.
Build(c) ==
    /\ pc[c] = "locked" /\ request[c] = "start" /\ started < MaxStarts
    /\ started' = started + 1
    /\ manager' = started' /\ engine' = started'
    /\ Goto(c, "clear")
    /\ UNCHANGED <<stop, paused, lock, thread, loop, joining, late, strained>>

\* An error in the configuration: nothing is built (or another start used up
\* the bound), or no engine, or the engine cannot be lit.
BuildFails(c) ==
    /\ pc[c] = "locked" /\ request[c] = "start"
    /\ Answer(c) /\ lock' = Nobody
    /\ \/ (Faulty \/ started = MaxStarts) /\ UNCHANGED <<started, manager, engine>>
       \/ /\ Faulty /\ started < MaxStarts
          /\ started' = started + 1 /\ manager' = started' /\ engine' \in {engine, started'}
    /\ UNCHANGED <<stop, paused, thread, loop, joining, late, strained>>

ClearFlags(c) ==
    /\ pc[c] = "clear" /\ Goto(c, "spawn")
    /\ stop' = FALSE /\ SetPaused(FALSE)
    /\ UNCHANGED <<lock, thread, manager, engine, started, loop, joining, strained>>

Spawn(c) ==
    /\ pc[c] = "spawn" /\ Goto(c, "run")
    /\ thread' = started
    /\ UNCHANGED <<stop, paused, lock, manager, engine, started, loop, joining, late, strained>>

\* _thread is read again: a stop that has just made it None makes start raise.
Run(c) ==
    /\ pc[c] = "run" /\ Answer(c)
    /\ loop' = IF thread = 0 THEN loop ELSE [loop EXCEPT ![thread] = "check_stop"]
    /\ lock' = Nobody
    /\ UNCHANGED <<shared, joining, late, strained>>

------------------------------------------------------------------------------
(* _run_loop *)

Advance(l, next) == loop' = [loop EXCEPT ![l] = next]

CheckStop(l) ==
    /\ loop[l] = "check_stop" /\ Advance(l, IF stop THEN "dead" ELSE "check_paused")
    /\ UNCHANGED <<shared, lock, request, pc, joining, late, strained>>

\* Waiting for the end of the pause without looking at _stop.
CheckPausedOnly(l) ==
    /\ loop[l] = "check_paused" /\ Advance(l, IF paused THEN "check_paused" ELSE "acquire")
    /\ UNCHANGED <<shared, lock, request, pc, joining, late, strained>>

\* A nap in place of the next round.
CheckPausedOnce(l) ==
    /\ loop[l] = "check_paused" /\ Advance(l, "acquire")
    /\ UNCHANGED <<shared, lock, request, pc, joining, late, strained>>

CheckPaused(l) ==
    /\ loop[l] = "check_paused" /\ Advance(l, IF paused THEN "check_stop" ELSE "acquire")
    /\ UNCHANGED <<shared, lock, request, pc, joining, late, strained>>

AcquireForTick(l) ==
    /\ loop[l] = "acquire" /\ lock = Nobody
    /\ Advance(l, "tick") /\ lock' = l
    /\ UNCHANGED <<shared, request, pc, joining, late, strained>>

CountLate(l) ==
    late' = IF paused /\ late[l] < 2 THEN [late EXCEPT ![l] = @ + 1] ELSE late

\* An exception that leaves the lock taken.
TickKeepsLock(l) ==
    /\ loop[l] = "tick" /\ CountLate(l)
    /\ \/ Advance(l, "sleep") /\ lock' = Nobody
       \/ Faulty /\ Advance(l, "dead") /\ lock' = lock
    /\ UNCHANGED <<shared, request, pc, joining, strained>>

\* engine.step; an exception ends the loop.
Tick(l) ==
    /\ loop[l] = "tick" /\ CountLate(l)
    /\ Advance(l, "sleep") \/ (Faulty /\ Advance(l, "dead"))
    /\ lock' = Nobody
    /\ UNCHANGED <<shared, request, pc, joining, strained>>

Wake(l) ==
    /\ loop[l] = "sleep" /\ Advance(l, "check_stop")
    /\ UNCHANGED <<shared, lock, request, pc, joining, late, strained>>

------------------------------------------------------------------------------

NewRequest(c) == \/ RequestStart(c) \/ RequestStop(c) \/ RequestStep(c) \/ RequestOrder(c)
                 \/ Pause(c) \/ Resume(c)

Proceed(c) == \/ SetStop(c) \/ Look(c) \/ Fetch(c) \/ Join(c) \/ Forget(c)
              \/ Apply(c) \/ Build(c) \/ BuildFails(c) \/ ClearFlags(c) \/ Spawn(c) \/ Run(c)

RunLoop(l) == CheckStop(l) \/ CheckPaused(l) \/ Tick(l) \/ Wake(l)

Next == \/ \E c \in Clients : NewRequest(c) \/ Proceed(c) \/ Acquire(c)
        \/ \E l \in Loops : RunLoop(l) \/ AcquireForTick(l)

Spec == Init /\ [][Next]_vars

(***************************************************************************)
(* Threads that can go on do, and whoever waits for the lock gets it: a    *)
(* holder never waits for anything and a loop sleeps between two ticks.    *)
(* Nobody has to make a request.                                           *)
(***************************************************************************)
FairSpec ==
    /\ Spec
    /\ \A c \in Clients : WF_vars(Proceed(c)) /\ SF_vars(Acquire(c))
    /\ \A l \in Loops : WF_vars(RunLoop(l)) /\ SF_vars(AcquireForTick(l))

------------------------------------------------------------------------------
(* Properties *)

(***************************************************************************)
(* After a pause a loop finishes at most the tick it had already decided   *)
(* on, however many clients start, stop, pause and step (_run_loop tests   *)
(* _paused before it waits for the lock).                                  *)
(***************************************************************************)
PauseSettles == \A l \in Loops : late[l] <= 1

(***************************************************************************)
(* There is one background thread that ticks (README_FFSim.md:696), and    *)
(* _thread is it, so that the next stop finds it: for any number of        *)
(* clients that step, order, pause and resume at any point of each other's *)
(* requests, stops that overlap, builds that fail and ticks that raise.    *)
(* Nothing of the kind holds from the moment the two seconds of a join are *)
(* over before the loop is, or a start, which tests and clears without the *)
(* lock, meets another start or a stop; it holds again once no request is  *)
(* under way and no loop lives.                                            *)
(***************************************************************************)
LoopsTakeTurns == ~strained => \A l \in Loops : Alive(l) => thread = l

(***************************************************************************)
(* README_FFSim.md:699: "Manual `/step` disabled when loop is running".    *)
(* manual_step tests that before it has the lock, and a start or a resume  *)
(* of somebody else may be faster: the engine is stepped by hand while the *)
(* loop runs.  (A property that the code does not have.)                   *)
(***************************************************************************)
ManualStepsAlone ==
    \A c \in Clients : pc[c] = "locked" /\ request[c] = "step" => ~(IsRunning /\ ~paused)

(***************************************************************************)
(* Every request is answered: stop does not wait for a loop that waits for *)
(* the lock of the start around it, and a tick that raises frees the lock. *)
(***************************************************************************)
RequestsEnd == \A c \in Clients : pc[c] # "idle" ~> pc[c] = "idle"

(***************************************************************************)
(* After a stop every loop ends, paused or not, also one whose stop gave   *)
(* up waiting for it; only a new start can keep a loop alive.              *)
(***************************************************************************)
LoopsObeyStop == stop ~> (~stop \/ \A l \in Loops : ~Alive(l))

==============================================================================
