--------------------------- MODULE EngineHost_proofs ---------------------------
(***************************************************************************)
(* Proofs about EngineHost, for any clients and any number of starts: a    *)
(* pause settles, and loops take turns.                                    *)
(***************************************************************************)
EXTENDS EngineHost, TLAPS

(***************************************************************************)
(* The steps that change neither the loops nor what a pause looks at.      *)
(***************************************************************************)
QuietProceed(c) == Look(c) \/ Fetch(c) \/ Join(c) \/ Forget(c) \/ Apply(c)
                   \/ Build(c) \/ BuildFails(c) \/ Spawn(c)

\* A step of Proceed is quiet, or sets the flags or starts a loop.
LEMMA ProceedCases ==
    ASSUME NEW c \in Clients, Proceed(c)
    PROVE  QuietProceed(c) \/ SetStop(c) \/ ClearFlags(c) \/ Run(c)
BY DEF Proceed, QuietProceed

(***************************************************************************)
(* TypeOK in two parts: the flags, and everything else.                    *)
(***************************************************************************)
FlagsOK == stop \in BOOLEAN /\ paused \in BOOLEAN /\ strained \in BOOLEAN

ThreadsOK ==
    /\ lock \in Clients \cup Loops \cup {Nobody}
    /\ thread \in 0..MaxStarts /\ started \in 0..MaxStarts
    /\ manager \in 0..MaxStarts /\ engine \in 0..MaxStarts
    /\ loop \in [Loops -> LoopPC]
    /\ request \in [Clients -> {"none", "start", "stop", "step", "order"}]
    /\ pc \in [Clients -> ClientPC]
    /\ joining \in [Clients -> 0..MaxStarts]
    /\ late \in [Loops -> 0..2]

\* TypeOK in two parts, of which most steps disturb one.
LEMMA TypeParts == TypeOK <=> FlagsOK /\ ThreadsOK
BY DEF TypeOK, FlagsOK, ThreadsOK

\* The initial state is well typed.
LEMMA InitTypeOK == Init => TypeOK
<1>1. Init => FlagsOK
  BY DEF Init, FlagsOK
<1>2. Init => ThreadsOK
  BY HostAssumption DEF Init, ThreadsOK, Loops, LoopPC, ClientPC
<1>3. QED  BY <1>1, <1>2, TypeParts

\* Flags are only ever set to a truth value.
LEMMA StepFlagsOK ==
    ASSUME FlagsOK, Next
    PROVE  FlagsOK'
<1>1. ASSUME NEW c \in Clients, NewRequest(c)
      PROVE  FlagsOK'
  BY <1>1
  DEF NewRequest, RequestStart, RequestStop, RequestStep, RequestOrder, Ask, Pause,
      Resume, SetPaused, shared, FlagsOK
<1>2. ASSUME NEW c \in Clients, Proceed(c) \/ Acquire(c)
      PROVE  FlagsOK'
  BY <1>2
  DEF Proceed, SetStop, Look, Fetch, Join, Forget, Apply, Build, BuildFails,
      ClearFlags, Spawn, Run, Acquire, SetPaused, shared, FlagsOK
<1>3. ASSUME NEW l \in Loops, RunLoop(l) \/ AcquireForTick(l)
      PROVE  FlagsOK'
  BY <1>3
  DEF RunLoop, CheckStop, CheckPaused, Tick, Wake, AcquireForTick, shared, FlagsOK
<1>4. QED  BY <1>1, <1>2, <1>3 DEF Next

\* A request by a client that is idle keeps the types.
LEMMA RequestTyped ==
    ASSUME ThreadsOK, NEW c \in Clients, NewRequest(c)
    PROVE  ThreadsOK'
<1>1. ASSUME NEW what \in {"start", "stop", "step", "order"},
             NEW next \in {"stop", "acquire"}, Ask(c, what, next)
      PROVE  ThreadsOK'
  BY <1>1 DEF ThreadsOK, Ask, shared, ClientPC
<1>2. ASSUME Pause(c) \/ Resume(c)
      PROVE  ThreadsOK'
  <2>1. late' \in [Loops -> 0..2]
    BY <1>2 DEF ThreadsOK, Pause, Resume, SetPaused
  <2>2. QED  BY <1>2, <2>1 DEF ThreadsOK, Pause, Resume
<1>3. QED
  BY <1>1, <1>2 DEF NewRequest, RequestStart, RequestStop, RequestStep, RequestOrder

\* What a client does on its way keeps the types.
LEMMA ProceedTyped ==
    ASSUME ThreadsOK, NEW c \in Clients, Proceed(c) \/ Acquire(c)
    PROVE  ThreadsOK'
<1>1. CASE SetStop(c) \/ ClearFlags(c)
  <2>1. late' \in [Loops -> 0..2]
    BY <1>1 DEF ThreadsOK, SetStop, ClearFlags, SetPaused
  <2>2. QED  BY <1>1, <2>1 DEF SetStop, ClearFlags, Goto, ThreadsOK, ClientPC
<1>2. CASE Look(c) \/ Fetch(c) \/ Join(c) \/ Forget(c)
  BY <1>2, HostAssumption
  DEF Look, Fetch, Join, Forget, Goto, Answer, ThreadsOK, shared, ClientPC
<1>3. CASE Acquire(c) \/ Apply(c)
  BY <1>3 DEF Acquire, Apply, Goto, Answer, ThreadsOK, shared, ClientPC
<1>4. CASE Build(c) \/ BuildFails(c)
  BY <1>4, HostAssumption
  DEF Build, BuildFails, Goto, Answer, ThreadsOK, ClientPC
<1>5. CASE Spawn(c) \/ Run(c)
  BY <1>5 DEF Spawn, Run, Goto, Answer, ThreadsOK, shared, Loops, ClientPC, LoopPC
<1>6. QED  BY <1>1, <1>2, <1>3, <1>4, <1>5 DEF Proceed

\* A loop's step keeps the types.
LEMMA LoopTyped ==
    ASSUME ThreadsOK, NEW l \in Loops, RunLoop(l) \/ AcquireForTick(l)
    PROVE  ThreadsOK'
<1>1. CASE CheckStop(l) \/ CheckPaused(l) \/ AcquireForTick(l) \/ Wake(l)
  BY <1>1 DEF CheckStop, CheckPaused, AcquireForTick, Wake, Advance, ThreadsOK, shared, LoopPC
<1>2. CASE Tick(l)
  <2>1. late' \in [Loops -> 0..2]
    BY <1>2 DEF Tick, CountLate, ThreadsOK
  <2>2. QED  BY <1>2, <2>1 DEF Tick, Advance, ThreadsOK, shared, LoopPC
<1>3. QED  BY <1>1, <1>2 DEF RunLoop

\* Together: a step of any thread keeps the types.
LEMMA StepTypeOK ==
    ASSUME TypeOK, Next
    PROVE  TypeOK'
<1>1. FlagsOK'
  BY TypeParts, StepFlagsOK
<1>2. ThreadsOK'
  BY TypeParts, RequestTyped, ProceedTyped, LoopTyped DEF Next
<1>3. QED  BY <1>1, <1>2, TypeParts DEF TypeOK, FlagsOK, ThreadsOK

(***************************************************************************)
(* Every variable of the host keeps its type: the numbers of managers,     *)
(* engines and loops stay within the starts there were.                    *)
(***************************************************************************)
THEOREM TypeCorrect == Spec => []TypeOK
<1>1. TypeOK /\ [Next]_vars => TypeOK'
  <2>1. ASSUME TypeOK, Next  PROVE TypeOK'
    BY <2>1, StepTypeOK
  <2>2. ASSUME TypeOK, UNCHANGED vars  PROVE TypeOK'
    BY <2>2 DEF TypeOK, vars, shared
  <2>3. QED  BY <2>1, <2>2
<1>2. QED  BY InitTypeOK, <1>1, PTL DEF Spec

------------------------------------------------------------------------------

(***************************************************************************)
(* Late ticks belong to a pause, and a loop that finished one has not got  *)
(* past the test of _paused again.                                         *)
(***************************************************************************)
LateInv ==
    /\ TypeOK
    /\ ~paused => \A l \in Loops : late[l] = 0
    /\ \A l \in Loops : late[l] # 0 => late[l] = 1 /\ loop[l] \notin {"acquire", "tick"}

\* Clients end late ticks, start loops at the top or leave both alone.
LEMMA ClientLate ==
    ASSUME LateInv, NEW c \in Clients, NewRequest(c) \/ Proceed(c) \/ Acquire(c), TypeOK'
    PROVE  LateInv'
<1>1. CASE NewRequest(c)
  BY <1>1
  DEF NewRequest, RequestStart, RequestStop, RequestStep, RequestOrder, Ask, Pause,
      Resume, SetPaused, shared, LateInv
<1>2. CASE QuietProceed(c) \/ Acquire(c)
  BY <1>2
  DEF QuietProceed, Look, Fetch, Join, Forget, Apply, Build, BuildFails, Spawn, Acquire,
      shared, LateInv
<1>3. CASE SetStop(c) \/ ClearFlags(c)
  BY <1>3 DEF SetStop, ClearFlags, SetPaused, LateInv
<1>4. CASE Run(c)
  BY <1>4 DEF Run, shared, LateInv, TypeOK, Loops
<1>5. QED  BY <1>1, <1>2, <1>3, <1>4, ProceedCases

\* A loop that has finished a late tick finds _paused set and goes round.
LEMMA LoopLate ==
    ASSUME LateInv, NEW l \in Loops, RunLoop(l) \/ AcquireForTick(l), TypeOK'
    PROVE  LateInv'
<1>1. CASE CheckStop(l) \/ CheckPaused(l) \/ Wake(l) \/ AcquireForTick(l)
  BY <1>1
  DEF CheckStop, CheckPaused, Wake, AcquireForTick, Advance, shared, LateInv, TypeOK
<1>2. CASE Tick(l)
  BY <1>2 DEF Tick, CountLate, Advance, shared, LateInv, TypeOK
<1>3. QED  BY <1>1, <1>2 DEF RunLoop

(***************************************************************************)
(* Whatever any number of clients do, a loop finishes at most one tick     *)
(* after a pause.                                                          *)
(***************************************************************************)
THEOREM PausesSettle == Spec => []PauseSettles
<1>1. Init => LateInv
  BY InitTypeOK DEF Init, LateInv
<1>2. LateInv /\ [Next]_vars => LateInv'
  <2>1. ASSUME LateInv, Next  PROVE LateInv'
    BY <2>1, ClientLate, LoopLate, StepTypeOK DEF Next, LateInv
  <2>2. ASSUME LateInv, UNCHANGED vars  PROVE LateInv'
    BY <2>2 DEF LateInv, TypeOK, vars, shared
  <2>3. QED  BY <2>1, <2>2
<1>3. LateInv => PauseSettles
  BY DEF LateInv, PauseSettles, TypeOK
<1>4. QED  BY <1>1, <1>2, <1>3, PTL DEF Spec

------------------------------------------------------------------------------

(***************************************************************************)
(* Whoever is not idle has asked for something, and where it stands tells  *)
(* for what.                                                               *)
(***************************************************************************)
PlaceInv ==
    \A c \in Clients :
        /\ pc[c] = "idle" <=> request[c] = "none"
        /\ pc[c] \in {"stop", "look", "fetch", "join", "forget"} =>
               request[c] \in {"start", "stop"}
        /\ pc[c] \in {"clear", "spawn", "run"} => request[c] = "start" /\ started \in Loops

NoLoop == \A l \in Loops : ~Alive(l)

Starting(c) == request[c] = "start" /\ pc[c] \in {"acquire", "locked", "clear", "spawn", "run"}

(***************************************************************************)
(* A live loop is the one of _thread; a stop that has waited, and a start  *)
(* that is past its stop, find none; a start meets no start and no stop.   *)
(* Two stops may meet: the one that waits when the other forgets the loop  *)
(* waits for a loop that is dead.                                          *)
(***************************************************************************)
TurnInv ==
    /\ \A l \in Loops : Alive(l) => thread = l
    /\ \A c, d \in Clients :
           c # d /\ request[c] = "start" => request[d] \notin {"start", "stop"}
    /\ \A c \in Clients :
           /\ pc[c] = "forget" \/ Starting(c) => NoLoop
           /\ pc[c] = "join" => NoLoop \/ joining[c] = thread
           /\ pc[c] = "run" => thread = started

LoopInv == TypeOK /\ PlaceInv /\ (~strained => TurnInv)

\* Clients go from place to place within one request.
LEMMA ClientPlace ==
    ASSUME TypeOK, PlaceInv, NEW c \in Clients, NewRequest(c) \/ Proceed(c) \/ Acquire(c)
    PROVE  PlaceInv'
<1>1. ASSUME NEW what \in {"start", "stop", "step", "order"}, NEW next \in {"stop", "acquire"},
             Ask(c, what, next), next = "stop" => what \in {"start", "stop"}
      PROVE  PlaceInv'
  BY <1>1 DEF Ask, shared, PlaceInv, TypeOK
<1>2. CASE Pause(c) \/ Resume(c)
  BY <1>2 DEF Pause, Resume, PlaceInv
<1>3. CASE SetStop(c) \/ Look(c) \/ Fetch(c) \/ Join(c) \/ Forget(c)
  BY <1>3, ZenonT(60)
  DEF SetStop, Look, Fetch, Join, Forget, Goto, Answer, shared, PlaceInv, TypeOK
<1>4. CASE Acquire(c) \/ Apply(c) \/ ClearFlags(c) \/ Spawn(c) \/ Run(c)
  BY <1>4, ZenonT(60)
  DEF Acquire, Apply, ClearFlags, Spawn, Run, Goto, Answer, shared, PlaceInv, TypeOK
<1>5. CASE Build(c) \/ BuildFails(c)
  BY <1>5, HostAssumption
  DEF Build, BuildFails, Goto, Answer, PlaceInv, TypeOK, Loops
<1>6. QED
  BY <1>1, <1>2, <1>3, <1>4, <1>5
  DEF NewRequest, RequestStart, RequestStop, RequestStep, RequestOrder, Proceed

\* A request that leaves the host unstrained finds it at rest, or unstrained
\* and nobody in its way.
LEMMA AskTurn ==
    ASSUME LoopInv, NEW c \in Clients, ~strained',
           NEW what \in {"start", "stop", "step", "order"}, NEW next \in {"stop", "acquire"},
           Ask(c, what, next), what = "start" /\ next = "acquire" => ~IsRunning
    PROVE  TurnInv'
<1>1. pc[c] = "idle" /\ request[c] = "none" /\ UNCHANGED <<thread, loop, started, joining>>
  BY DEF Ask, shared, LoopInv, PlaceInv
<1>2. TurnInv
  <2>1. CASE AtRest
    BY <2>1 DEF AtRest, LoopInv, PlaceInv, TurnInv, NoLoop, Starting
  <2>2. CASE ~AtRest
    BY <2>2 DEF Ask, LoopInv
  <2>3. QED  BY <2>1, <2>2
<1>3. \A d \in Clients : d # c =>
        /\ what = "start" => request[d] \notin {"start", "stop"}
        /\ what = "stop" => request[d] # "start"
  <2>1. CASE AtRest
    BY <2>1 DEF AtRest, LoopInv, PlaceInv
  <2>2. CASE ~AtRest
    BY <2>2 DEF Ask, Crosses
  <2>3. QED  BY <2>1, <2>2
<1>4. /\ request'[c] = what /\ pc'[c] = next
      /\ \A d \in Clients : d # c => request'[d] = request[d] /\ pc'[d] = pc[d]
  BY DEF Ask, LoopInv, TypeOK
<1>5. what = "start" /\ next = "acquire" => NoLoop
  BY <1>2 DEF TurnInv, NoLoop, IsRunning
<1>6. QED  BY <1>1, <1>2, <1>3, <1>4, <1>5 DEF TurnInv, NoLoop, Starting, Alive

\* What a client does on its way, from an unstrained host to one.
LEMMA ProceedTurn ==
    ASSUME LoopInv, NEW c \in Clients, TurnInv, ~strained',
           Proceed(c) \/ Acquire(c)
    PROVE  TurnInv'
<1>1. CASE SetStop(c)
  <2>1. /\ pc'[c] = "look" /\ UNCHANGED <<loop, thread, started, joining, request>>
        /\ \A d \in Clients : d # c => pc'[d] = pc[d]
    BY <1>1 DEF SetStop, Goto, LoopInv, TypeOK
  <2>2. QED  BY <2>1 DEF TurnInv, NoLoop, Starting, Alive
<1>2. CASE Look(c)
  <2>1. /\ pc'[c] \in {"forget", "fetch"} /\ (pc'[c] = "forget" => thread = 0)
        /\ UNCHANGED <<loop, thread, started, joining, request>>
        /\ \A d \in Clients : d # c => pc'[d] = pc[d]
    BY <1>2 DEF Look, Goto, LoopInv, TypeOK, shared
  <2>2. thread = 0 => NoLoop
    BY DEF TurnInv, NoLoop, Loops
  <2>3. QED  BY <2>1, <2>2 DEF TurnInv, NoLoop, Starting, Alive
<1>3. CASE Fetch(c)
  <2>1. /\ pc'[c] \in {"idle", "join"} /\ (pc'[c] = "join" => joining'[c] = thread)
        /\ request'[c] \in {"none", request[c]}
        /\ UNCHANGED <<loop, thread, started>>
        /\ \A d \in Clients : d # c =>
             pc'[d] = pc[d] /\ joining'[d] = joining[d] /\ request'[d] = request[d]
    BY <1>3 DEF Fetch, Goto, Answer, LoopInv, TypeOK, shared
  <2>2. QED  BY <2>1 DEF TurnInv, NoLoop, Starting, Alive
<1>4. CASE Join(c)
  <2>1. /\ pc'[c] \in {"idle", "forget"} /\ request'[c] \in {"none", request[c]}
        /\ UNCHANGED <<loop, thread, started>>
        /\ \A d \in Clients : d # c =>
             pc'[d] = pc[d] /\ joining'[d] = joining[d] /\ request'[d] = request[d]
    BY <1>4 DEF Join, Goto, Answer, LoopInv, TypeOK, shared
  <2>2. ~Alive(joining[c]) /\ pc[c] = "join"
    BY <1>4 DEF Join
  <2>3. NoLoop
    BY <2>2 DEF TurnInv, NoLoop
  <2>4. QED  BY <2>1, <2>3 DEF TurnInv, NoLoop, Starting, Alive
<1>5. CASE Forget(c)
  <2>1. /\ pc[c] = "forget" /\ request[c] \in {"start", "stop"}
        /\ pc'[c] \in {"idle", "acquire"} /\ request'[c] \in {"none", request[c]}
        /\ UNCHANGED <<loop, started, joining>>
        /\ \A d \in Clients : d # c => pc'[d] = pc[d] /\ request'[d] = request[d]
    BY <1>5 DEF Forget, Goto, Answer, LoopInv, TypeOK, PlaceInv
  <2>2. NoLoop
    BY <2>1 DEF TurnInv
  <2>3. \A d \in Clients : d # c => pc[d] # "run"
    BY <2>1 DEF TurnInv, LoopInv, PlaceInv
  <2>4. QED  BY <2>1, <2>2, <2>3 DEF TurnInv, NoLoop, Starting, Alive
<1>6. CASE Acquire(c) \/ Apply(c) \/ ClearFlags(c)
  <2>1. /\ UNCHANGED <<loop, thread, started, joining>>
        /\ \/ pc'[c] = "idle" /\ request'[c] = "none"
           \/ /\ request'[c] = request[c]
              /\ \/ pc[c] = "acquire" /\ pc'[c] = "locked"
                 \/ pc[c] = "clear" /\ pc'[c] = "spawn"
        /\ \A d \in Clients : d # c => pc'[d] = pc[d] /\ request'[d] = request[d]
    BY <1>6 DEF Acquire, Apply, ClearFlags, Goto, Answer, LoopInv, TypeOK, shared
  <2>2. QED  BY <2>1 DEF TurnInv, NoLoop, Starting, Alive
<1>7. CASE Build(c) \/ BuildFails(c)
  <2>1. /\ UNCHANGED <<loop, thread, joining>> /\ request[c] = "start"
        /\ \/ pc'[c] = "idle" /\ request'[c] = "none"
           \/ request'[c] = request[c] /\ pc[c] = "locked" /\ pc'[c] = "clear"
        /\ \A d \in Clients : d # c => pc'[d] = pc[d] /\ request'[d] = request[d]
    BY <1>7 DEF Build, BuildFails, Goto, Answer, LoopInv, TypeOK
  <2>2. \A d \in Clients : d # c => pc[d] # "run"
    BY <2>1 DEF TurnInv, LoopInv, PlaceInv
  <2>3. QED  BY <2>1, <2>2 DEF TurnInv, NoLoop, Starting, Alive
<1>8. CASE Spawn(c)
  <2>1. /\ UNCHANGED <<loop, joining, request, started>>
        /\ pc[c] = "spawn" /\ pc'[c] = "run" /\ thread' = started /\ request[c] = "start"
        /\ \A d \in Clients : d # c => pc'[d] = pc[d]
    BY <1>8 DEF Spawn, Goto, LoopInv, TypeOK, PlaceInv
  <2>2. NoLoop
    BY <2>1 DEF TurnInv, Starting
  <2>3. \A d \in Clients : d # c => pc[d] \notin {"run", "join"}
    BY <2>1 DEF TurnInv, LoopInv, PlaceInv
  <2>4. QED  BY <2>1, <2>2, <2>3 DEF TurnInv, NoLoop, Starting, Alive
<1>9. CASE Run(c)
  <2>1. /\ UNCHANGED <<thread, joining, started>> /\ pc[c] = "run" /\ request[c] = "start"
        /\ pc'[c] = "idle" /\ request'[c] = "none" /\ started \in Loops
        /\ \A d \in Clients : d # c => pc'[d] = pc[d] /\ request'[d] = request[d]
    BY <1>9 DEF Run, Answer, LoopInv, TypeOK, PlaceInv, shared
  <2>2. thread = started /\ NoLoop
    BY <2>1 DEF TurnInv, Starting
  <2>3. \A l \in Loops : l # thread => loop'[l] = loop[l]
    BY <1>9 DEF Run, LoopInv, TypeOK
  <2>4. \A d \in Clients : d # c =>
          /\ request[d] \notin {"start", "stop"}
          /\ pc[d] \notin {"forget", "join", "run"} /\ ~Starting(d)
    BY <2>1 DEF TurnInv, LoopInv, PlaceInv, Starting
  <2>5. QED  BY <2>1, <2>2, <2>3, <2>4 DEF TurnInv, NoLoop, Starting, Alive
<1>10. QED
  BY <1>1, <1>2, <1>3, <1>4, <1>5, <1>6, <1>7, <1>8, <1>9 DEF Proceed

\* A client's step keeps the invariant.
LEMMA ClientLoop ==
    ASSUME LoopInv, TypeOK', NEW c \in Clients, NewRequest(c) \/ Proceed(c) \/ Acquire(c)
    PROVE  LoopInv'
<1>1. PlaceInv'
  BY ClientPlace DEF LoopInv
<1>2. ASSUME ~strained'  PROVE TurnInv'
  <2>1. CASE Pause(c) \/ Resume(c)
    BY <1>2, <2>1 DEF Pause, Resume, LoopInv, TurnInv, NoLoop, Starting, Alive
  <2>2. CASE NewRequest(c) /\ ~(Pause(c) \/ Resume(c))
    BY <1>2, <2>2, AskTurn
    DEF NewRequest, RequestStart, RequestStop, RequestStep, RequestOrder
  <2>3. CASE Proceed(c) \/ Acquire(c)
    <3>1. ~strained
      BY <1>2, <2>3
      DEF Proceed, SetStop, Look, Fetch, Join, Forget, Apply, Build, BuildFails,
          ClearFlags, Spawn, Run, Acquire, LoopInv, TypeOK
    <3>2. QED  BY <1>2, <2>3, <3>1, ProceedTurn DEF LoopInv
  <2>4. QED  BY <2>1, <2>2, <2>3
<1>3. QED  BY <1>1, <1>2 DEF LoopInv

\* A loop's step starts no loop and moves no client.
LEMMA LoopLoop ==
    ASSUME LoopInv, TypeOK', NEW l \in Loops, RunLoop(l) \/ AcquireForTick(l)
    PROVE  LoopInv'
<1>1. /\ UNCHANGED <<thread, started, request, pc, joining, strained>>
      /\ \A k \in Loops : Alive(k)' => Alive(k)
  BY DEF RunLoop, CheckStop, CheckPaused, Tick, Wake, AcquireForTick, Advance, shared,
         Alive, LoopInv, TypeOK
<1>2. PlaceInv'
  BY <1>1 DEF LoopInv, PlaceInv
<1>3. QED  BY <1>1, <1>2 DEF LoopInv, TurnInv, NoLoop, Starting

(***************************************************************************)
(* Whatever any number of clients do, through failed builds and raising    *)
(* ticks: a loop that lives is the one the next stop finds, unless a join  *)
(* gave up or a start met a start or a stop since the host last rested.    *)
(***************************************************************************)
THEOREM LoopsAreOne == Spec => []LoopsTakeTurns
<1>1. Init => LoopInv
  BY InitTypeOK DEF Init, LoopInv, PlaceInv, TurnInv, NoLoop, Starting, Alive
<1>2. LoopInv /\ [Next]_vars => LoopInv'
  <2>1. ASSUME LoopInv, Next  PROVE LoopInv'
    BY <2>1, ClientLoop, LoopLoop, StepTypeOK DEF Next, LoopInv
  <2>2. ASSUME LoopInv, UNCHANGED vars  PROVE LoopInv'
    BY <2>2
    DEF LoopInv, TypeOK, PlaceInv, TurnInv, vars, shared, Alive, NoLoop, Starting
  <2>3. QED  BY <2>1, <2>2
<1>3. LoopInv => LoopsTakeTurns
  BY DEF LoopInv, TurnInv, LoopsTakeTurns
<1>4. QED  BY <1>1, <1>2, <1>3, PTL DEF Spec

==============================================================================
