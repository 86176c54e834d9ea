---------------------------- MODULE FrontendSession ----------------------------
(***************************************************************************)
(* The browser's session with the backend: the thunks that start, stop and *)
(* resume a simulation, the event stream a start opens and the LLM chat    *)
(* stream that hangs on it.  Between two awaits of a thunk anything else   *)
(* may happen; the backend and the simulator appear as far as these        *)
(* requests change them.                                                   *)
(*                                                                         *)
(* A start is the number of the click that asked for it and stands for the *)
(* configuration that click captured; 0 is none.  What a stream's messages *)
(* do is in SimulationView.                                                *)
(***************************************************************************)
EXTENDS Naturals, HttpClient

CONSTANTS
    MaxStarts,     \* bound on the clicks on Run
    MaxStops,      \* bound on the clicks on Stop
    Faulty         \* requests may fail, streams may break

Starts == 1..MaxStarts
Sources == 1..2    \* identities of event sources, used again when free

ASSUME SessionAssumption ==
    /\ MaxStarts \in Nat \ {0} /\ MaxStops \in Nat
    /\ Faulty \in BOOLEAN

VARIABLES
    page,                    \* the route
    isFetching,              \* serverCommunication.isFetching
    start,                   \* where each startFetchingConfigurationUpdate stands
    stream, signal,          \* its event stream, and the controller it listens to
    controller,              \* abortController, by the number of aborts before it
    chats, handle,           \* open chat sources, and what llmChatCleanup closes
    stopping,                \* stop requests on their way
    running,                 \* the start the simulator runs
    session,                 \* the start whose stream last reset the backend
    overlapped               \* for the properties: two starts were under way at once

browser == <<page, isFetching, start, stream, signal, controller>>
chat == <<chats, handle>>
services == <<stopping, running, session>>
vars == <<browser, chat, services, overlapped>>

Pending(c) == start[c] \in {"snapshot", "request", "served"}
Live(c) == stream[c] \in {"connecting", "open", "retrying"}

TypeOK ==
    /\ page \in {"main", "simulation"} /\ isFetching \in BOOLEAN
    /\ start \in [Starts -> {"none", "snapshot", "request", "served", "done"}]
    /\ stream \in [Starts -> {"none", "connecting", "open", "retrying", "ended"}]
    /\ signal \in [Starts -> 0..MaxStops] /\ controller \in 0..MaxStops
    /\ chats \in SUBSET Sources /\ handle \in Sources \cup {0}
    /\ stopping \in 0..MaxStops
    /\ running \in 0..MaxStarts /\ session \in 0..MaxStarts
    /\ overlapped \in BOOLEAN

Init ==
    /\ page = "main" /\ isFetching = FALSE
    /\ start = [c \in Starts |-> "none"] /\ stream = [c \in Starts |-> "none"]
    /\ signal = [c \in Starts |-> 0] /\ controller = 0
    /\ chats = {} /\ handle = 0
    /\ stopping = 0 /\ running = 0 /\ session = 0
    /\ overlapped = FALSE

------------------------------------------------------------------------------
(* Pages *)

SnapshotResponses ==
    {Unreachable} \cup
    {Response(status, json, [running |-> running # 0]) :
        status \in {200, 503}, json \in BOOLEAN}

\* The body as the simulator wrote it.
GetSnapshotBody(r) == Get(r)

\* getSnapshot asks the parsed body for its property data, which it has not;
\* null has no properties at all.
GetSnapshot(r) ==
    LET got == Get(r)
    IN  IF got.threw \/ got.value = Null THEN Threw("no snapshot") ELSE Returned(Null)

SaysRunning(r) ==
    LET got == GetSnapshot(r)
    IN  ~got.threw /\ got.value # Null /\ got.value.running

\* Whether the main page's mount follows a simulation that already runs.
ResumeIfRunning == ~isFetching /\ \E r \in SnapshotResponses : SaysRunning(r)

\* The browser's back button; the main page then tries to resume.
GoBack ==
    /\ page = "simulation"
    /\ page' = "main"
    /\ isFetching' = (isFetching \/ ResumeIfRunning)
    /\ UNCHANGED <<start, stream, signal, controller, chat, services, overlapped>>

GoForward ==
    /\ page = "main"
    /\ page' = "simulation"
    /\ UNCHANGED <<isFetching, start, stream, signal, controller, chat, services, overlapped>>

------------------------------------------------------------------------------
(* Starting *)

\* Run simulation: the thunk tests isFetching once, before its first await.
ClickRun(c) ==
    /\ page = "main" /\ start[c] = "none" /\ \A d \in 1..(c - 1) : start[d] # "none"
    /\ page' = "simulation"
    /\ start' = [start EXCEPT ![c] = IF isFetching THEN "done" ELSE "snapshot"]
    /\ overlapped' = (overlapped \/ (~isFetching /\ \E d \in Starts : Pending(d)))
    /\ UNCHANGED <<isFetching, stream, signal, controller, chat, services>>

\* getSnapshot comes back or fails.  Only a snapshot of a running simulation
\* would spare the request.
SnapshotAnswered(c) ==
    /\ start[c] = "snapshot"
    /\ \E r \in SnapshotResponses :
          start' = [start EXCEPT ![c] = IF SaysRunning(r) THEN "served" ELSE "request"]
    /\ UNCHANGED <<page, isFetching, stream, signal, controller, chat, services, overlapped>>

\* send-simulation-request reaches the simulator, which starts anew.
StartServed(c) ==
    /\ start[c] = "request"
    /\ start' = [start EXCEPT ![c] = "served"]
    /\ running' = c
    /\ UNCHANGED <<page, isFetching, stream, signal, controller, chat,
                   stopping, session, overlapped>>

\* What the browser may learn of a request the simulator was sent.
StartResponses ==
    {Response(200, FALSE, Null)} \cup
    (IF Faulty THEN {Unreachable, Response(503, FALSE, Null)} ELSE {})

\* The stream is opened with the controller of this moment.
StartAnswered(c) ==
    /\ start[c] = "served"
    /\ \E r \in StartResponses : ~Post(r).threw
    /\ start' = [start EXCEPT ![c] = "done"]
    /\ isFetching' = TRUE
    /\ stream' = [stream EXCEPT ![c] = "connecting"]
    /\ signal' = [signal EXCEPT ![c] = controller]
    /\ UNCHANGED <<page, controller, chat, services, overlapped>>

\* The request or its answer is lost, or the simulator refuses.
StartFails(c) ==
    /\ start[c] \in {"request", "served"}
    /\ \E r \in StartResponses : Post(r).threw
    /\ start' = [start EXCEPT ![c] = "done"]
    /\ isFetching' = FALSE
    /\ UNCHANGED <<page, stream, signal, controller, chat, services, overlapped>>

------------------------------------------------------------------------------
(* The event stream and the chat stream *)

\* Without the test for a previous stream.
StartChatBeside ==
    LET new == CHOOSE s \in Sources : s \notin chats \/ s = 2
    IN  chats' = chats \cup {new} /\ handle' = new

\* startLLMChatStream: the previous source is closed before a new one opens.
StartChat ==
    LET closed == chats \ {handle}
        new == CHOOSE s \in Sources : s \notin closed
    IN  chats' = closed \cup {new} /\ handle' = new

StopChat == chats' = chats \ {handle} /\ handle' = 0

\* run-simulation resets the backend before the first message, onopen follows.
StreamOpens(c) ==
    /\ stream[c] = "connecting"
    /\ stream' = [stream EXCEPT ![c] = "open"]
    /\ session' = c
    /\ isFetching' = TRUE
    /\ StartChat
    /\ UNCHANGED <<page, start, signal, controller, stopping, running,
                   overlapped>>

\* onerror returns, so the library posts run-simulation again after a while.
\* A request that is cut off may have reset the backend.
StreamBreaks(c) ==
    /\ Faulty /\ stream[c] \in {"connecting", "open"}
    /\ stream' = [stream EXCEPT ![c] = "retrying"]
    /\ session' \in {session, c}
    /\ UNCHANGED <<page, isFetching, start, signal, controller, chat, stopping,
                   running, overlapped>>

StreamRetriesShown(c) ==
    /\ stream[c] = "retrying" /\ page = "simulation"
    /\ stream' = [stream EXCEPT ![c] = "connecting"]
    /\ UNCHANGED <<page, isFetching, start, signal, controller, chat, services, overlapped>>

StreamRetries(c) ==
    /\ stream[c] = "retrying"
    /\ stream' = [stream EXCEPT ![c] = "connecting"]
    /\ UNCHANGED <<page, isFetching, start, signal, controller, chat,
                   services, overlapped>>

\* onclose, after the last message or after a response that is not ok:
\* isFetching stays, because the current controller is never an aborted one.
StreamCloses(c) ==
    /\ Faulty /\ stream[c] \in {"connecting", "open"}
    /\ stream' = [stream EXCEPT ![c] = "ended"]
    /\ StopChat
    /\ UNCHANGED <<page, isFetching, start, signal, controller, services,
                   overlapped>>

\* An error of the chat closes its source and leaves the handle.
ChatBreaks ==
    /\ Faulty /\ \E s \in chats : chats' = chats \ {s}
    /\ UNCHANGED <<browser, handle, services, overlapped>>

------------------------------------------------------------------------------
(* Stopping *)

\* Replacing the controller comes first.
AbortReplaced ==
    /\ controller' = controller + 1
    /\ stream' = [c \in Starts |->
                    IF Live(c) /\ signal[c] = controller' THEN "ended" ELSE stream[c]]
    /\ isFetching' = FALSE

\* The streams of the current controller end without onclose.
AbortConnection ==
    /\ stream' = [c \in Starts |->
                    IF Live(c) /\ signal[c] = controller THEN "ended" ELSE stream[c]]
    /\ controller' = controller + 1
    /\ isFetching' = FALSE

\* Stop simulation: the request is sent only while isFetching; nobody waits
\* for its answer.
ClickStop ==
    /\ page = "simulation" /\ controller < MaxStops
    /\ stopping' = IF isFetching THEN stopping + 1 ELSE stopping
    /\ page' = "main"
    /\ AbortConnection
    /\ session' \in {session} \cup {c \in Starts : stream[c] = "connecting"}
    /\ UNCHANGED <<start, signal, chat, running, overlapped>>

\* A stop request ends whatever runs when it arrives.
StopServed ==
    /\ stopping > 0
    /\ stopping' = stopping - 1
    /\ running' = 0
    /\ UNCHANGED <<browser, chat, session, overlapped>>

StopLost ==
    /\ Faulty /\ stopping > 0
    /\ stopping' = stopping - 1
    /\ UNCHANGED <<browser, chat, running, session, overlapped>>

------------------------------------------------------------------------------
Next ==
    \/ GoBack \/ GoForward
    \/ \E c \in Starts :
         \/ ClickRun(c) \/ SnapshotAnswered(c) \/ StartServed(c)
         \/ StartAnswered(c) \/ StartFails(c)
         \/ StreamOpens(c) \/ StreamBreaks(c) \/ StreamRetries(c) \/ StreamCloses(c)
    \/ ChatBreaks
    \/ ClickStop \/ StopServed \/ StopLost

Spec == Init /\ [][Next]_vars

\* Requests are answered one way or the other and a stream is retried; the
\* backend is reachable again and again.  Clicks and faults are not fair.
FairSpec ==
    /\ Spec
    /\ \A c \in Starts :
         /\ WF_vars(SnapshotAnswered(c)) /\ WF_vars(StartServed(c))
         /\ WF_vars(StartAnswered(c) \/ StartFails(c))
         /\ WF_vars(StreamRetries(c)) /\ SF_vars(StreamOpens(c))

------------------------------------------------------------------------------
(* Properties *)

\* What is not yet ended listens to the controller the next stop aborts, so
\* that no stream outlives a click on Stop, however starts and stops interleave
\* (startSseConnection, abortConnection).
StopReachesStreams == \A c \in Starts : Live(c) => signal[c] = controller

\* As long as no two starts are under way at once, an open stream shows a
\* backend that was reset for its own start, and the simulator runs that start
\* or none: late answers and stops of an earlier run never mix two runs
\* (startFetchingConfigurationUpdate, sendStopRequest).
SessionIsOfRun ==
    \A c \in Starts :
       stream[c] = "open" /\ ~overlapped => session = c /\ running \in {0, c}

\* Every open chat source is the one the next cleanup closes (startLLMChatStream).
ChatIsHeld == chats \subseteq {handle}

\* A start the simulator has accepted is followed by an open stream, unless the
\* answer is lost or the operator stops (onerror, the library's retry).
StartsAreFollowed ==
    \A c \in Starts :
       (start[c] = "served" \/ stream[c] = "retrying")
          ~> (stream[c] \in {"open", "ended"} \/ (start[c] = "done" /\ stream[c] = "none"))

\* The backend's state is reset by a start, not in the middle of a run
\* (SimulationStateService.runSimulation): a stream that opens is the first of
\* its start.  The code does not keep this one: a stream that is retried resets
\* the backend again.
ResetsAreStarts ==
    [][\A c \in Starts : stream[c] = "connecting" /\ stream'[c] = "open" => session # c]_vars
================================================================================
