------------------------- MODULE FrontendSession_proofs -------------------------
(***************************************************************************)
(* Proofs about FrontendSession, for any number of starts and stops, with  *)
(* and without faults: a stop reaches every stream that is not ended, the  *)
(* chat source that is open is the one that is held, and as long as starts *)
(* do not overlap an open stream is the session of the run that goes on.   *)
(***************************************************************************)
EXTENDS FrontendSession, TLAPS

\* No answer makes getSnapshot say that a simulation runs: whatever it returns
\* has lost the body (getSnapshot).
LEMMA SnapshotSaysNothing == \A r : ~SaysRunning(r)
<1>1. ASSUME NEW r, ~GetSnapshot(r).threw
      PROVE  GetSnapshot(r).value = Null
  <2>1. CASE Get(r).threw \/ Get(r).value = Null
    BY <2>1, <1>1 DEF GetSnapshot, Threw
  <2>2. CASE ~(Get(r).threw \/ Get(r).value = Null)
    BY <2>2 DEF GetSnapshot, Returned
  <2>3. QED  BY <2>1, <2>2
<1>2. QED  BY <1>1 DEF SaysRunning

\* So the mount of the main page resumes nothing.
LEMMA NothingToResume == ~ResumeIfRunning
BY SnapshotSaysNothing DEF ResumeIfRunning

(***************************************************************************)
(* TypeOK leaves open why no more stop requests are under way than stops   *)
(* have been clicked.                                                      *)
(***************************************************************************)
StopsCounted == stopping <= controller

ChatIInv == TypeOK /\ StopsCounted /\ ChatIsHeld

\* Nothing has been clicked and nothing is open at first.
LEMMA InitChat == Init => ChatIInv
<1> SUFFICES ASSUME Init PROVE ChatIInv
  OBVIOUS
<1>1. TypeOK
  <2>1. /\ start \in [Starts -> {"none", "snapshot", "request", "served", "done"}]
        /\ stream \in [Starts -> {"none", "connecting", "open", "retrying", "ended"}]
    BY DEF Init
  <2>2. signal \in [Starts -> 0..MaxStops]
    BY SessionAssumption DEF Init
  <2>3. /\ controller \in 0..MaxStops /\ stopping \in 0..MaxStops
        /\ running \in 0..MaxStarts /\ session \in 0..MaxStarts
    BY SessionAssumption DEF Init
  <2>4. QED  BY <2>1, <2>2, <2>3 DEF Init, TypeOK
<1>2. StopsCounted /\ ChatIsHeld
  BY DEF Init, StopsCounted, ChatIsHeld
<1>3. QED  BY <1>1, <1>2 DEF ChatIInv

\* The source that StartChat opens is the only one, and one of the two.
LEMMA OneChat ==
    ASSUME ChatIsHeld, StartChat
    PROVE  chats' \subseteq {handle'} /\ handle' \in Sources
<1>1. chats \ {handle} = {}
  BY DEF ChatIsHeld
<1>2. PICK new : new = (CHOOSE s \in Sources : s \notin chats \ {handle})
  OBVIOUS
<1>3. new \in Sources
  BY <1>1, <1>2 DEF Sources
<1>4. chats' = (chats \ {handle}) \cup {new} /\ handle' = new
  BY <1>2 DEF StartChat
<1>5. QED  BY <1>1, <1>3, <1>4

\* Every step keeps the types, the count and the held source.
LEMMA ChatStep ==
    ASSUME ChatIInv, [Next]_vars
    PROVE  ChatIInv'
<1> USE DEF ChatIInv
<1>1. CASE GoBack
  <2>1. isFetching' \in BOOLEAN
    BY <1>1 DEF GoBack
  <2>2. QED  BY <1>1, <2>1 DEF GoBack, TypeOK, StopsCounted, ChatIsHeld, chat, services
<1>2. CASE GoForward
  BY <1>2 DEF GoForward, TypeOK, StopsCounted, ChatIsHeld, chat, services
<1>3. ASSUME NEW c \in Starts, ClickRun(c)
      PROVE  ChatIInv'
  <2>1. overlapped' \in BOOLEAN
    BY <1>3 DEF ClickRun
  <2>2. start' \in [Starts -> {"none", "snapshot", "request", "served", "done"}]
    BY <1>3 DEF ClickRun, TypeOK
  <2>3. QED
    BY <1>3, <2>1, <2>2 DEF ClickRun, TypeOK, StopsCounted, ChatIsHeld, chat, services
<1>4. ASSUME NEW c \in Starts, SnapshotAnswered(c) \/ StartServed(c)
      PROVE  ChatIInv'
  <2>1. start' \in [Starts -> {"none", "snapshot", "request", "served", "done"}]
    BY <1>4 DEF SnapshotAnswered, StartServed, TypeOK
  <2>2. running' \in 0..MaxStarts
    BY <1>4 DEF SnapshotAnswered, StartServed, TypeOK, services, Starts
  <2>3. QED
    BY <1>4, <2>1, <2>2
    DEF SnapshotAnswered, StartServed, TypeOK, StopsCounted, ChatIsHeld, chat, services
<1>5. ASSUME NEW c \in Starts, StartAnswered(c) \/ StartFails(c)
      PROVE  ChatIInv'
  <2>1. start' \in [Starts -> {"none", "snapshot", "request", "served", "done"}]
    BY <1>5 DEF StartAnswered, StartFails, TypeOK
  <2>2. /\ stream' \in [Starts -> {"none", "connecting", "open", "retrying", "ended"}]
        /\ signal' \in [Starts -> 0..MaxStops]
    BY <1>5 DEF StartAnswered, StartFails, TypeOK
  <2>3. QED
    BY <1>5, <2>1, <2>2
    DEF StartAnswered, StartFails, TypeOK, StopsCounted, ChatIsHeld, chat, services
<1>6. ASSUME NEW c \in Starts, StreamOpens(c)
      PROVE  ChatIInv'
  <2>1. chats' \subseteq {handle'} /\ handle' \in Sources
    BY <1>6, OneChat DEF StreamOpens
  <2>2. QED  BY <1>6, <2>1 DEF StreamOpens, TypeOK, StopsCounted, ChatIsHeld, Starts
<1>7. ASSUME NEW c \in Starts, StreamBreaks(c) \/ StreamRetries(c)
      PROVE  ChatIInv'
  BY <1>7 DEF StreamBreaks, StreamRetries, TypeOK, StopsCounted, ChatIsHeld, chat, services, Starts
<1>8. ASSUME NEW c \in Starts, StreamCloses(c)
      PROVE  ChatIInv'
  BY <1>8 DEF StreamCloses, StopChat, TypeOK, StopsCounted, ChatIsHeld, services
<1>9. CASE ChatBreaks
  BY <1>9 DEF ChatBreaks, TypeOK, StopsCounted, ChatIsHeld, browser, services
<1>10. CASE ClickStop
  <2>1. controller' \in 0..MaxStops /\ stopping' \in 0..MaxStops /\ stopping' <= controller'
    BY <1>10, SessionAssumption DEF ClickStop, AbortConnection, TypeOK, StopsCounted
  <2>2. session' \in 0..MaxStarts
    BY <1>10 DEF ClickStop, TypeOK, Starts
  <2>3. stream' \in [Starts -> {"none", "connecting", "open", "retrying", "ended"}]
    BY <1>10 DEF ClickStop, AbortConnection, TypeOK
  <2>4. QED
    BY <1>10, <2>1, <2>2, <2>3
    DEF ClickStop, AbortConnection, TypeOK, StopsCounted, ChatIsHeld, chat
<1>11. CASE StopServed \/ StopLost
  BY <1>11, SessionAssumption
  DEF StopServed, StopLost, TypeOK, StopsCounted, ChatIsHeld, browser, chat
<1>12. CASE UNCHANGED vars
  BY <1>12 DEF vars, browser, chat, services, TypeOK, StopsCounted, ChatIsHeld
<1>13. QED
  BY <1>1, <1>2, <1>3, <1>4, <1>5, <1>6, <1>7, <1>8, <1>9, <1>10, <1>11, <1>12 DEF Next

\* The session's variables are well typed, for any number of starts and stops: in
\* particular there are never more stop requests under way than stops clicked.
THEOREM TypeCorrect == Spec => []TypeOK
<1>1. Spec => []ChatIInv
  BY InitChat, ChatStep, PTL DEF Spec
<1>2. ChatIInv => TypeOK
  BY DEF ChatIInv
<1>3. QED  BY <1>1, <1>2, PTL

\* There is never a chat source that the next cleanup would not close.
THEOREM ChatsAreHeld == Spec => []ChatIsHeld
<1>1. Spec => []ChatIInv
  BY InitChat, ChatStep, PTL DEF Spec
<1>2. ChatIInv => ChatIsHeld
  BY DEF ChatIInv
<1>3. QED  BY <1>1, <1>2, PTL

(***************************************************************************)
(* Sessions.  While starts do not overlap there is one start on its way or *)
(* one stream, never both; the simulator runs that start from the moment   *)
(* it is served, and the backend is reset for it when its stream opens.    *)
(***************************************************************************)
OneStart ==
    /\ \A c, d \in Starts : Pending(c) /\ Pending(d) => c = d
    /\ \A c, d \in Starts : Live(c) /\ Live(d) => c = d
    /\ \A c \in Starts : Pending(c) => ~isFetching
    /\ \A c \in Starts : Live(c) => isFetching

RunIsOfStart ==
    \A c \in Starts : start[c] = "served" \/ Live(c) => running \in {0, c}

BackendIsOfStream == \A c \in Starts : stream[c] = "open" => session = c

SessionIInv ==
    /\ TypeOK /\ StopReachesStreams
    /\ ~overlapped => OneStart /\ RunIsOfStart /\ BackendIsOfStream

\* Before the first click there is neither a start nor a stream.
LEMMA InitSession == Init => SessionIInv
<1> SUFFICES ASSUME Init PROVE SessionIInv
  OBVIOUS
<1>1. TypeOK
  BY InitChat DEF ChatIInv
<1>2. \A c \in Starts : ~Pending(c) /\ ~Live(c) /\ start[c] # "served" /\ stream[c] # "open"
  BY DEF Init, Pending, Live
<1>3. QED
  BY <1>1, <1>2
  DEF SessionIInv, StopReachesStreams, OneStart, RunIsOfStart, BackendIsOfStream

\* A stop ends every stream of its controller, and a stream is opened with the
\* controller of the moment; so no stream listens to an older one.
LEMMA StopStep ==
    ASSUME TypeOK, StopReachesStreams, [Next]_vars
    PROVE  StopReachesStreams'
<1> USE DEF StopReachesStreams, Live
<1>1. CASE GoBack \/ GoForward \/ ChatBreaks \/ StopServed \/ StopLost
  BY <1>1 DEF GoBack, GoForward, ChatBreaks, StopServed, StopLost, browser
<1>2. ASSUME NEW c \in Starts,
             ClickRun(c) \/ SnapshotAnswered(c) \/ StartServed(c) \/ StartFails(c)
      PROVE  StopReachesStreams'
  BY <1>2 DEF ClickRun, SnapshotAnswered, StartServed, StartFails
<1>3. ASSUME NEW c \in Starts, StartAnswered(c)
      PROVE  StopReachesStreams'
  BY <1>3 DEF StartAnswered, TypeOK
<1>4. ASSUME NEW c \in Starts,
             StreamOpens(c) \/ StreamBreaks(c) \/ StreamRetries(c) \/ StreamCloses(c)
      PROVE  StopReachesStreams'
  BY <1>4 DEF StreamOpens, StreamBreaks, StreamRetries, StreamCloses, TypeOK
<1>5. CASE ClickStop
  <2>1. \A c \in Starts : stream'[c] = IF Live(c) THEN "ended" ELSE stream[c]
    BY <1>5 DEF ClickStop, AbortConnection
  <2>2. QED  BY <2>1
<1>6. CASE UNCHANGED vars
  BY <1>6 DEF vars, browser
<1>7. QED  BY <1>1, <1>2, <1>3, <1>4, <1>5, <1>6 DEF Next

\* No step forgets that starts have overlapped.
LEMMA OverlapStays ==
    ASSUME Next, ~overlapped'
    PROVE  ~overlapped
BY DEF Next, GoBack, GoForward, ClickRun, SnapshotAnswered, StartServed, StartAnswered,
       StartFails, StreamOpens, StreamBreaks, StreamRetries, StreamCloses, ChatBreaks,
       ClickStop, StopServed, StopLost

\* As long as starts do not overlap, the start or stream there is stays the only one,
\* and the run and the backend's session are its own.
LEMMA SessionStep ==
    ASSUME TypeOK, StopReachesStreams, OneStart, RunIsOfStart, BackendIsOfStream,
           Next, ~overlapped'
    PROVE  OneStart' /\ RunIsOfStart' /\ BackendIsOfStream'
<1> DEFINE Goal == OneStart' /\ RunIsOfStart' /\ BackendIsOfStream'
<1> USE DEF OneStart, RunIsOfStart, BackendIsOfStream, Pending, Live
<1>1. CASE GoBack \/ GoForward \/ ChatBreaks \/ StopServed \/ StopLost
  <2>1. UNCHANGED <<start, stream, session, isFetching>> /\ (running' = running \/ running' = 0)
    BY <1>1, NothingToResume
    DEF GoBack, GoForward, ChatBreaks, StopServed, StopLost, browser, services, TypeOK
  <2>2. QED  BY <2>1
<1>2. ASSUME NEW c \in Starts, ClickRun(c)
      PROVE  Goal
  <2>1. CASE isFetching
    BY <1>2, <2>1 DEF ClickRun, services, TypeOK
  <2>2. CASE ~isFetching
    <3>1. \A d \in Starts : ~Pending(d) /\ ~Live(d)
      BY <1>2, <2>2 DEF ClickRun
    <3>2. QED  BY <1>2, <2>2, <3>1 DEF ClickRun, services, TypeOK
  <2>3. QED  BY <2>1, <2>2
<1>3. ASSUME NEW c \in Starts, SnapshotAnswered(c)
      PROVE  Goal
  <2>1. start' = [start EXCEPT ![c] = "request"]
    BY <1>3, SnapshotSaysNothing DEF SnapshotAnswered
  <2>2. QED  BY <1>3, <2>1 DEF SnapshotAnswered, services, TypeOK
<1>4. ASSUME NEW c \in Starts, StartServed(c)
      PROVE  Goal
  BY <1>4 DEF StartServed, TypeOK
<1>5. ASSUME NEW c \in Starts, StartAnswered(c)
      PROVE  Goal
  BY <1>5 DEF StartAnswered, services, TypeOK
<1>6. ASSUME NEW c \in Starts, StartFails(c)
      PROVE  Goal
  BY <1>6 DEF StartFails, services, TypeOK
<1>7. ASSUME NEW c \in Starts, StreamOpens(c)
      PROVE  Goal
  BY <1>7 DEF StreamOpens, TypeOK
<1>8. ASSUME NEW c \in Starts, StreamBreaks(c) \/ StreamRetries(c) \/ StreamCloses(c)
      PROVE  Goal
  BY <1>8 DEF StreamBreaks, StreamRetries, StreamCloses, services, TypeOK
<1>9. CASE ClickStop
  <2>1. \A c \in Starts : ~Live(c)' /\ stream'[c] # "open"
    BY <1>9 DEF ClickStop, AbortConnection, StopReachesStreams
  <2>2. UNCHANGED <<start, running>> /\ isFetching' = FALSE
    BY <1>9 DEF ClickStop, AbortConnection
  <2>3. QED  BY <2>1, <2>2
<1>10. QED
  BY <1>1, <1>2, <1>3, <1>4, <1>5, <1>6, <1>7, <1>8, <1>9 DEF Next

\* A step without an overlap or with one keeps the invariant of the sessions.
LEMMA SessionIInvStep ==
    ASSUME ChatIInv, SessionIInv, [Next]_vars
    PROVE  SessionIInv'
<1>1. TypeOK'
  BY ChatStep DEF ChatIInv
<1>2. StopReachesStreams'
  BY StopStep DEF SessionIInv
<1>3. ASSUME ~overlapped', Next
      PROVE  OneStart' /\ RunIsOfStart' /\ BackendIsOfStream'
  BY <1>3, OverlapStays, SessionStep DEF SessionIInv
<1>4. ASSUME ~overlapped', UNCHANGED vars
      PROVE  OneStart' /\ RunIsOfStart' /\ BackendIsOfStream'
  BY <1>4 DEF SessionIInv, OneStart, RunIsOfStart, BackendIsOfStream, Pending, Live,
              vars, browser, services
<1>5. QED  BY <1>1, <1>2, <1>3, <1>4 DEF SessionIInv

\* The invariant of the sessions holds throughout.
LEMMA SessionInvariant == Spec => []SessionIInv
<1>1. Init => ChatIInv /\ SessionIInv
  BY InitChat, InitSession
<1>2. ChatIInv /\ SessionIInv /\ [Next]_vars => ChatIInv' /\ SessionIInv'
  BY ChatStep, SessionIInvStep
<1>3. QED  BY <1>1, <1>2, PTL DEF Spec

\* However many starts and stops interleave, refused, retried or late, a click on
\* Stop reaches every stream that is not ended.
THEOREM StopsReachStreams == Spec => []StopReachesStreams
<1>1. SessionIInv => StopReachesStreams
  BY DEF SessionIInv
<1>2. QED  BY <1>1, SessionInvariant, PTL

\* As long as no two starts are under way at once, an open stream shows the session
\* and the run of its own start.
THEOREM SessionsAreOfRuns == Spec => []SessionIsOfRun
<1>1. SessionIInv => SessionIsOfRun
  BY DEF SessionIInv, SessionIsOfRun, RunIsOfStart, BackendIsOfStream, Live
<1>2. QED  BY <1>1, SessionInvariant, PTL
================================================================================
