------------------------------- MODULE ControlBar -------------------------------
(***************************************************************************)
(* The simulation page's bar: pause, resume and single steps, and the      *)
(* switch that applies recommendations.  Both keep a copy of what they     *)
(* control, the run of the simulator and a flag of the store, and start    *)
(* anew whenever the page is mounted.                                      *)
(***************************************************************************)
VARIABLES
    paused,      \* what the button shows, and what it will ask for
    busy,        \* the request in flight, by what it asks for
    hostPaused,  \* what the simulator does
    enabled,     \* the switch
    autoApply,   \* autoApplyEnabled of the store
    alone        \* for the properties: no answer was lost, nobody else interfered

playVars == <<paused, busy, hostPaused, alone>>
barVars == <<playVars, enabled, autoApply>>

Requests == {"none", "pause", "resume", "step"}

BarTypeOK ==
    /\ paused \in BOOLEAN /\ hostPaused \in BOOLEAN /\ busy \in Requests
    /\ enabled \in BOOLEAN /\ autoApply \in BOOLEAN /\ alone \in BOOLEAN

BarInit ==
    /\ paused = FALSE /\ busy = "none" /\ hostPaused = FALSE
    /\ enabled = FALSE /\ autoApply = FALSE /\ alone = TRUE

\* A request in flight is forgotten.
MountBar ==
    /\ paused' = FALSE /\ busy' = "none" /\ enabled' = FALSE
    /\ alone' = (busy = "none")
    /\ UNCHANGED <<hostPaused, autoApply>>

------------------------------------------------------------------------------
(* Pause, resume and step *)

Requested == IF paused THEN "resume" ELSE "pause"

\* The button turned over before the answer.
TogglePauseAtOnce ==
    /\ busy = "none" /\ busy' = Requested
    /\ paused' = ~paused
    /\ UNCHANGED <<hostPaused, alone, enabled, autoApply>>

TogglePause ==
    /\ busy = "none" /\ busy' = Requested
    /\ UNCHANGED <<paused, hostPaused, alone, enabled, autoApply>>

\* A step forward or back.
Step ==
    /\ paused /\ busy = "none" /\ busy' = "step"
    /\ UNCHANGED <<paused, hostPaused, alone, enabled, autoApply>>

After(flag) == CASE busy = "pause" -> TRUE [] busy = "resume" -> FALSE [] OTHER -> flag

\* The button changes with the answer.
Answered ==
    /\ busy # "none" /\ busy' = "none"
    /\ hostPaused' = After(hostPaused) /\ paused' = After(paused)
    /\ alone' = (alone \/ busy # "step")
    /\ UNCHANGED <<enabled, autoApply>>

\* The request is lost or refused.
RequestFails ==
    /\ busy # "none" /\ busy' = "none"
    /\ UNCHANGED <<paused, hostPaused, alone, enabled, autoApply>>

AnswerLost ==
    /\ busy # "none" /\ busy' = "none"
    /\ hostPaused' = After(hostPaused) /\ alone' = FALSE
    /\ UNCHANGED <<paused, enabled, autoApply>>

\* Another client, a start or a stop, or a request of a page that has been left.
HostChanges ==
    /\ hostPaused' = ~hostPaused /\ alone' = FALSE
    /\ UNCHANGED <<paused, busy, enabled, autoApply>>

------------------------------------------------------------------------------
(* The switch *)

\* The store's flag turned over by itself.
ToggleEach ==
    /\ enabled' = ~enabled /\ autoApply' = ~autoApply
    /\ UNCHANGED playVars

HandleToggle ==
    /\ enabled' = ~enabled /\ autoApply' = enabled'
    /\ UNCHANGED playVars

------------------------------------------------------------------------------
(* Properties *)

\* A switch that is on means that recommendations are applied, wherever the
\* operator has been since it was switched (the store's flag outlives the page,
\* the switch does not).
SwitchNeverOverstates == enabled => autoApply

\* A step is offered only for a simulator that is paused, unless an answer has been
\* lost or somebody else interfered (togglePause changes the button when the answer
\* is there, and a page that is mounted again assumes no pause).
StepsOfferedInPause == alone /\ paused => hostPaused
================================================================================
