------------------------------- MODULE FlightLog -------------------------------
(***************************************************************************)
(* What is recorded of a flight, and by whom: the drain of the arm         *)
(* machine's events runs flightArmedHandler (main.go), the 5 Hz sampler    *)
(* runs the flight event detector (flight_events.go), a failsafe starts    *)
(* the recovery view (recovery.go), which asks the recorder to keep the    *)
(* recording, and the operator opens and dismisses that view and protects  *)
(* recordings.  This is the recording half of the handler; FlightModes is  *)
(* the display and joystick half.                                          *)
(***************************************************************************)
EXTENDS Recorder, Sequences

CONSTANTS
    MaxOddities  \* restarts of the daemon, manual triggers and protections by
                 \* the operator, together (model bound)

ASSUME OdditiesAssumption == MaxOddities \in Nat

VARIABLES
    arm,       \* arm.Machine: "armed" or not
    events,    \* Machine.Events(): transitions the drain has not taken
    step,      \* the drain: idle, or where flightArmedHandler is
    narrated,  \* flightEventsLog: the kinds the narrator will tell
    armedDet,  \* flightEventDetector.armed
    lastMode,  \* flightEventDetector.lastMode
    mode,      \* the flight mode in the telemetry snapshot
    tick,      \* the sampler: idle, logged a failsafe, or about to trigger
    recovery,  \* Manager.state.Active
    asking,    \* reasons of Triggers that have yet to call the recorder
    budget     \* what is left of the model bounds

logVars == <<arm, events, step, narrated, armedDet, lastMode, mode, tick,
             recovery, asking, budget>>
flVars  == <<recVars, logVars>>

Modes == {"ANGL", "!FS"}

FlightLogTypeOK ==
    /\ RecorderTypeOK
    /\ arm \in {"disarmed", "armed"}
    /\ events \in Seq({"armed", "disarmed"})
    /\ step \in {"idle", "open", "detect", "detected", "undetect", "undetected",
                 "capture", "close", "saving"}
    /\ narrated \subseteq Kinds
    /\ armedDet \in BOOLEAN /\ lastMode \in Modes \cup {""} /\ mode \in Modes
    /\ tick \in {"idle", "checked", "logged"}
    /\ recovery \in BOOLEAN /\ asking \subseteq {"failsafe", "manual"}
    /\ budget \in [flights : 0..MaxSessions, oddities : 0..MaxOddities]

LogInit ==
    /\ arm = "disarmed" /\ events = <<>> /\ step = "idle" /\ narrated = {}
    /\ armedDet = FALSE /\ lastMode = "" /\ mode = "ANGL" /\ tick = "idle"
    /\ recovery = FALSE /\ asking = {}
    /\ budget = [flights |-> MaxSessions, oddities |-> MaxOddities]

Init == RecInit /\ LogInit

Spend(what) == budget[what] > 0 /\ budget' = [budget EXCEPT ![what] = @ - 1]

-----------------------------------------------------------------------------
\* The arm machine, seen from its events.

Arm ==
    /\ arm = "disarmed" /\ Spend("flights")
    /\ arm' = "armed" /\ events' = Append(events, "armed")
    /\ UNCHANGED <<recVars, step, narrated, armedDet, lastMode, mode, tick,
                   recovery, asking>>

Disarm ==
    /\ arm = "armed"
    /\ arm' = "disarmed" /\ events' = Append(events, "disarmed")
    /\ UNCHANGED <<recVars, step, narrated, armedDet, lastMode, mode, tick,
                   recovery, asking, budget>>

-----------------------------------------------------------------------------
\* drainArmEvents and flightArmedHandler.

\* Mutant: the events are captured before the detector has logged the disarming.
TakeEvent_CaptureFirst ==
    /\ step = "idle" /\ events # <<>>
    /\ events' = Tail(events)
    /\ step' = IF Head(events) = "armed" THEN "open" ELSE "capture"
    /\ UNCHANGED <<recVars, arm, narrated, armedDet, lastMode, mode, tick,
                   recovery, asking, budget>>

TakeEvent ==
    /\ step = "idle" /\ events # <<>>
    /\ events' = Tail(events)
    /\ step' = IF Head(events) = "armed" THEN "open" ELSE "undetect"
    /\ UNCHANGED <<recVars, arm, narrated, armedDet, lastMode, mode, tick,
                   recovery, asking, budget>>

OpenSession ==
    /\ step = "open"
    /\ OnArm
    /\ step' = "detect"
    /\ UNCHANGED <<arm, events, narrated, armedDet, lastMode, mode, tick,
                   recovery, asking, budget>>

\* flightEventDetector.SetArmed(armed): the flag and the reset, then the event.
SetArmed(armed) ==
    /\ step = IF armed THEN "detect" ELSE "undetect"
    /\ armedDet' = armed
    /\ lastMode' = IF armed /\ ~armedDet THEN "" ELSE lastMode
    /\ step' = IF armedDet # armed
               THEN IF armed THEN "detected" ELSE "undetected"
               ELSE IF armed THEN "idle" ELSE "capture"
    /\ UNCHANGED <<recVars, arm, events, narrated, mode, tick, recovery, asking,
                   budget>>

ArmedEvent ==
    /\ step = "detected" /\ LogEvent("flight.armed")
    /\ step' = "idle"
    /\ UNCHANGED <<arm, events, narrated, armedDet, lastMode, mode, tick,
                   recovery, asking, budget>>

DisarmedEvent ==
    /\ step = "undetected" /\ LogEvent("flight.disarmed")
    /\ step' = "capture"
    /\ UNCHANGED <<arm, events, narrated, armedDet, lastMode, mode, tick,
                   recovery, asking, budget>>

\* CurrentSessionEvents.
Capture ==
    /\ step = "capture"
    /\ narrated' = {k \in Kinds : <<session, k>> \in rows}
    /\ step' = "close"
    /\ UNCHANGED <<recVars, arm, events, armedDet, lastMode, mode, tick,
                   recovery, asking, budget>>

BeginOnDisarm ==
    /\ step = "close"
    /\ \/ NothingToSave /\ step' = "idle"
       \/ CloseSession /\ step' = "saving"
    /\ UNCHANGED <<arm, events, narrated, armedDet, lastMode, mode, tick,
                   recovery, asking, budget>>

SaveSteps ==
    /\ step = "saving"
    /\ Saved \/ SaveFails \/ TakeFlag \/ WriteSidecar \/ ListVictims \/ RemoveVictims
    /\ UNCHANGED logVars

EndOnDisarm ==
    /\ step = "saving"
    /\ Rotated \/ RotateFails
    /\ step' = "idle" /\ narrated' = {}
    /\ UNCHANGED <<arm, events, armedDet, lastMode, mode, tick, recovery, asking,
                   budget>>

-----------------------------------------------------------------------------
\* The sampler: Tick, then checkMode's log and trigger.

FlightModeChanges ==
    /\ mode' \in Modes \ {mode}
    /\ UNCHANGED <<recVars, arm, events, step, narrated, armedDet, lastMode, tick,
                   recovery, asking, budget>>

\* Tick's look at armed, and checkMode's comparison: only an edge goes on.
Tick ==
    /\ tick = "idle" /\ armedDet /\ mode # lastMode
    /\ lastMode' = mode
    /\ tick' = IF mode = "!FS" THEN "checked" ELSE "idle"
    /\ UNCHANGED <<recVars, arm, events, step, narrated, armedDet, mode, recovery,
                   asking, budget>>

LogFailsafe ==
    /\ tick = "checked" /\ LogEvent("failsafe")
    /\ tick' = "logged"
    /\ UNCHANGED <<arm, events, step, narrated, armedDet, lastMode, mode, recovery,
                   asking, budget>>

\* Manager.Trigger under its mutex; the recorder is called after the unlock.
Trigger(reason) ==
    /\ recovery' = TRUE
    /\ asking' = IF recovery THEN asking ELSE asking \cup {reason}

TriggerFailsafe ==
    /\ tick = "logged" /\ tick' = "idle"
    /\ Trigger("failsafe")
    /\ UNCHANGED <<recVars, arm, events, step, narrated, armedDet, lastMode, mode,
                   budget>>

TriggerManual ==
    /\ Spend("oddities")
    /\ Trigger("manual")
    /\ UNCHANGED <<recVars, arm, events, step, narrated, armedDet, lastMode, mode,
                   tick>>

AskRecorder(reason) ==
    /\ reason \in asking /\ asking' = asking \ {reason}
    /\ Preserve(reason)
    /\ UNCHANGED <<arm, events, step, narrated, armedDet, lastMode, mode, tick,
                   recovery, budget>>

Dismiss ==
    /\ recovery /\ recovery' = FALSE
    /\ UNCHANGED <<recVars, arm, events, step, narrated, armedDet, lastMode, mode,
                   tick, asking, budget>>

Pin(n) ==
    /\ Spend("oddities")
    /\ SetPreserved(n) \/ Unpreserve(n)
    /\ UNCHANGED <<arm, events, step, narrated, armedDet, lastMode, mode, tick,
                   recovery, asking>>

Reboot ==
    /\ RestartRecorder
    /\ arm' = "disarmed" /\ events' = <<>> /\ step' = "idle" /\ narrated' = {}
    /\ armedDet' = FALSE /\ lastMode' = "" /\ tick' = "idle"
    /\ recovery' = FALSE /\ asking' = {}
    /\ UNCHANGED mode

\* Power loss, or the operator restarts the daemon.
Restart == Spend("oddities") /\ Reboot

\* A panic in the drain takes the process with it.
Panic == step = "close" /\ NilClose /\ Reboot /\ UNCHANGED budget

Next ==
    \/ Arm \/ Disarm
    \/ TakeEvent \/ OpenSession \/ SetArmed(TRUE) \/ SetArmed(FALSE)
    \/ ArmedEvent \/ DisarmedEvent
    \/ Capture \/ BeginOnDisarm \/ SaveSteps \/ EndOnDisarm
    \/ FlightModeChanges \/ Tick \/ LogFailsafe \/ TriggerFailsafe
    \/ TriggerManual \/ Dismiss
    \/ \E reason \in {"failsafe", "manual"} : AskRecorder(reason)
    \/ \E n \in Sessions : Pin(n)
    \/ Restart \/ Panic

Spec == Init /\ [][Next]_flVars

-----------------------------------------------------------------------------

\* Every recording tells a whole flight: both recorders of the arming and both
\* of the disarming are in it, under the session's number.  (The order of
\* OnArm, SetArmed, OnDisarm and the copy in flightArmedHandler.)
SavedFlightsBracketed ==
    \A n \in DOMAIN files :
        {<<1, "armed">>, <<1, "flight.armed">>, <<1, "flight.disarmed">>,
         <<1, "disarmed">>} \subseteq files[n]

\* When the session closes, the narrator holds both ends of the flight.
NarrationHasFlight ==
    step \in {"close", "saving"} /\ session = 1 /\ db =>
        {"armed", "flight.armed", "flight.disarmed"} \subseteq narrated

\* When the drain has caught up, a session is open only in an armed flight and
\* the detector is on exactly in an armed flight.
SettledAgrees ==
    (step = "idle" /\ events = <<>>) =>
        /\ (session = 1 /\ db => arm = "armed")
        /\ armedDet <=> arm = "armed"

\* The log has every flight whole: the parts above, and all values are of their
\* types.
FlightsAreWhole ==
    FlightLogTypeOK /\ SavedFlightsBracketed /\ NarrationHasFlight /\ SettledAgrees

\* docs/manuals/USER.md:610: on the failsafe edge "the in-progress recording is
\* marked for preservation at the same moment": when the sampler is done with the
\* edge, the running session's flag is set or is about to be.
FailsafeIsMarked ==
    [][ tick = "logged" /\ tick' = "idle" /\ recovery'
        /\ arm = "armed" /\ session = 1 /\ db /\ saving.at = "out"
            => flag # NoReason \/ asking' # {} ]_flVars
=============================================================================
