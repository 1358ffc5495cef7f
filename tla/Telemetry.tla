----------------------------- MODULE Telemetry -----------------------------
(***************************************************************************)
(* The telemetry of the aircraft (internal/telemetry) and its readers: the *)
(* handler of main, which also moves the recovery view's last known        *)
(* position (internal/recovery), the mixer loop, which derives whether the *)
(* flight controller may be armed (cmd/zerotxd/fc_ready.go), the arm-event *)
(* handler, which records home, and the unloading of a model.              *)
(*                                                                         *)
(* A reading that was never received is the empty set.  Battery, link and  *)
(* attitude are stored like the others, and what they tell, the number of  *)
(* cells included, makes no difference to the readers here.                *)
(***************************************************************************)
EXTENDS Integers

CONSTANTS Sensors,    \* frame types: with "gps" and "flightMode"
          Readings,   \* what a frame of each sensor may carry
          FreshFor,   \* staleWindow of each sensor, in ticks of the mixer loop
          ReadyModes, \* flight modes that start neither with "!" nor with "WAIT"
          MaxAge      \* ages are counted to here

ASSUME TelemetryAssumption ==
    /\ {"gps", "flightMode"} \subseteq Sensors
    /\ FreshFor \in [Sensors -> Nat] /\ \A s \in Sensors : FreshFor[s] < MaxAge
    /\ ReadyModes \subseteq Readings["flightMode"]
    /\ MaxAge \in Nat

VARIABLES latest,     \* the latest reading of each sensor
          age,        \* how long ago it came
          home,       \* State.homeLat, homeLon
          inUse,      \* a model is loaded
          stickGone,  \* the joystick has been lost for joystickHoldMs or more
          fcReady,    \* what the loop told the arm machine
          unlooked,   \* ticks it has skipped since it did
          handling,   \* telemHandler: "idle", "fed", or "update" with recovery active
          freezing,   \* the snapshot a trigger of the recovery view goes with
          recovering, \* recovery.State.Active
          lastKnown   \* recovery.State.LastKnown

telemetryVars == <<latest, age, home, inUse, stickGone, fcReady, unlooked, handling, freezing,
                   recovering, lastKnown>>

NoFreeze == [at |-> "none"]

isStale(s) == latest[s] = {} \/ age[s] > FreshFor[s]

\* The position in a snapshot of the telemetry, if it is fresh.
FreshPosition == IF isStale("gps") THEN {} ELSE latest["gps"]

----------------------------------------------------------------------------
(* telemHandler.                                                           *)

\* Feed: a frame of a known type and a sufficient length.
FeedFrame(s, value) ==
    /\ handling = "idle" /\ handling' = "fed"
    /\ latest' = [latest EXCEPT ![s] = {value}] /\ age' = [age EXCEPT ![s] = 0]
    /\ UNCHANGED <<home, inUse, stickGone, fcReady, unlooked, freezing, recovering, lastKnown>>

\* A frame of another type, of an unknown one, or one too short; the handler goes on
\* all the same.
FeedOther ==
    /\ handling = "idle" /\ handling' = "fed"
    /\ UNCHANGED <<latest, age, home, inUse, stickGone, fcReady, unlooked, freezing, recovering, lastKnown>>

\* IsActive.
LookForRecovery ==
    /\ handling = "fed" /\ handling' = IF recovering THEN "update" ELSE "idle"
    /\ UNCHANGED <<latest, age, home, inUse, stickGone, fcReady, unlooked, freezing, recovering, lastKnown>>

\* UpdateLastKnown with a fresh position; the view may be closed by now.
UpdateLastKnown ==
    /\ handling = "update" /\ handling' = "idle"
    /\ lastKnown' = IF recovering /\ FreshPosition # {} THEN FreshPosition ELSE lastKnown
    /\ UNCHANGED <<latest, age, home, inUse, stickGone, fcReady, unlooked, freezing, recovering>>

----------------------------------------------------------------------------
(* The recovery view.                                                      *)

\* The sampler sees a failsafe, or the operator asks: the view is frozen with a
\* snapshot, whose position counts with enough satellites.
FreezeView ==
    /\ freezing = NoFreeze /\ \E known \in {{}, FreshPosition} : freezing' = [at |-> "frozen", known |-> known]
    /\ UNCHANGED <<latest, age, home, inUse, stickGone, fcReady, unlooked, handling, recovering, lastKnown>>

\* Trigger: nothing while the view is active.
TriggerView ==
    /\ freezing # NoFreeze /\ freezing' = NoFreeze
    /\ IF recovering THEN UNCHANGED <<recovering, lastKnown>>
       ELSE recovering' = TRUE /\ lastKnown' = freezing.known
    /\ UNCHANGED <<latest, age, home, inUse, stickGone, fcReady, unlooked, handling>>

DismissView ==
    /\ recovering /\ recovering' = FALSE /\ lastKnown' = {}
    /\ UNCHANGED <<latest, age, home, inUse, stickGone, fcReady, unlooked, handling, freezing>>

----------------------------------------------------------------------------
(* Home, the model, and the mixer loop.                                    *)

\* SetHome(false), on arm: any position ever received will do.
RecordHome ==
    /\ home = {} /\ home' = latest["gps"]
    /\ UNCHANGED <<latest, age, inUse, stickGone, fcReady, unlooked, handling, freezing, recovering, lastKnown>>

\* UnloadModel: ClearHome, and no more of the telemetry.
UnloadTelemetry ==
    /\ inUse' = FALSE /\ home' = {}
    /\ UNCHANGED <<latest, age, stickGone, fcReady, unlooked, handling, freezing, recovering, lastKnown>>

LoadedAgain ==
    /\ ~inUse /\ inUse' = TRUE
    /\ UNCHANGED <<latest, age, home, stickGone, fcReady, unlooked, handling, freezing, recovering, lastKnown>>

\* The joystick is lost and the hold time over; or it is back, or let go of.
StickGoes ==
    /\ ~stickGone /\ stickGone' = TRUE
    /\ UNCHANGED <<latest, age, home, inUse, fcReady, unlooked, handling, freezing, recovering, lastKnown>>

StickComes ==
    /\ stickGone /\ stickGone' = FALSE
    /\ UNCHANGED <<latest, age, home, inUse, fcReady, unlooked, handling, freezing, recovering, lastKnown>>

\* Mutant: the loop takes a stale mode.
FcReady_Stale(modeAge) == latest["flightMode"] # {} /\ latest["flightMode"] \subseteq ReadyModes

\* fcReadyFromMode of a mode that is fresh.
FcReady(modeAge) ==
    /\ latest["flightMode"] # {} /\ modeAge <= FreshFor["flightMode"]
    /\ latest["flightMode"] \subseteq ReadyModes

\* A tick of the mixer loop, which is skipped without a model and while the joystick
\* is lost: what the arm machine was told then stays.
LoopTick ==
    /\ age' = [s \in Sensors |-> IF age[s] = MaxAge THEN MaxAge ELSE age[s] + 1]
    /\ IF inUse /\ ~stickGone THEN unlooked' = 0 /\ fcReady' = FcReady(age'["flightMode"])
       ELSE unlooked' = (IF unlooked = MaxAge THEN MaxAge ELSE unlooked + 1) /\ UNCHANGED fcReady
    /\ UNCHANGED <<latest, home, inUse, stickGone, handling, freezing, recovering, lastKnown>>

----------------------------------------------------------------------------
TelemetryInit ==
    /\ latest = [s \in Sensors |-> {}] /\ age = [s \in Sensors |-> MaxAge]
    /\ home = {} /\ inUse = FALSE /\ stickGone = FALSE /\ fcReady = FALSE /\ unlooked = 0
    /\ handling = "idle" /\ freezing = NoFreeze /\ recovering = FALSE /\ lastKnown = {}

TelemHandler == LookForRecovery \/ UpdateLastKnown

TelemetryNext ==
    \/ \E s \in Sensors : \E value \in Readings[s] : FeedFrame(s, value)
    \/ FeedOther \/ TelemHandler \/ FreezeView \/ TriggerView \/ DismissView
    \/ RecordHome \/ UnloadTelemetry \/ LoadedAgain \/ StickGoes \/ StickComes \/ LoopTick

\* The reader's goroutine and the loop run; frames come as they like.
TelemetryFairness == WF_telemetryVars(TelemHandler) /\ WF_telemetryVars(LoopTick)

TelemetrySpec == TelemetryInit /\ [][TelemetryNext]_telemetryVars /\ TelemetryFairness

----------------------------------------------------------------------------
\* The operator who searches for the aircraft is led to where it is: while the
\* view is open and positions keep coming, the last known one follows, however
\* trigger, dismissal and frames interleave.  main.go telemHandler, recovery.go.
LastKnownFollows ==
    \A p \in Readings["gps"] :
      <>[](recovering /\ FreshPosition = {p}) => <>[](lastKnown = {p})

\* A flight controller that fell silent is not ready: the gate of the arm machine
\* is no older than the window and the ticks that the loop has skipped, for want of
\* a model or of a joystick, since it last looked (main.go 1348, 1371, FCReadyChanged).
FcReadyIsRecent ==
    fcReady /\ unlooked < MaxAge => age["flightMode"] - unlooked <= FreshFor["flightMode"]

\* fc_ready.go: "Empty / stale: not ready".
StaleIsNotReady == inUse /\ fcReady => ~isStale("flightMode")
=============================================================================
