------------------------------ MODULE FlightModes ------------------------------
(***************************************************************************)
(* What the HUB75 panel is told and who may change the controller while    *)
(* flights come and go: the display and joystick half of the arm-event     *)
(* handler (flightArmedHandler, main.go), the 30 s post-flight goroutine   *)
(* it leaves behind, and the API requests that also set the display mode   *)
(* or swap the controller.  FlightLog is the recording half.               *)
(*                                                                         *)
(* Every writer of the display mode decides first and writes later, in a   *)
(* goroutine of its own; nothing orders the writers.                       *)
(***************************************************************************)
EXTENDS Naturals, Sequences, FiniteSets

CONSTANTS
    Controllers, \* devices joystick.Open can open
    Calls,       \* the API requests in play, of "load", "unload", "start", "stop"
    MaxFlights,  \* flights in a behaviour (model bound)
    MaxApiCalls     \* API requests in a behaviour (model bound)

NoController == "none"

ASSUME ModesAssumption ==
    /\ NoController \notin Controllers
    /\ Calls \subseteq {"load", "unload", "start", "stop"}
    /\ MaxFlights \in Nat /\ MaxApiCalls \in Nat

VARIABLES
    arm,       \* arm.Machine.State()
    events,    \* Machine.Events(): transitions the drain has not taken
    step,      \* the drain: idle, or where flightArmedHandler is
    panelMode,     \* the mode given to the display manager
    banners,   \* post-flight goroutines, by flight
    flights,   \* flights so far
    loaded,    \* holder.Load() # nil
    replaying, \* replayState.active
    apiCall,   \* where the API request of each kind is
    calls,     \* API requests so far
    reader,    \* jsHolder.reader
    locked,    \* jsHolder.flightArmed
    raced      \* history: were two writers of the mode ever at work together?

modesVars == <<arm, events, step, panelMode, banners, flights, loaded, replaying,
          apiCall, calls, reader, locked, raced>>

GroundModes == {"IDLE", "PREFLIGHT"}
PanelModes  == GroundModes \cup {"FLIGHT", "POSTFLIGHT", "REPLAY"}

ModesTypeOK ==
    /\ arm \in {"disarmed", "requested", "armed"}
    /\ events \in Seq({"armed", "disarmed"}) /\ Len(events) <= 2 * MaxFlights
    /\ step \in {"idle", "flight", "lock", "postflight", "unlock"}
    /\ panelMode \in PanelModes
    /\ banners \in [1..MaxFlights -> {"none", "waits"} \cup GroundModes]
    /\ flights \in 0..MaxFlights /\ calls \in 0..MaxApiCalls
    /\ loaded \in BOOLEAN /\ replaying \in BOOLEAN
    /\ apiCall \in [Calls -> {"idle", "passed", "acted"} \cup GroundModes]
    /\ reader \in Controllers \cup {NoController} /\ locked \in BOOLEAN
    /\ raced \in BOOLEAN

\* The mode the daemon is in on the ground.
Ground == IF loaded THEN "PREFLIGHT" ELSE "IDLE"

ModesInit ==
    /\ arm = "disarmed" /\ events = <<>> /\ step = "idle"
    /\ loaded \in BOOLEAN /\ panelMode = Ground
    /\ banners = [i \in 1..MaxFlights |-> "none"]
    /\ flights = 0 /\ calls = 0
    /\ replaying = FALSE /\ apiCall = [c \in Calls |-> "idle"]
    /\ reader \in Controllers \cup {NoController} /\ locked = FALSE
    /\ raced = FALSE

\* Writers of the mode that have decided and not yet written.
Writers(st, req, ban) ==
    Cardinality({c \in Calls : req[c] # "idle"})
        + Cardinality({i \in 1..MaxFlights : ban[i] \in GroundModes})
        + (IF st = "idle" THEN 0 ELSE 1)

NoteRace == raced' = (raced \/ Writers(step', apiCall', banners') > 1)

-----------------------------------------------------------------------------
\* The arm machine, seen from its state and its events.

Request ==
    /\ arm = "disarmed" /\ flights < MaxFlights
    /\ arm' = "requested"
    /\ UNCHANGED <<events, step, panelMode, banners, flights, loaded, replaying,
                   apiCall, calls, reader, locked, raced>>

\* The request is cancelled or times out.
Withdraw ==
    /\ arm = "requested"
    /\ arm' = "disarmed"
    /\ UNCHANGED <<events, step, panelMode, banners, flights, loaded, replaying,
                   apiCall, calls, reader, locked, raced>>

Confirm ==
    /\ arm = "requested"
    /\ arm' = "armed" /\ flights' = flights + 1
    /\ events' = Append(events, "armed")
    /\ UNCHANGED <<step, panelMode, banners, loaded, replaying, apiCall, calls,
                   reader, locked, raced>>

Disarm ==
    /\ arm = "armed"
    /\ arm' = "disarmed" /\ events' = Append(events, "disarmed")
    /\ UNCHANGED <<step, panelMode, banners, flights, loaded, replaying, apiCall,
                   calls, reader, locked, raced>>

-----------------------------------------------------------------------------
\* drainArmEvents and flightArmedHandler.

TakeEvent ==
    /\ step = "idle" /\ events # <<>>
    /\ events' = Tail(events)
    /\ step' = IF Head(events) = "armed" THEN "flight" ELSE "postflight"
    /\ UNCHANGED <<arm, panelMode, banners, flights, loaded, replaying, apiCall,
                   calls, reader, locked>>
    /\ NoteRace

ShowFlight ==
    /\ step = "flight" /\ panelMode' = "FLIGHT"
    /\ step' = "lock"
    /\ UNCHANGED <<arm, events, banners, flights, loaded, replaying, apiCall,
                   calls, reader, locked, raced>>

\* SetMode(POSTFLIGHT), and the goroutine that will drop it.
ShowPostflight ==
    /\ step = "postflight" /\ panelMode' = "POSTFLIGHT"
    /\ \E i \in 1..MaxFlights :
          /\ banners[i] = "none"
          /\ \A j \in 1..(i - 1) : banners[j] # "none"
          /\ banners' = [banners EXCEPT ![i] = "waits"]
    /\ step' = "unlock"
    /\ UNCHANGED <<arm, events, flights, loaded, replaying, apiCall, calls,
                   reader, locked, raced>>

\* jsHolder.SetFlightArmed(armed), the handler's last statement.
SetFlightArmed ==
    /\ step \in {"lock", "unlock"}
    /\ locked' = (step = "lock")
    /\ step' = "idle"
    /\ UNCHANGED <<arm, events, panelMode, banners, flights, loaded, replaying,
                   apiCall, calls, reader, raced>>

\* Mutant: the mode to drop back to is not looked up again.
BannerWakes_ModelAssumed(i) ==
    /\ banners[i] = "waits"
    /\ banners' = [banners EXCEPT ![i] = "PREFLIGHT"]
    /\ UNCHANGED <<arm, events, step, panelMode, flights, loaded, replaying,
                   apiCall, calls, reader, locked>>
    /\ NoteRace

\* The 30 seconds are over: look at the model...
BannerWakes(i) ==
    /\ banners[i] = "waits"
    /\ banners' = [banners EXCEPT ![i] = Ground]
    /\ UNCHANGED <<arm, events, step, panelMode, flights, loaded, replaying,
                   apiCall, calls, reader, locked>>
    /\ NoteRace

\* ...and set the mode, whatever has happened since.
BannerDrops(i) ==
    /\ banners[i] \in GroundModes
    /\ panelMode' = banners[i]
    /\ banners' = [banners EXCEPT ![i] = "none"]
    /\ UNCHANGED <<arm, events, step, flights, loaded, replaying, apiCall,
                   calls, reader, locked, raced>>

-----------------------------------------------------------------------------
\* API requests.  Call(c, at) is the first effect of a request, which then is
\* "at" the mode it has decided on or on its way there.

Call(c, at) ==
    /\ c \in Calls /\ apiCall[c] = "idle" /\ calls < MaxApiCalls
    /\ calls' = calls + 1
    /\ apiCall' = [apiCall EXCEPT ![c] = at]
    /\ UNCHANGED <<arm, events, step, panelMode, banners, flights, reader, locked>>
    /\ NoteRace

\* LoadModel and UnloadModel: the holder, later the mode.
LoadModel   == Call("load", "PREFLIGHT") /\ loaded' = TRUE /\ UNCHANGED replaying
UnloadModel == Call("unload", "IDLE") /\ loaded' = FALSE /\ UNCHANGED replaying

\* ReplayStart: the gate, replayState.Start, later the mode.
ReplayGate ==
    /\ arm = "disarmed"
    /\ Call("start", "passed") /\ UNCHANGED <<loaded, replaying>>

ReplayBegins ==
    /\ "start" \in Calls /\ apiCall["start"] = "passed"
    /\ replaying' = TRUE
    /\ apiCall' = [apiCall EXCEPT !["start"] = "acted"]
    /\ UNCHANGED <<arm, events, step, panelMode, banners, flights, loaded, calls,
                   reader, locked, raced>>

ShowReplay ==
    /\ "start" \in Calls /\ apiCall["start"] = "acted"
    /\ panelMode' = "REPLAY"
    /\ apiCall' = [apiCall EXCEPT !["start"] = "idle"]
    /\ UNCHANGED <<arm, events, step, banners, flights, loaded, replaying, calls,
                   reader, locked, raced>>

\* ReplayStop: replayState.Stop, a look at the model, later the mode.
ReplayStop ==
    /\ replaying /\ replaying' = FALSE
    /\ Call("stop", "acted") /\ UNCHANGED loaded

StopLooks ==
    /\ "stop" \in Calls /\ apiCall["stop"] = "acted"
    /\ apiCall' = [apiCall EXCEPT !["stop"] = Ground]
    /\ UNCHANGED <<arm, events, step, panelMode, banners, flights, loaded, replaying,
                   calls, reader, locked, raced>>

\* The mode write that ends a load, an unload or a stop.
ShowGround(c) ==
    /\ apiCall[c] \in GroundModes
    /\ panelMode' = apiCall[c]
    /\ apiCall' = [apiCall EXCEPT ![c] = "idle"]
    /\ UNCHANGED <<arm, events, step, banners, flights, loaded, replaying, calls,
                   reader, locked, raced>>

\* Swap: SelectJoystick and ReleaseJoystick (None, never an emergency).
Swap(next, emergency) ==
    /\ ~locked \/ emergency
    /\ next = NoController => ~emergency
    /\ reader' = next
    /\ UNCHANGED <<arm, events, step, panelMode, banners, flights, loaded, replaying,
                   apiCall, calls, locked, raced>>

ModesNext ==
    \/ Request \/ Withdraw \/ Confirm \/ Disarm
    \/ TakeEvent \/ ShowFlight \/ ShowPostflight \/ SetFlightArmed
    \/ \E i \in 1..MaxFlights : BannerWakes(i) \/ BannerDrops(i)
    \/ LoadModel \/ UnloadModel
    \/ ReplayGate \/ ReplayBegins \/ ShowReplay \/ ReplayStop \/ StopLooks
    \/ \E c \in Calls : ShowGround(c)
    \/ \E r \in Controllers \cup {NoController}, emergency \in BOOLEAN : Swap(r, emergency)

\* Goroutines that have something to do get to do it; timers fire.
ModesFairness ==
    /\ WF_modesVars(TakeEvent) /\ WF_modesVars(ShowFlight) /\ WF_modesVars(ShowPostflight)
    /\ WF_modesVars(SetFlightArmed)
    /\ \A i \in 1..MaxFlights : WF_modesVars(BannerWakes(i)) /\ WF_modesVars(BannerDrops(i))

ModesSpec     == ModesInit /\ [][ModesNext]_modesVars
ModesFairSpec == ModesSpec /\ ModesFairness

-----------------------------------------------------------------------------

\* Nobody is about to write the mode and nothing is left to handle.
Quiet ==
    /\ events = <<>> /\ Writers(step, apiCall, banners) = 0
    /\ \A i \in 1..MaxFlights : banners[i] = "none"

\* On the ground and with no replay the panel shows the mode of the model that
\* is loaded, once the banners are over and as long as no two writers of the
\* mode have overlapped.
PanelAgrees ==
    Quiet /\ arm = "disarmed" /\ ~replaying /\ ~raced => panelMode = Ground

\* joystick_holder.go's lock is late but not lost: once the drain has finished
\* with the events there are, the controller is locked in an armed flight, and
\* only then.
LockAgrees == events = <<>> /\ step = "idle" => (locked <=> arm = "armed")

\* What is left of a flight when its events are handled: the lock is off, and the
\* panel is back in the mode of the ground.
FlightIsOver == ModesTypeOK /\ PanelAgrees /\ LockAgrees

\* The post-flight banner is always taken down (the goroutine of main.go:832),
\* by itself or by what comes next.
BannerComesDown == panelMode = "POSTFLIGHT" ~> panelMode # "POSTFLIGHT"

\* docs/protocols/display.md:59: mode FLIGHT is "Armed": when the drain has
\* handled the arming, an armed flight shows FLIGHT.
ArmedShowsFlight ==
    arm = "armed" /\ events = <<>> /\ step = "idle" => panelMode = "FLIGHT"
=============================================================================
