------------------------------ MODULE ArmMachine ------------------------------
(***************************************************************************)
(* The GCS arming state machine (internal/arm/arm.go) with its bounded     *)
(* event channel, the 1 Hz ticker that drives the arming-request timeout   *)
(* (tickArmMachine) and the single goroutine that drains the channel       *)
(* (drainArmEvents).  Every method of arm.Machine takes m.mu, so a call is *)
(* one step; what interleaves is the order of the calls, which come from   *)
(* the serial reader (key, confirm), the API goroutines (confirm,          *)
(* checklist), the 50 Hz loop (throttle, readiness) and the ticker, and    *)
(* the pace of the drain.                                                  *)
(***************************************************************************)
EXTENDS Naturals, Sequences

CONSTANTS
    Timeout,     \* the arming-request timeout, in model time units
    TickPeriod,  \* units between two calls of Tick
    BufferSize,  \* capacity of the event channel (16 in the code)
    CountCap     \* where the diagnostic counters stop counting (model bound)

ASSUME TimingAssumption ==
    Timeout \in Nat /\ TickPeriod \in Nat /\ Timeout > 0 /\ TickPeriod > 0
ASSUME BufferAssumption ==
    BufferSize \in Nat /\ CountCap \in Nat /\ BufferSize > 0 /\ CountCap > 0

VARIABLES
    state,         \* m.state
    keyUp,         \* m.keyUp, the last key position reported
    throttleZero,  \* m.throttleZero
    fcReady,       \* m.fcReady
    checklistOk,   \* m.checklistOk
    requestAge,    \* time since m.armRequestedAt; 0 outside ARMING_REQUESTED
    events,        \* the channel m.events
    dropped,       \* m.dropped, saturating at CountCap
    confirmCount,  \* m.confirmCount, saturating at CountCap
    initialised,   \* has Init been called (armInitOnce has fired)
    sinceTick,     \* time since the ticker's last Tick
    handling,      \* the event the drain goroutine is working on, or NoEvent
    flightArmed    \* what the last completed flightArmedHandler(_) was given

machine  == <<state, keyUp, throttleZero, fcReady, checklistOk, requestAge,
              confirmCount, initialised>>
channel  == <<events, dropped>>
consumer == <<handling, flightArmed>>
vars     == <<machine, channel, sinceTick, consumer>>

States    == {"DISARMED", "ARMING_REQUESTED", "ARMED"}
Denials   == {"arm-denied-throttle", "arm-denied-not-ready",
              "arm-denied-checklist"}
ArmEvents == {"armed", "disarmed"}
Events    == {"boot-key-up", "arming-requested", "arming-cancelled",
              "arming-timeout", "disarm-denied-in-flight"}
                 \cup ArmEvents \cup Denials
NoEvent   == "none"

Saturate(n) == IF n < CountCap THEN n + 1 ELSE CountCap

FlagType ==
    /\ keyUp \in BOOLEAN /\ throttleZero \in BOOLEAN
    /\ fcReady \in BOOLEAN /\ checklistOk \in BOOLEAN
    /\ initialised \in BOOLEAN
CounterType ==
    /\ state \in States
    /\ requestAge \in Nat /\ sinceTick \in 0..TickPeriod
    /\ confirmCount \in 0..CountCap
ChannelType ==
    /\ events \in Seq(Events) /\ Len(events) <= BufferSize
    /\ dropped \in 0..CountCap
DrainType ==
    /\ handling \in Events \cup {NoEvent}
    /\ flightArmed \in BOOLEAN
TypeOK == FlagType /\ CounterType /\ ChannelType /\ DrainType

-----------------------------------------------------------------------------

Init ==
    /\ state = "DISARMED" /\ keyUp = FALSE
    /\ throttleZero = TRUE /\ fcReady = FALSE /\ checklistOk = FALSE
    /\ requestAge = 0
    /\ events = << >> /\ dropped = 0
    /\ confirmCount = 0
    /\ initialised = FALSE
    /\ sinceTick = 0
    /\ handling = NoEvent /\ flightArmed = FALSE

\* emit: a full channel loses the event being sent, not a queued one.
emit(e) ==
    \/ /\ Len(events) < BufferSize
       /\ events' = Append(events, e)
       /\ UNCHANGED dropped
    \/ /\ Len(events) >= BufferSize
       /\ dropped' = Saturate(dropped)
       /\ UNCHANGED events

\* Entering a state; the age of a request restarts and is 0 elsewhere.
Enter(s) == state' = s /\ requestAge' = 0
Stay     == UNCHANGED <<state, requestAge>>

\* Machine.Init: the first position the firmware reports is taken as the boot
\* position, whatever the operator did with the key.
Boot(up) ==
    /\ ~initialised
    /\ initialised' = TRUE
    /\ keyUp' = up
    /\ \/ up /\ emit("boot-key-up")
       \/ ~up /\ UNCHANGED channel
    /\ Stay
    /\ UNCHANGED <<throttleZero, fcReady, checklistOk, confirmCount,
                   sinceTick, consumer>>

KeyEdge(up) ==
    /\ initialised
    /\ keyUp # up
    /\ keyUp' = up
    /\ UNCHANGED <<throttleZero, fcReady, checklistOk, confirmCount,
                   initialised, sinceTick, consumer>>

KeyUp ==
    /\ KeyEdge(TRUE)
    /\ \/ /\ state = "DISARMED"
          /\ Enter("ARMING_REQUESTED") /\ emit("arming-requested")
       \/ state # "DISARMED" /\ Stay /\ UNCHANGED channel

KeyDown ==
    /\ KeyEdge(FALSE)
    /\ \/ state = "DISARMED" /\ Stay /\ UNCHANGED channel
       \/ /\ state = "ARMING_REQUESTED"
          /\ Enter("DISARMED") /\ emit("arming-cancelled")
       \/ /\ state = "ARMED" /\ throttleZero
          /\ Enter("DISARMED") /\ emit("disarmed")
       \/ /\ state = "ARMED" /\ ~throttleZero
          /\ Stay /\ emit("disarm-denied-in-flight")

\* Confirm's gates in their order of precedence: the first that fails names
\* the denial; Armable when none fails.
Armable_ThrottleForgotten == fcReady /\ checklistOk

Armable == throttleZero /\ fcReady /\ checklistOk
Denial  == CASE ~throttleZero -> "arm-denied-throttle"
             [] throttleZero /\ ~fcReady -> "arm-denied-not-ready"
             [] OTHER -> "arm-denied-checklist"

ConfirmPressed ==
    /\ confirmCount' = Saturate(confirmCount)
    /\ UNCHANGED <<keyUp, throttleZero, fcReady, checklistOk, initialised,
                   sinceTick, consumer>>

\* Mutants: the state is not looked at; a denial restarts the timeout.
Confirm_AnyState ==
    /\ ConfirmPressed
    /\ IF Armable THEN Enter("ARMED") /\ emit("armed")
                  ELSE Stay /\ emit(Denial)
Confirm_Extends ==
    /\ ConfirmPressed
    /\ \/ state # "ARMING_REQUESTED" /\ Stay /\ UNCHANGED channel
       \/ /\ state = "ARMING_REQUESTED" /\ ~Armable
          /\ Enter("ARMING_REQUESTED") /\ emit(Denial)
       \/ /\ state = "ARMING_REQUESTED" /\ Armable
          /\ Enter("ARMED") /\ emit("armed")

Confirm ==
    /\ ConfirmPressed
    /\ \/ state # "ARMING_REQUESTED" /\ Stay /\ UNCHANGED channel
       \/ /\ state = "ARMING_REQUESTED" /\ ~Armable
          /\ Stay /\ emit(Denial)
       \/ /\ state = "ARMING_REQUESTED" /\ Armable
          /\ Enter("ARMED") /\ emit("armed")

ThrottleChanged(zero) ==
    /\ throttleZero' = zero
    /\ Stay
    /\ UNCHANGED <<keyUp, fcReady, checklistOk, confirmCount, initialised,
                   channel, sinceTick, consumer>>

FCReadyChanged(ready) ==
    /\ fcReady' = ready
    /\ Stay
    /\ UNCHANGED <<keyUp, throttleZero, checklistOk, confirmCount,
                   initialised, channel, sinceTick, consumer>>

ChecklistOkChanged(ok) ==
    /\ checklistOk' = ok
    /\ Stay
    /\ UNCHANGED <<keyUp, throttleZero, fcReady, confirmCount, initialised,
                   channel, sinceTick, consumer>>

Expired_OffByOne == requestAge > Timeout
Expired == requestAge >= Timeout

\* The ticker's period has passed: Tick expires a request that is old enough.
Tick ==
    /\ sinceTick = TickPeriod
    /\ sinceTick' = 0
    /\ \/ /\ state = "ARMING_REQUESTED" /\ Expired
          /\ Enter("DISARMED") /\ emit("arming-timeout")
       \/ /\ ~(state = "ARMING_REQUESTED" /\ Expired)
          /\ Stay /\ UNCHANGED channel
    /\ UNCHANGED <<keyUp, throttleZero, fcReady, checklistOk, confirmCount,
                   initialised, consumer>>

\* Time passes, but not beyond the ticker's next call: the ticker runs on time.
Elapse ==
    /\ sinceTick < TickPeriod
    /\ sinceTick' = sinceTick + 1
    /\ requestAge' = IF state = "ARMING_REQUESTED" THEN requestAge + 1 ELSE 0
    /\ UNCHANGED <<state, keyUp, throttleZero, fcReady, checklistOk,
                   confirmCount, initialised, channel, consumer>>

\* drainArmEvents takes the next event, which frees its slot in the channel.
Receive ==
    /\ handling = NoEvent
    /\ events # << >>
    /\ handling' = Head(events)
    /\ events' = Tail(events)
    /\ UNCHANGED <<machine, dropped, sinceTick, flightArmed>>

\* ... and is done with its cue, its panel alarm and, for the two flight
\* events, flightArmedHandler, whose last act is jsHolder.SetFlightArmed.
Finish ==
    /\ handling # NoEvent
    /\ flightArmed' = IF handling \in ArmEvents THEN handling = "armed"
                                                ELSE flightArmed
    /\ handling' = NoEvent
    /\ UNCHANGED <<machine, channel, sinceTick>>

Input ==
    \/ \E up \in BOOLEAN : Boot(up)
    \/ KeyUp
    \/ KeyDown
    \/ Confirm
    \/ \E zero \in BOOLEAN : ThrottleChanged(zero)
    \/ \E ready \in BOOLEAN : FCReadyChanged(ready)
    \/ \E ok \in BOOLEAN : ChecklistOkChanged(ok)

Next == Input \/ Tick \/ Elapse \/ Receive \/ Finish

Spec == Init /\ [][Next]_vars

\* Time passes, the ticker's goroutine runs, and the drain goroutine keeps
\* receiving and finishes what it handles.  No input is assumed to come.
Fairness ==
    /\ WF_vars(Elapse)
    /\ WF_vars(Tick)
    /\ WF_vars(Receive)
    /\ WF_vars(Finish)

FairSpec == Spec /\ Fairness

-----------------------------------------------------------------------------

\* A pending request has its key up: no key cycle, cancel or timeout leaves a
\* request behind that a later confirm could turn into ARMED with the key down.
RequestHasKeyUp == state = "ARMING_REQUESTED" => keyUp

\* A request is never older than the timeout plus one ticker period, so a
\* confirm that arms answers a request that recent ("60s arming-request
\* timeout", driven from outside by Tick).
RequestIsFresh ==
    state = "ARMING_REQUESTED" => requestAge < Timeout + TickPeriod

\* A pending request is sound: the parts above, and all values are of their types.
RequestIsSound == TypeOK /\ RequestHasKeyUp /\ RequestIsFresh

\* The flight event that stands for a flag, and the one in effect once the event
\* being handled is done with.
FlightEvent(armed) == IF armed THEN "armed" ELSE "disarmed"
EventInEffect ==
    IF handling \in ArmEvents THEN handling ELSE FlightEvent(flightArmed)

IsArmEvent(q, i) == q[i] \in ArmEvents
FirstArmEvent(q, i) ==
    IsArmEvent(q, i) /\ \A k \in DOMAIN q : k < i => ~IsArmEvent(q, k)
LastArmEvent(q, i) ==
    IsArmEvent(q, i) /\ \A k \in DOMAIN q : k > i => ~IsArmEvent(q, k)
Consecutive(q, i, j) ==
    /\ i < j /\ IsArmEvent(q, i) /\ IsArmEvent(q, j)
    /\ \A k \in DOMAIN q : i < k /\ k < j => ~IsArmEvent(q, k)

\* The flight events of q alternate, the first differs from `from`, and they end
\* at `to`.
Leads(q, from, to) ==
    /\ \A i \in DOMAIN q : FirstArmEvent(q, i) => q[i] # from
    /\ \A i, j \in DOMAIN q : Consecutive(q, i, j) => q[i] # q[j]
    /\ \A i \in DOMAIN q : LastArmEvent(q, i) => q[i] = to
    /\ (\A i \in DOMAIN q : ~IsArmEvent(q, i)) => from = to

\* While no event has been dropped, what the drain still has to do brings the
\* flight flag (recording, controller lock, panel) to the machine's state, and
\* flightArmedHandler is called with TRUE and FALSE in turn.
DrainConverges ==
    dropped = 0 =>
        /\ handling # FlightEvent(flightArmed)
        /\ Leads(events, EventInEffect, FlightEvent(state = "ARMED"))

\* ARMED is entered only from a pending request with throttle at zero, the FC
\* ready and the checklist satisfied, and left only by a key flipped down with
\* the throttle at zero: no timeout, no late confirm and no flapping input moves
\* an armed machine, and no other call arms one.
ArmedIsGated ==
    [][/\ state # "ARMED" /\ state' = "ARMED" =>
              /\ state = "ARMING_REQUESTED" /\ keyUp
              /\ throttleZero /\ fcReady /\ checklistOk
       /\ state = "ARMED" /\ state' # "ARMED" =>
              state' = "DISARMED" /\ throttleZero /\ keyUp /\ ~keyUp']_vars

\* A request does not stay pending for ever, however often the operator presses
\* confirm: it is confirmed, cancelled or timed out.
RequestResolves == state = "ARMING_REQUESTED" ~> state # "ARMING_REQUESTED"
=============================================================================
