-------------------------------- MODULE RpLink --------------------------------
(***************************************************************************)
(* The safety floor of the RP2040 (firmware/crsf/src/state.c and the main  *)
(* loop of main.c): the link states BOOT, PENDING, OK, HOLD and FAILSAFE,  *)
(* the channel snapshot that is repeated to the radio, and the hardware    *)
(* watchdog.                                                               *)
(*                                                                         *)
(* An iteration kicks the watchdog and reads the clock once, at its top;   *)
(* every frame it drains, state_tick and the emission then use that        *)
(* reading.  Anything on the way may block, so each of them may happen     *)
(* long after the reading: `lag` is how long ago that was, and the time to *)
(* the next kick.  A unit of time is long beside an iteration (100 us) and *)
(* short beside the watchdog timeout, at which the chip resets.            *)
(***************************************************************************)
EXTENDS Naturals

CONSTANTS
    HbTimeout,     \* ZTX_HEARTBEAT_RX_TIMEOUT_MS, in time units
    HoldTime,      \* ZTX_HOLD_MS
    WatchdogTime,  \* WATCHDOG_TIMEOUT_MS
    AgeCap,        \* ages saturate here, above everything they are compared to
    Snapshots,     \* the channel values a CHANNEL_INTENT may carry
    DefaultChannels \* the channels of state_init

Nothing == "nothing"   \* no channel frame went to the radio

ASSUME TimesAssumption ==
    /\ HbTimeout \in Nat /\ HoldTime \in Nat /\ WatchdogTime \in Nat
    /\ AgeCap \in Nat
    /\ HbTimeout > 0 /\ WatchdogTime > 1
    /\ AgeCap > HbTimeout + HoldTime + WatchdogTime + WatchdogTime + WatchdogTime
ASSUME SnapshotAssumption == Nothing \notin Snapshots \cup {DefaultChannels}

VARIABLES
    linkState,   \* s_state
    hbAge,       \* time since s_last_heartbeat_us, a reading of the clock
    heldFor,     \* time since s_state_entered_us, kept in HOLD and 0 elsewhere
    snapshot,    \* s_channels
    onAir,       \* the channels emitted in this unit of time, or Nothing
    stage,       \* of the iteration: "top", "draining" or "ticked"
    lag          \* time since the last kick of the watchdog and reading of `now`

floor == <<linkState, hbAge, heldFor, snapshot>>
loop  == <<onAir, stage, lag>>
rpVars == <<floor, loop>>

LinkStates == {"BOOT", "PENDING", "OK", "HOLD", "FAILSAFE"}
Stages     == {"top", "draining", "ticked"}
Ages       == 0..AgeCap

Older(n)   == IF n < AgeCap THEN n + 1 ELSE AgeCap

\* The loop keeps its pace: no time passes in the middle of an iteration, and a
\* new one begins in every unit.
Running    == lag <= 1 /\ (lag > 0 => stage = "top")

RpTypeOK ==
    /\ linkState \in LinkStates
    /\ hbAge \in Ages /\ heldFor \in Ages
    /\ snapshot \in Snapshots \cup {DefaultChannels}
    /\ onAir \in Snapshots \cup {DefaultChannels, Nothing}
    /\ stage \in Stages
    /\ lag \in 0..WatchdogTime

-----------------------------------------------------------------------------

\* state_init, and the watchdog is armed.
RpInit ==
    /\ linkState = "BOOT" /\ hbAge = AgeCap /\ heldFor = 0
    /\ snapshot = DefaultChannels
    /\ onAir = Nothing /\ stage = "top" /\ lag = 0

\* The top of an iteration: the kick, the one reading of the clock, and with
\* the port open state_note_usb_ready.
LoopTop(usb) ==
    /\ stage = "top"
    /\ stage' = "draining" /\ lag' = 0
    /\ linkState' = IF usb /\ linkState = "BOOT" THEN "PENDING" ELSE linkState
    /\ UNCHANGED <<hbAge, heldFor, snapshot, onAir>>

\* enter, with the reading of this iteration: what was entered is dated back.
Enter(s) == linkState' = s /\ heldFor' = IF s = "HOLD" THEN lag ELSE 0

\* The states state_note_heartbeat leaves for OK.
Revived == {"PENDING", "HOLD", "FAILSAFE"}

\* state_note_heartbeat.  In BOOT only the time is noted.
NoteHeartbeat ==
    /\ hbAge' = lag
    /\ \/ linkState \in Revived /\ Enter("OK")
       \/ linkState \notin Revived /\ UNCHANGED <<linkState, heldFor>>

\* handle_frame, MSG_HEARTBEAT.
HandleHeartbeat ==
    /\ stage = "draining"
    /\ NoteHeartbeat
    /\ UNCHANGED <<snapshot, loop>>

\* handle_frame, MSG_CHANNEL_INTENT: the channels, then liveness evidence.
HandleIntent(c) ==
    /\ stage = "draining"
    /\ snapshot' = c
    /\ NoteHeartbeat
    /\ UNCHANGED loop

\* Mutant: the heartbeat age is never looked at again after the first one.
HeartbeatLate_Ignored == hbAge > AgeCap

\* hb_age_us > ZTX_HEARTBEAT_RX_TIMEOUT_MS, at the reading of this iteration.
HeartbeatLate == hbAge > HbTimeout + lag

\* held_us > ZTX_HOLD_MS, at the same reading.
HoldOver == heldFor > HoldTime + lag

\* state_tick, one transition at most: OK -> HOLD -> FAILSAFE.
StateTick ==
    /\ stage = "draining"
    /\ stage' = "ticked"
    /\ \/ linkState = "OK" /\ HeartbeatLate /\ Enter("HOLD")
       \/ linkState = "HOLD" /\ HoldOver /\ Enter("FAILSAFE")
       \/ /\ ~(linkState = "OK" /\ HeartbeatLate)
          /\ ~(linkState = "HOLD" /\ HoldOver)
          /\ UNCHANGED <<linkState, heldFor>>
    /\ UNCHANGED <<hbAge, snapshot, onAir, lag>>

\* state_should_emit_crsf.
ShouldEmit(s) == s \in {"OK", "HOLD"}

\* The end of an iteration: CRSF emission, by the state of the tick.
Emit ==
    /\ stage = "ticked"
    /\ stage' = "top"
    /\ \/ ShouldEmit(linkState) /\ onAir' = snapshot
       \/ ~ShouldEmit(linkState) /\ onAir' = Nothing
    /\ UNCHANGED <<floor, lag>>

\* Mutant: the reset keeps the link state, as a warm restart would.
Reset_KeepsState ==
    /\ heldFor' = 0 /\ hbAge' = AgeCap
    /\ onAir' = Nothing /\ stage' = "top" /\ lag' = 0
    /\ UNCHANGED <<linkState, snapshot>>

\* The chip restarts: main runs state_init again.
Reset ==
    /\ linkState' = "BOOT" /\ heldFor' = 0
    /\ hbAge' = AgeCap
    /\ snapshot' = DefaultChannels
    /\ onAir' = Nothing /\ stage' = "top" /\ lag' = 0

\* The watchdog fires.
WatchdogReset == lag = WatchdogTime /\ Reset

\* One unit of time.  It may pass between any two steps of an iteration, which
\* then has blocked in between, but never beyond the watchdog.
Elapse ==
    /\ lag < WatchdogTime
    /\ lag' = lag + 1
    /\ hbAge' = Older(hbAge)
    /\ heldFor' = IF linkState = "HOLD" THEN Older(heldFor) ELSE 0
    /\ onAir' = Nothing
    /\ UNCHANGED <<linkState, snapshot, stage>>

RpNext ==
    \/ \E usb \in BOOLEAN : LoopTop(usb)
    \/ HandleHeartbeat
    \/ \E c \in Snapshots : HandleIntent(c)
    \/ StateTick
    \/ Emit
    \/ WatchdogReset
    \/ Elapse

RpSpec == RpInit /\ [][RpNext]_rpVars

-----------------------------------------------------------------------------

\* Channels go on the air only while the Pi was heard within the heartbeat
\* timeout plus the hold time, stretched by two watchdog periods and never by
\* more, however often and wherever an iteration of main.c blocks: one, because
\* the heartbeat can turn late just after the reading of the clock that still
\* took it for timely, and one, because the emission can come that much after
\* the reading by which HOLD was not over.
EmissionNeedsPi ==
    onAir # Nothing => hbAge <= HbTimeout + HoldTime + WatchdogTime + WatchdogTime

\* The link states keep the promise of Deadman: feeding is "state_should_emit".
\* A last period is that of the iteration whose tick will end HOLD.
FeedBound == HbTimeout + HoldTime + WatchdogTime + WatchdogTime + WatchdogTime
Feeding   == linkState \in {"OK", "HOLD"}
Floor     == INSTANCE Deadman WITH Bound <- FeedBound, DateBack <- WatchdogTime,
                                   silence <- hbAge, feeding <- Feeding

\* state.c never starts feeding the radio on a timer, a USB event or a reset,
\* and never keeps feeding beyond the bound.
KeepsDeadman == Floor!DmSpec

\* Was a frame of the Pi taken in by this iteration?
JustHeard == hbAge = lag

\* When the Pi stays silent for ever the radio falls silent for good, also
\* when the main loop stalls again and again.
Silenced == <>[](~JustHeard) => <>[](onAir = Nothing)

\* Heartbeats that keep coming bring emission back from every state, FAILSAFE
\* included, once USB is up and the loop no longer stalls.
HeartbeatsRevive ==
    (<>[](Running /\ linkState # "BOOT") /\ []<>JustHeard) => []<>(onAir # Nothing)
===============================================================================
