----------------------------- MODULE FailsafeChain ----------------------------
(***************************************************************************)
(* The failsafe chain: the daemon's mixer loop (main.go) and its serial    *)
(* link (internal/ipc/link.go) feed the safety floor of the RP2040         *)
(* (RpLink) over a USB pipe.  On the daemon side three goroutines send     *)
(* frames independently: the heartbeat ticker, the handshake loop and the  *)
(* mixer tick; the mixer's frames are gated on the handshake and stop when *)
(* there is no model or the joystick has been gone for the hold window.    *)
(* Either side may die and come back.                                      *)
(*                                                                         *)
(* Every ticker of the daemon fires in each unit of time unless the pipe   *)
(* is full, in which case its write is still blocked; the firmware drains  *)
(* the pipe in every iteration of its loop, which may block anywhere.      *)
(***************************************************************************)
EXTENDS RpLink, Sequences

CONSTANTS
    JsHold,      \* joystickHoldMs, in time units
    HelloPeriod, \* retryEvery of handshakeLoop
    GiveUp,      \* giveUpAt of handshakeLoop
    PipeCap      \* frames the pipe holds before a write blocks (model bound)

ASSUME ChainAssumption ==
    /\ JsHold \in Nat /\ HelloPeriod \in Nat /\ GiveUp \in Nat /\ PipeCap \in Nat
    /\ JsHold > 0 /\ HelloPeriod > 0 /\ PipeCap > 0
    /\ AgeCap > JsHold + WatchdogTime + WatchdogTime /\ AgeCap > GiveUp

VARIABLES
    peer,       \* the firmware's protocol: "match", "mismatch" or "old" (no ack)
    up,         \* is the daemon running with the port open?
    goneFor,    \* time since the daemon ended; 0: it runs
    askedFor,   \* time since handshakeLoop started, counted beyond GiveUp
    verdict,    \* the last comparison of recordHandshakeResult, or "none"
    gate,       \* "closed", or open: "hsOK" or "hsLegacy"
    sinceHello, \* time since the last tick of handshakeLoop
    model,      \* holder.Load() # nil
    js,         \* the installed reader: "none", "connected" or "lost"
    lostFor,    \* time since r.LostAt()
    hbDue,      \* the heartbeat ticker has fired
    mixDue,     \* the mixer ticker has fired
    toMcu,      \* frames written and not yet drained
    ack,        \* a HelloAck is on its way to the daemon
    fresh,      \* has the firmware handled a CHANNEL_INTENT in this unit?
    drove       \* has this run of the daemon sent a CHANNEL_INTENT?

daemon  == <<up, goneFor, askedFor, verdict, gate, sinceHello>>
mixer   == <<model, js, lostFor, drove>>
tickers == <<hbDue, mixDue>>
pipe    == <<toMcu, ack>>
chainVars == <<peer, daemon, mixer, tickers, pipe, fresh, rpVars>>

Peers  == {"match", "mismatch", "old"}
Intents == {<<"intent", c>> : c \in Snapshots}
Frames == {<<"heartbeat">>, <<"hello">>} \cup Intents

ChainTypeOK ==
    /\ RpTypeOK
    /\ peer \in Peers
    /\ up \in BOOLEAN /\ goneFor \in Ages /\ askedFor \in 0..(GiveUp + 1)
    /\ verdict \in {"none", "match", "mismatch"}
    /\ gate \in {"closed", "hsOK", "hsLegacy"}
    /\ sinceHello \in 0..HelloPeriod
    /\ model \in BOOLEAN /\ js \in {"none", "connected", "lost"}
    /\ lostFor \in Ages /\ drove \in BOOLEAN
    /\ hbDue \in BOOLEAN /\ mixDue \in BOOLEAN
    /\ toMcu \in Seq(Frames) /\ Len(toMcu) <= PipeCap
    /\ ack \in BOOLEAN
    /\ fresh \in BOOLEAN

GateOpen == gate # "closed"
Room     == Len(toMcu) < PipeCap

-----------------------------------------------------------------------------

ChainInit ==
    /\ RpInit
    /\ peer \in Peers
    /\ up = FALSE /\ goneFor = AgeCap
    /\ askedFor = 0 /\ verdict = "none" /\ gate = "closed" /\ sinceHello = 0
    /\ model = FALSE /\ js = "none" /\ lostFor = 0 /\ drove = FALSE
    /\ hbDue = FALSE /\ mixDue = FALSE
    /\ toMcu = << >> /\ ack = FALSE
    /\ fresh = FALSE

\* sendFrame: the write blocks while the pipe is full.
Write(f) == Room /\ toMcu' = Append(toMcu, f)

\* main: open the port, start Run (whose handshake loop writes a Hello at
\* once), perhaps with -model and -joystick-name.
Start ==
    /\ ~up
    /\ up' = TRUE /\ goneFor' = 0
    /\ askedFor' = 0 /\ verdict' = "none" /\ gate' = "closed" /\ sinceHello' = 0
    /\ model' \in BOOLEAN
    /\ js' \in {"none", "connected"} /\ lostFor' = 0
    /\ drove' = FALSE
    /\ hbDue' = FALSE /\ mixDue' = FALSE
    /\ Write(<<"hello">>)
    /\ ack' = FALSE
    /\ UNCHANGED <<peer, fresh, rpVars>>

\* The process ends; what it has written is still delivered.
Gone ==
    /\ up' = FALSE /\ goneFor' = 0
    /\ askedFor' = 0 /\ verdict' = "none" /\ gate' = "closed" /\ sinceHello' = 0
    /\ model' = FALSE /\ js' = "none" /\ lostFor' = 0 /\ drove' = FALSE
    /\ hbDue' = FALSE /\ mixDue' = FALSE

Die ==
    /\ up
    /\ Gone
    /\ UNCHANGED <<peer, pipe, fresh, rpVars>>

\* heartbeatLoop: whatever the mixer does.
SendHeartbeat ==
    /\ up /\ hbDue
    /\ Write(<<"heartbeat">>)
    /\ hbDue' = FALSE
    /\ UNCHANGED <<peer, daemon, mixer, mixDue, ack, fresh, rpVars>>

\* Mutant: the disconnected reader is not looked at.
MayEmit_LossIgnored == model

\* The mixer's two early exits: no model, joystick gone for the hold window.
MayEmit == model /\ ~(js = "lost" /\ lostFor >= JsHold)

\* Mutant: the handshake gate is forgotten.
MixerTick_Ungated ==
    /\ up /\ mixDue
    /\ mixDue' = FALSE
    /\ \/ /\ MayEmit
          /\ \E c \in Snapshots : Write(<<"intent", c>>)
          /\ drove' = TRUE
       \/ ~MayEmit /\ UNCHANGED <<toMcu, drove>>
    /\ UNCHANGED <<peer, daemon, model, js, lostFor, hbDue, ack, fresh, rpVars>>

\* One turn of the 50 Hz loop, with SendChannelIntent and its gate.
MixerTick ==
    /\ up /\ mixDue
    /\ mixDue' = FALSE
    /\ \/ /\ MayEmit /\ GateOpen
          /\ \E c \in Snapshots : Write(<<"intent", c>>)
          /\ drove' = TRUE
       \/ ~(MayEmit /\ GateOpen) /\ UNCHANGED <<toMcu, drove>>
    /\ UNCHANGED <<peer, daemon, model, js, lostFor, hbDue, ack, fresh, rpVars>>

\* handshakeLoop has been waiting for an ack for longer than giveUpAt.
Overdue == askedFor > GiveUp

\* Mutant: the deadline is looked at but the loop goes on asking.
HandshakeTick_NeverLegacy ==
    /\ up /\ gate = "closed" /\ sinceHello = HelloPeriod
    /\ sinceHello' = 0
    /\ Write(<<"hello">>) /\ UNCHANGED gate
    /\ UNCHANGED <<peer, up, goneFor, askedFor, verdict, mixer, tickers, ack, fresh, rpVars>>

\* A tick of handshakeLoop with no outcome yet: legacy mode or another Hello.
HandshakeTick ==
    /\ up /\ gate = "closed" /\ sinceHello = HelloPeriod
    /\ sinceHello' = 0
    /\ \/ Overdue /\ gate' = "hsLegacy" /\ UNCHANGED toMcu
       \/ ~Overdue /\ Write(<<"hello">>) /\ UNCHANGED gate
    /\ UNCHANGED <<peer, up, goneFor, askedFor, verdict, mixer, tickers, ack, fresh, rpVars>>

\* dispatch(MsgHelloAck) -> recordHandshakeResult: a mismatch is only logged.
ReceiveAck ==
    /\ up /\ ack
    /\ ack' = FALSE
    /\ verdict' = IF gate = "hsOK" THEN verdict ELSE peer
    /\ gate' = IF peer = "match" THEN "hsOK" ELSE gate
    /\ UNCHANGED <<peer, up, goneFor, askedFor, sinceHello, mixer, tickers, toMcu,
                   fresh, rpVars>>

\* LoadModel / UnloadModel, as the mixer sees them.
SwitchModel ==
    /\ up
    /\ model' = ~model
    /\ UNCHANGED <<peer, daemon, js, lostFor, drove, tickers, pipe, fresh, rpVars>>

\* JOYDEVICEREMOVED for the installed reader.
LoseJoystick ==
    /\ up /\ js = "connected"
    /\ js' = "lost" /\ lostFor' = 0
    /\ UNCHANGED <<peer, daemon, model, drove, tickers, pipe, fresh, rpVars>>

\* A reader is installed (selection or reattachment) or released (none).
InstallJoystick ==
    /\ up
    /\ js' \in {"none", "connected"} /\ js' # js
    /\ lostFor' = 0
    /\ UNCHANGED <<peer, daemon, model, drove, tickers, pipe, fresh, rpVars>>

DaemonNext ==
    \/ Start \/ Die
    \/ SendHeartbeat \/ MixerTick \/ HandshakeTick \/ ReceiveAck
    \/ SwitchModel \/ LoseJoystick \/ InstallJoystick

-----------------------------------------------------------------------------

\* The firmware side.  The port counts as connected while the daemon has it
\* open, and input is only drained then or while bytes are left.
IterationTop ==
    /\ LoopTop(up)
    /\ UNCHANGED <<peer, daemon, mixer, tickers, pipe, fresh>>

Drain(f) ==
    /\ linkState # "BOOT"
    /\ toMcu # << >> /\ Head(toMcu) = f
    /\ toMcu' = Tail(toMcu)

DrainHeartbeat ==
    /\ Drain(<<"heartbeat">>)
    /\ HandleHeartbeat
    /\ UNCHANGED <<peer, daemon, mixer, tickers, ack, fresh>>

DrainIntent ==
    \E c \in Snapshots :
        /\ Drain(<<"intent", c>>)
        /\ HandleIntent(c)
        /\ fresh' = TRUE
        /\ UNCHANGED <<peer, daemon, mixer, tickers, ack>>

\* MSG_HELLO is answered by a firmware that knows it, with its own version.
DrainHello ==
    /\ stage = "draining"
    /\ Drain(<<"hello">>)
    /\ ack' = (up /\ (ack \/ peer # "old"))
    /\ UNCHANGED <<peer, daemon, mixer, tickers, fresh, rpVars>>

\* The pipe is drained before the tick; whatever comes later waits for the next
\* iteration.
IterationTick ==
    /\ linkState = "BOOT" \/ toMcu = << >>
    /\ StateTick
    /\ UNCHANGED <<peer, daemon, mixer, tickers, pipe, fresh>>

IterationEnd ==
    /\ Emit
    /\ UNCHANGED <<peer, daemon, mixer, tickers, pipe, fresh>>

\* The watchdog resets the chip; the port vanishes, Run returns the read error
\* and main cancels its context, so the daemon ends too.
ChipReset ==
    /\ WatchdogReset
    /\ Gone
    /\ toMcu' = << >> /\ ack' = FALSE
    /\ fresh' = FALSE
    /\ UNCHANGED peer

\* The tickers of this unit have been served, or their writes are blocked.
DaemonServed ==
    up => /\ ~(hbDue /\ Room) /\ ~(mixDue /\ Room)
          /\ ~(gate = "closed" /\ sinceHello = HelloPeriod /\ (Room \/ Overdue))
          /\ ~ack
Pass ==
    /\ DaemonServed
    /\ Elapse
    /\ goneFor' = IF up THEN 0 ELSE Older(goneFor)
    /\ askedFor' = IF up /\ ~Overdue THEN askedFor + 1 ELSE askedFor
    /\ fresh' = FALSE
    /\ lostFor' = IF js = "lost" THEN Older(lostFor) ELSE 0
    /\ sinceHello' = IF up /\ gate = "closed" /\ sinceHello < HelloPeriod
                     THEN sinceHello + 1 ELSE sinceHello
    /\ hbDue' = up /\ mixDue' = up
    /\ UNCHANGED <<peer, up, verdict, gate, model, js, drove, pipe>>

FirmwareNext ==
    \/ IterationTop \/ DrainHeartbeat \/ DrainIntent \/ DrainHello
    \/ IterationTick \/ IterationEnd \/ ChipReset

ChainNext == DaemonNext \/ FirmwareNext \/ Pass
ChainSpec == ChainInit /\ [][ChainNext]_chainVars

\* Time goes on whatever the two programs do (no process starts and dies
\* endlessly within one unit).  That is enough: Pass waits for the tickers that
\* are due, and for the iteration that the watchdog will not let block longer.
ChainFairness == []<><<Pass>>_chainVars
ChainFairSpec == ChainSpec /\ ChainFairness

-----------------------------------------------------------------------------

\* Beyond the bound of emission: a frame of the daemon that ended can wait in
\* the pipe until an iteration reads the clock that will date it.
ChainBound == HbTimeout + HoldTime + WatchdogTime + WatchdogTime + WatchdogTime

\* The end of the daemon (crash, kill, cable) reaches the radio within the
\* chain's time, whatever was in the pipe and however the firmware stalls.
DaemonDeathSilencesRadio ==
    ~up /\ goneFor > ChainBound => onAir = Nothing

\* Once the joystick has been gone for the hold window (main.go, 1354-1372) the
\* firmware gets no new channels; only frames already in the pipe are left, and
\* they wait for the rest of an iteration and the drain of the next one.
DrainTime == WatchdogTime + WatchdogTime
JoystickLossStopsIntents ==
    js = "lost" /\ lostFor >= JsHold + DrainTime
        => \A i \in DOMAIN toMcu : toMcu[i] \notin Intents

\* What is lost is no longer followed: a dead daemon leaves the air silent, a
\* lost joystick brings no new channels (the last ones are repeated, see
\* SilenceReachesRadio below), and all values are of their types.
LossesSilence == ChainTypeOK /\ DaemonDeathSilencesRadio /\ JoystickLossStopsIntents

\* Channels of a daemon reach the firmware only after the handshake gave a
\* verdict: a matching version, or no match for the whole waiting time
\* (link.go, 221-239 and 284-339).
DrivenOnlyAfterVerdict ==
    drove => peer = "match" \/ Overdue

\* The chain never stretches what the safety floor does on its own: every step
\* of the composition is a step of RpLink or leaves its state alone.
FloorIsRpLink == RpSpec

\* So the floor's promise, the dead man's switch of Deadman, holds in the chain too.
FloorKept == FloorIsRpLink /\ KeepsDeadman

\* A daemon that keeps running with a model and a joystick gets its channels
\* on the air again and again, whatever version the firmware has, if the
\* firmware stops stalling.
FlyingReachesRadio ==
    <>[](up /\ model /\ js = "connected" /\ Running)
        => []<>(onAir \in Snapshots /\ fresh)

\* The radio follows the daemon: silence follows on its end, emission on its
\* heartbeats (link_state.c), and its channels on its flying.
RadioFollows == Silenced /\ HeartbeatsRevive /\ FlyingReachesRadio

-----------------------------------------------------------------------------
(* What the documents say, and the code does not do. *)

\* SAFETY.md, "Failsafe chain" and "Joystick disconnect behavior": a joystick
\* gone for the hold window silences the daemon, and that silence reaches the
\* radio within the chain's time.
SilenceReachesRadio ==
    drove /\ js = "lost" /\ lostFor > JsHold + DrainTime + ChainBound
        => onAir = Nothing
===============================================================================
