------------------------------- MODULE ArmConfig ------------------------------
(***************************************************************************)
(* The firmware-level disarm (arm_override.c) and the configuration it     *)
(* depends on: which channel is the throttle and which arms.  The daemon   *)
(* pushes it from two places, a goroutine that waits for the handshake     *)
(* after boot (waitHandshakeAndPushArmConfig) and the handler of every     *)
(* model load (LoadModel); each reads the active model first and sends     *)
(* later, and nothing orders them.  The 50 Hz mixer sends channels over    *)
(* the same serial pipe.                                                   *)
(***************************************************************************)
EXTENDS Naturals, Sequences

CONSTANTS
    Models,      \* loadable models
    Slots,       \* channel indices in play
    ThrSlot,     \* [Models -> Slots]: EdgeTX.ThrottleChannel()
    ArmSlot,     \* [Models -> Slots]: ZeroTX.ArmChannel, or the default
    DefaultThr, DefaultArm, \* the compile-time TAER defaults
    Requests,    \* API goroutines that may be inside LoadModel
    PipeCap,     \* frames in flight to the firmware (model bound)
    LoadCap      \* model loads per behaviour (model bound)

NoModel == "none"

ASSUME SlotAssumption ==
    /\ ThrSlot \in [Models -> Slots] /\ ArmSlot \in [Models -> Slots]
    /\ DefaultThr \in Slots /\ DefaultArm \in Slots
    /\ NoModel \notin Models
ASSUME CapAssumption == PipeCap \in Nat /\ LoadCap \in Nat

VARIABLES
    config,     \* firmware: s.thr_idx, s.arm_idx
    channels,   \* firmware: s_channels, "low" at or below thr_threshold
    mixedFor,   \* history: the model whose mixer made the channels, or None
    holder,     \* daemon: the active model, or None
    gate,       \* daemon: handshake complete or legacy
    boot,       \* the boot goroutine: waits, read (with what it read), done
    request,    \* per API goroutine: idle, stored, read (with what it read)
    overlapped, \* have two pushers ever been at work at the same time?
    loads,      \* model loads so far
    stick,      \* the operator's throttle
    toMcu       \* frames in flight to the firmware

firmware == <<config, channels, mixedFor>>
pushers  == <<boot, request, overlapped>>
acVars   == <<firmware, holder, gate, pushers, loads, stick, toMcu>>

Levels   == {"low", "high"}
Configs  == [thr : Slots, arm : Slots]
Frames   == [kind : {"config"}, cfg : Configs]
                \cup [kind : {"intent"}, ch : [Slots -> Levels], of : Models]

ArmConfigTypeOK ==
    /\ config \in Configs /\ channels \in [Slots -> Levels]
    /\ holder \in Models \cup {NoModel} /\ gate \in BOOLEAN
    /\ boot \in [at : {"waits", "read", "done"}, cfg : Configs]
    /\ request \in [Requests -> [at : {"idle", "stored", "read"}, cfg : Configs]]
    /\ overlapped \in BOOLEAN /\ loads \in 0..LoadCap
    /\ stick \in Levels /\ mixedFor \in Models \cup {NoModel}
    /\ toMcu \in Seq(Frames) /\ Len(toMcu) <= PipeCap

DefaultConfig == [thr |-> DefaultThr, arm |-> DefaultArm]

\* armConfigFromModel.
ConfigOf(m) ==
    IF m = NoModel THEN DefaultConfig ELSE [thr |-> ThrSlot[m], arm |-> ArmSlot[m]]

\* Where a pusher is; the configuration it read counts only at "read".
At(p)   == [at |-> p, cfg |-> DefaultConfig]
Read(c) == [at |-> "read", cfg |-> c]

-----------------------------------------------------------------------------

\* state_init: everything centred but the slots an AETR layout would use.
ConfigInit ==
    /\ config = DefaultConfig
    /\ channels = [i \in Slots |-> IF i \in {2, 4} THEN "low" ELSE "high"]
    /\ holder \in Models \cup {NoModel}
    /\ gate = FALSE
    /\ boot = At("waits")
    /\ request = [r \in Requests |-> At("idle")]
    /\ overlapped = FALSE
    /\ loads = 0
    /\ stick = "low" /\ mixedFor = NoModel
    /\ toMcu = << >>

Write(f) == Len(toMcu) < PipeCap /\ toMcu' = Append(toMcu, f)

Handshake ==
    /\ ~gate /\ gate' = TRUE
    /\ UNCHANGED <<firmware, holder, pushers, loads, stick, toMcu>>

\* The boot goroutine sees the handshake completed and reads the holder.
BootRead ==
    /\ gate /\ boot.at = "waits"
    /\ boot' = Read(ConfigOf(holder))
    /\ overlapped' = (overlapped \/ \E r \in Requests : request[r].at # "idle")
    /\ UNCHANGED <<firmware, holder, gate, request, loads, stick, toMcu>>

BootPush ==
    /\ boot.at = "read"
    /\ Write([kind |-> "config", cfg |-> boot.cfg])
    /\ boot' = At("done")
    /\ UNCHANGED <<firmware, holder, gate, request, overlapped, loads, stick>>

\* LoadModel, first part: loadModel swaps the new stack in.
LoadStore(r, m) ==
    /\ request[r].at = "idle" /\ loads < LoadCap
    /\ loads' = loads + 1
    /\ holder' = m
    /\ request' = [request EXCEPT ![r] = At("stored")]
    /\ overlapped' = \/ overlapped
                     \/ boot.at = "read"
                     \/ \E q \in Requests : request[q].at # "idle"
    /\ UNCHANGED <<firmware, gate, boot, stick, toMcu>>

\* Then it reads the holder again for the configuration.
LoadRead(r) ==
    /\ request[r].at = "stored"
    /\ request' = [request EXCEPT ![r] = Read(ConfigOf(holder))]
    /\ UNCHANGED <<firmware, holder, gate, boot, overlapped, loads, stick, toMcu>>

\* Mutant: the push of a model load goes out only if boot's has not.
LoadPush_OnlyBeforeBoot(r) ==
    /\ request[r].at = "read"
    /\ \/ gate /\ boot.at # "done" /\ Write([kind |-> "config", cfg |-> request[r].cfg])
       \/ ~(gate /\ boot.at # "done") /\ UNCHANGED toMcu
    /\ request' = [request EXCEPT ![r] = At("idle")]
    /\ UNCHANGED <<firmware, holder, gate, boot, overlapped, loads, stick>>

\* And SendArmConfig writes it, or drops it while the gate is closed.
LoadPush(r) ==
    /\ request[r].at = "read"
    /\ \/ gate /\ Write([kind |-> "config", cfg |-> request[r].cfg])
       \/ ~gate /\ UNCHANGED toMcu
    /\ request' = [request EXCEPT ![r] = At("idle")]
    /\ UNCHANGED <<firmware, holder, gate, boot, overlapped, loads, stick>>

\* UnloadModel pushes nothing.
Unload ==
    /\ holder # NoModel
    /\ holder' = NoModel
    /\ UNCHANGED <<firmware, gate, pushers, loads, stick, toMcu>>

MoveStick ==
    /\ stick' \in Levels \ {stick}
    /\ UNCHANGED <<firmware, holder, gate, pushers, loads, toMcu>>

\* A mixer tick with a model sends the channels.  Those other than the throttle
\* are free, but share one level.
MixerTick ==
    /\ holder # NoModel /\ gate
    /\ \E rest \in Levels :
           Write([kind |-> "intent", of |-> holder,
                  ch |-> [[i \in Slots |-> rest] EXCEPT ![ThrSlot[holder]] = stick]])
    /\ UNCHANGED <<firmware, holder, gate, pushers, loads, stick>>

\* The firmware handles the next frame (handle_frame).
HandleFrame ==
    /\ toMcu # << >>
    /\ toMcu' = Tail(toMcu)
    /\ \/ /\ Head(toMcu).kind = "config"
          /\ config' = Head(toMcu).cfg /\ UNCHANGED <<channels, mixedFor>>
       \/ /\ Head(toMcu).kind = "intent"
          /\ channels' = Head(toMcu).ch /\ mixedFor' = Head(toMcu).of
          /\ UNCHANGED config
    /\ UNCHANGED <<holder, gate, pushers, loads, stick>>

\* Mutant: the throttle is not looked at.
KeyDownEdge_AlwaysCut ==
    /\ channels' = [channels EXCEPT ![config.arm] = "low"]
    /\ UNCHANGED <<config, mixedFor, holder, gate, pushers, loads, stick, toMcu>>

\* arm_override_on_arm_key_edge(false): on a low throttle the arm channel is
\* cut, otherwise the disarm is refused and nothing happens.
KeyDownEdge ==
    /\ channels[config.thr] = "low"
    /\ channels' = [channels EXCEPT ![config.arm] = "low"]
    /\ UNCHANGED <<config, mixedFor, holder, gate, pushers, loads, stick, toMcu>>

ConfigNext ==
    \/ Handshake \/ BootRead \/ BootPush
    \/ \E r \in Requests : \/ \E m \in Models : LoadStore(r, m)
                           \/ LoadRead(r) \/ LoadPush(r)
    \/ Unload \/ MoveStick \/ MixerTick
    \/ HandleFrame \/ KeyDownEdge

ConfigSpec == ConfigInit /\ [][ConfigNext]_acVars

-----------------------------------------------------------------------------

\* No push is under way and none is in flight.
PushesSettled ==
    /\ gate /\ boot.at = "done"
    /\ \A r \in Requests : request[r].at = "idle"
    /\ \A i \in 1..Len(toMcu) : toMcu[i].kind # "config"

\* As long as no two pushers overlapped, the firmware's disarm uses the slots
\* of the active model once everything is settled, also when models were loaded
\* before the handshake, whose own push the gate dropped.
SerialPushesConverge ==
    PushesSettled /\ ~overlapped /\ holder # NoModel => config = ConfigOf(holder)

\* The configuration is consistent: the pushes converge and all values are of
\* their types.
ConfigFollowsModel == ArmConfigTypeOK /\ SerialPushesConverge

\* Nor does the override then ever cut the motors in flight: it lowers the arm
\* channel only when the throttle that the model's own mixer sent is low, though
\* it knows the throttle only by the slot it was configured with.
NoCutInFlight ==
    [][ channels'[config.arm] # channels[config.arm] /\ mixedFor' = mixedFor
          /\ toMcu' = toMcu /\ PushesSettled /\ ~overlapped
          /\ holder # NoModel /\ mixedFor = holder
        => channels[ThrSlot[holder]] = "low" ]_acVars
===============================================================================
