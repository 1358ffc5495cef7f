-------------------------- MODULE FailsafeChainProofs --------------------------
(*****************************************************************************)
(* The safety floor of the RP2040 (RpLink), that the composed chain keeps    *)
(* what it promises, that the daemon never drives a link whose firmware it   *)
(* has not accepted, and that losses end in silence: for every value of the  *)
(* constants.                                                                *)
(*****************************************************************************)
EXTENDS FailsafeChain, TLAPS

-----------------------------------------------------------------------------
(* The floor.  The invariant says how old the heartbeat can be in OK and how *)
(* long HOLD can have lasted at each stage of an iteration, in terms of the  *)
(* time since it read the clock: before the tick the ages are those that the *)
(* last iteration let pass, and what has passed since.                       *)

USE TimesAssumption

LoopType ==
    /\ linkState \in LinkStates
    /\ hbAge \in Ages /\ heldFor \in Ages
    /\ stage \in Stages
    /\ lag \in 0..WatchdogTime

ChannelsType ==
    /\ snapshot \in Snapshots \cup {DefaultChannels}
    /\ onAir \in Snapshots \cup {DefaultChannels, Nothing}

\* The heartbeat age in OK.
OkAge ==
    linkState = "OK" =>
        /\ stage = "draining" => hbAge <= HbTimeout + WatchdogTime + lag
        /\ stage # "draining" => hbAge <= HbTimeout + lag

\* The time spent in HOLD, and what the heartbeat age is beyond it.
HoldAge ==
    linkState = "HOLD" =>
        /\ hbAge <= HbTimeout + WatchdogTime + heldFor
        /\ stage = "draining" => heldFor <= HoldTime + WatchdogTime + lag
        /\ stage # "draining" => heldFor <= HoldTime + lag

FloorInv == LoopType /\ ChannelsType /\ OkAge /\ HoldAge /\ EmissionNeedsPi

-----------------------------------------------------------------------------

LEMMA OlderStep ==
    ASSUME NEW n \in Ages
    PROVE  Older(n) \in Ages /\ Older(n) >= n /\ Older(n) <= n + 1
                 /\ (n < AgeCap => Older(n) = n + 1)
  BY DEF Older, Ages

LEMMA InitFloor == RpInit => FloorInv
  BY DEF RpInit, FloorInv, LoopType, ChannelsType, OkAge, HoldAge, EmissionNeedsPi,
         LinkStates, Stages, Ages

LEMMA TopFloor == ASSUME FloorInv, NEW usb \in BOOLEAN, LoopTop(usb) PROVE FloorInv'
<1> USE DEF FloorInv
<1>1. LoopType' /\ ChannelsType'
  BY DEF LoopType, ChannelsType, LoopTop, LinkStates, Stages, Ages
<1>2. linkState' \in {"OK", "HOLD"} => linkState' = linkState
  BY DEF LoopTop
<1>3. hbAge' = hbAge /\ heldFor' = heldFor /\ onAir' = onAir
  BY DEF LoopTop
<1>4. stage = "top" /\ stage' = "draining" /\ lag' = 0 /\ lag <= WatchdogTime
  BY DEF LoopTop, LoopType
<1>5. OkAge' /\ HoldAge' /\ EmissionNeedsPi'
  BY <1>2, <1>3, <1>4 DEF OkAge, HoldAge, EmissionNeedsPi, LoopType, Ages
<1>6. QED BY <1>1, <1>5

LEMMA HeartbeatFloor ==
    ASSUME FloorInv, HandleHeartbeat PROVE FloorInv'
  BY DEF FloorInv, LoopType, ChannelsType, OkAge, HoldAge, EmissionNeedsPi, LinkStates,
         Ages, HandleHeartbeat, NoteHeartbeat, Revived, Enter, loop

LEMMA IntentFloor ==
    ASSUME FloorInv, NEW c \in Snapshots, HandleIntent(c) PROVE FloorInv'
  BY DEF FloorInv, LoopType, ChannelsType, OkAge, HoldAge, EmissionNeedsPi, LinkStates,
         Ages, HandleIntent, NoteHeartbeat, Revived, Enter, loop

LEMMA TickFloor == ASSUME FloorInv, StateTick PROVE FloorInv'
<1> USE DEF FloorInv
<1>1. LoopType' /\ ChannelsType'
  BY DEF LoopType, ChannelsType, StateTick, Enter, LinkStates, Stages, Ages
<1>2. OkAge'
  BY DEF OkAge, LoopType, StateTick, HeartbeatLate, Enter, Ages
<1>3. HoldAge'
  <2>1. CASE linkState = "OK" /\ HeartbeatLate
    BY <2>1 DEF OkAge, HoldAge, LoopType, StateTick, Enter, Ages
  <2>2. CASE ~(linkState = "OK" /\ HeartbeatLate)
    BY <2>2 DEF OkAge, HoldAge, LoopType, StateTick, HoldOver, Enter, Ages
  <2>3. QED BY <2>1, <2>2
<1>4. EmissionNeedsPi'
  BY DEF EmissionNeedsPi, StateTick
<1>5. QED BY <1>1, <1>2, <1>3, <1>4

LEMMA EmitFloor == ASSUME FloorInv, Emit PROVE FloorInv'
<1> USE DEF FloorInv
<1>1. LoopType' /\ ChannelsType'
  BY DEF LoopType, ChannelsType, Emit, floor, Stages
<1>2. OkAge' /\ HoldAge'
  BY DEF OkAge, HoldAge, Emit, floor
<1>3. EmissionNeedsPi'
  <2> SUFFICES ASSUME onAir' # Nothing
               PROVE  hbAge' <= HbTimeout + HoldTime + WatchdogTime + WatchdogTime
    BY DEF EmissionNeedsPi
  <2>1. linkState \in {"OK", "HOLD"} /\ stage = "ticked" /\ hbAge' = hbAge
    BY DEF Emit, ShouldEmit, floor
  <2>2. CASE linkState = "OK"
    BY <2>1, <2>2 DEF OkAge, LoopType, Ages
  <2>3. CASE linkState = "HOLD"
    BY <2>1, <2>3 DEF HoldAge, LoopType, Ages
  <2>4. QED BY <2>1, <2>2, <2>3
<1>4. QED BY <1>1, <1>2, <1>3

LEMMA ResetFloor == ASSUME FloorInv, WatchdogReset PROVE FloorInv'
  BY DEF FloorInv, LoopType, ChannelsType, OkAge, HoldAge, EmissionNeedsPi, LinkStates,
         Stages, Ages, WatchdogReset, Reset

LEMMA ElapseFloor == ASSUME FloorInv, Elapse PROVE FloorInv'
<1> USE DEF FloorInv
<1>1. hbAge' \in Ages /\ hbAge' <= hbAge + 1
  BY OlderStep DEF Elapse, LoopType
<1>2. linkState = "HOLD" => heldFor < AgeCap
  BY DEF HoldAge, LoopType, Elapse, Ages
<1>3. linkState = "HOLD" => heldFor' \in Ages /\ heldFor' = heldFor + 1
  BY <1>2, OlderStep DEF Elapse, LoopType
<1>4. linkState # "HOLD" => heldFor' = 0
  BY DEF Elapse
<1>5. LoopType'
  BY <1>1, <1>3, <1>4 DEF LoopType, Elapse, LinkStates, Ages
<1>6. ChannelsType' /\ EmissionNeedsPi'
  BY DEF ChannelsType, EmissionNeedsPi, Elapse
<1>7. OkAge'
  BY <1>1 DEF OkAge, LoopType, Elapse, Ages
<1>8. HoldAge'
  BY <1>1, <1>3 DEF HoldAge, LoopType, Elapse, Ages
<1>9. QED
  BY <1>5, <1>6, <1>7, <1>8

LEMMA StepFloor == ASSUME FloorInv, [RpNext]_rpVars PROVE FloorInv'
<1>1. CASE UNCHANGED rpVars
  BY <1>1 DEF rpVars, floor, loop, FloorInv, LoopType, ChannelsType, OkAge,
              HoldAge, EmissionNeedsPi
<1>2. CASE RpNext
  BY <1>2, TopFloor, HeartbeatFloor, IntentFloor, TickFloor, EmitFloor,
     ResetFloor, ElapseFloor DEF RpNext
<1>3. QED BY <1>1, <1>2

LEMMA FloorAlways == RpSpec => []FloorInv
  BY InitFloor, StepFloor, PTL DEF RpSpec

\* Every variable of the safety floor keeps its type; ages stay below the cap.
THEOREM RpTyping == RpSpec => []RpTypeOK
<1>1. FloorInv => RpTypeOK
  BY DEF FloorInv, LoopType, ChannelsType, RpTypeOK
<1>2. QED BY FloorAlways, <1>1, PTL

\* Nothing goes on the air later than the heartbeat timeout, the hold time and
\* two watchdog periods after the Pi was last heard, for all such times and
\* wherever the iterations of the main loop block.
THEOREM EmissionBound == RpSpec => []EmissionNeedsPi
<1>1. FloorInv => EmissionNeedsPi
  BY DEF FloorInv
<1>2. QED BY FloorAlways, <1>1, PTL

-----------------------------------------------------------------------------

\* While the link is in OK or HOLD the age is in the bound.
LEMMA FeedingAge ==
    ASSUME FloorInv, linkState \in {"OK", "HOLD"}
    PROVE  hbAge <= FeedBound
<1>1. CASE linkState = "OK"
  BY <1>1 DEF FloorInv, OkAge, LoopType, Stages, Ages, FeedBound
<1>2. CASE linkState = "HOLD"
  BY <1>2 DEF FloorInv, HoldAge, LoopType, Stages, Ages, FeedBound
<1>3. QED BY <1>1, <1>2

LEMMA InBound == FloorInv => (Feeding => hbAge <= FeedBound)
  BY FeedingAge DEF Feeding

\* The safety floor implements the dead-man switch: every step is a frame from
\* the Pi, time passing within the bound, or the end of the feeding.
THEOREM FloorIsDeadman == RpSpec => KeepsDeadman
<1>1. RpInit => Floor!DmInit
  BY DEF RpInit, Floor!DmInit, Feeding
<1>2. ASSUME FloorInv, [RpNext]_rpVars, (Feeding => hbAge <= FeedBound)'
      PROVE  [Floor!DmNext]_<<hbAge, Feeding>>
  <2> SUFFICES ASSUME RpNext PROVE Floor!DmNext \/ UNCHANGED <<hbAge, Feeding>>
    BY <1>2 DEF rpVars, floor, loop, Feeding
  <2> lag \in 0..WatchdogTime /\ hbAge \in Ages
    BY <1>2 DEF FloorInv, LoopType
  <2>1. ASSUME NoteHeartbeat PROVE Floor!Heard
    BY <2>1 DEF NoteHeartbeat, Floor!Heard, Feeding, Revived, Enter
  <2>2. CASE HandleHeartbeat
    BY <2>1, <2>2 DEF HandleHeartbeat, Floor!DmNext
  <2>3. CASE \E c \in Snapshots : HandleIntent(c)
    BY <2>1, <2>3 DEF HandleIntent, Floor!DmNext
  <2>4. CASE \E usb \in BOOLEAN : LoopTop(usb)
    BY <2>4 DEF LoopTop, Feeding
  <2>5. CASE StateTick
    <3>1. hbAge' = hbAge /\ hbAge \in Nat
      BY <2>5 DEF StateTick, Ages
    <3>2. CASE ~Feeding'
      BY <3>1, <3>2 DEF Floor!DmNext, Floor!Cease
    <3>3. CASE Feeding'
      BY <2>5, <3>1, <3>3 DEF StateTick, Enter, Feeding
    <3>4. QED BY <3>2, <3>3
  <2>6. CASE Emit
    BY <2>6 DEF Emit, floor, Feeding
  <2>7. CASE WatchdogReset
    <3>1. ~Feeding' /\ hbAge' >= hbAge
      BY <2>7 DEF WatchdogReset, Reset, Feeding, Ages
    <3>2. QED BY <3>1 DEF Floor!DmNext, Floor!Cease
  <2>8. CASE Elapse
    <3>1. hbAge' >= hbAge
      BY <2>8, OlderStep DEF Elapse
    <3>2. Feeding' <=> Feeding
      BY <2>8 DEF Elapse, Feeding
    <3>3. ASSUME Feeding PROVE hbAge' <= FeedBound
      BY <1>2, <3>2, <3>3 DEF FeedBound
    <3>4. QED
      BY <3>1, <3>2, <3>3 DEF Floor!DmNext, Floor!Wait
  <2>9. QED
    BY <2>2, <2>3, <2>4, <2>5, <2>6, <2>7, <2>8 DEF RpNext
<1>3. QED
  BY <1>1, <1>2, FloorAlways, InBound, PTL DEF RpSpec, KeepsDeadman, Floor!DmSpec,
     Floor!dmVars

-----------------------------------------------------------------------------
(* The chain.                                                                *)

\* No step of the daemon touches the firmware's state.
LEMMA DaemonLeavesFloor == DaemonNext => UNCHANGED rpVars
  BY DEF DaemonNext, Start, Die, SendHeartbeat, MixerTick, HandshakeTick,
         ReceiveAck, SwitchModel, LoseJoystick, InstallJoystick

\* A step of the firmware side is a step of the floor, or answers a Hello.
LEMMA FirmwareStepsFloor == FirmwareNext => RpNext \/ UNCHANGED rpVars
<1>1. IterationTop \/ IterationTick \/ IterationEnd \/ ChipReset => RpNext
  <2>1. ASSUME IterationTop PROVE \E usb \in BOOLEAN : LoopTop(usb)
    <3>1. \E usb \in BOOLEAN : LoopTop(usb) <=> LoopTop(up)
      BY <2>1 DEF IterationTop, LoopTop
    <3>2. QED BY <2>1, <3>1 DEF IterationTop
  <2>2. QED
    BY <2>1 DEF IterationTick, IterationEnd, ChipReset, RpNext
<1>2. DrainHeartbeat \/ DrainIntent => RpNext
  BY DEF DrainHeartbeat, DrainIntent, RpNext
<1>3. DrainHello => UNCHANGED rpVars
  BY DEF DrainHello
<1>4. QED BY <1>1, <1>2, <1>3 DEF FirmwareNext

\* Every behaviour of the chain is a behaviour of the safety floor.
THEOREM ChainKeepsFloor == ChainSpec => FloorIsRpLink
<1>1. ChainInit => RpInit
  BY DEF ChainInit
<1>2. [ChainNext]_chainVars => [RpNext]_rpVars
  <2>1. CASE ChainNext
    BY <2>1, DaemonLeavesFloor, FirmwareStepsFloor DEF ChainNext, Pass, RpNext
  <2>2. CASE UNCHANGED chainVars
    BY <2>2 DEF chainVars
  <2>3. QED BY <2>1, <2>2
<1>3. QED
  BY <1>1, <1>2, PTL DEF ChainSpec, FloorIsRpLink, RpSpec

\* The chain keeps the dead man's switch of the floor: what starts and ends the
\* feeding of the radio is a step of Deadman, or none.
THEOREM ChainKeepsDeadman == ChainSpec => FloorKept
<1>1. RpSpec => KeepsDeadman
  BY FloorIsDeadman
<1>2. QED BY <1>1, ChainKeepsFloor DEF FloorIsRpLink, FloorKept

\* In the chain too the radio is fed only within the bound after the last frame
\* from the daemon, so the death of the daemon ends emission.
THEOREM ChainEmissionBound == ChainSpec => []EmissionNeedsPi
  BY ChainKeepsFloor, EmissionBound DEF FloorIsRpLink

-----------------------------------------------------------------------------

\* Why a daemon that drives has a verdict: the gate is open, and open for one
\* of the two reasons.
VerdictInv ==
    /\ askedFor \in 0..(GiveUp + 1)
    /\ gate \in {"closed", "hsOK", "hsLegacy"}
    /\ drove => gate # "closed"
    /\ gate = "hsOK" => peer = "match"
    /\ gate = "hsLegacy" => Overdue

\* Time only makes an overdue handshake more so.
LEMMA StaysOverdue ==
    ASSUME askedFor \in 0..(GiveUp + 1),
           askedFor' = IF up /\ ~Overdue THEN askedFor + 1 ELSE askedFor
    PROVE  askedFor' \in 0..(GiveUp + 1) /\ (Overdue => Overdue')
<1>1. CASE Overdue
  BY <1>1 DEF Overdue
<1>2. CASE ~Overdue
  BY <1>2, ChainAssumption DEF Overdue
<1>3. QED BY <1>1, <1>2

LEMMA SameOverdue == ASSUME askedFor' = askedFor PROVE Overdue' = Overdue
  BY DEF Overdue

LEMMA FreshStart == 0 \in 0..(GiveUp + 1)
  BY ChainAssumption

LEMMA VerdictStep == VerdictInv /\ [ChainNext]_chainVars => VerdictInv'
<1> SUFFICES ASSUME VerdictInv, [ChainNext]_chainVars PROVE VerdictInv'
  OBVIOUS
<1> USE DEF VerdictInv
<1>1. CASE Start
  BY <1>1, FreshStart DEF Start
<1>2. ASSUME Gone, UNCHANGED peer PROVE VerdictInv'
  BY <1>2, FreshStart DEF Gone
<1>3. CASE Die
  BY <1>2, <1>3 DEF Die
<1>4. CASE MixerTick
  <2>1. UNCHANGED <<askedFor, gate, peer>>
    BY <1>4 DEF MixerTick, daemon
  <2>2. gate # "closed" \/ drove' = drove
    BY <1>4, Zenon DEF MixerTick, GateOpen
  <2>3. QED BY <2>1, <2>2, SameOverdue
<1>5. CASE HandshakeTick
  <2>1. Overdue' = Overdue
    BY <1>5, SameOverdue DEF HandshakeTick
  <2>2. /\ askedFor' = askedFor /\ peer' = peer /\ drove' = drove
        /\ gate = "closed"
        /\ gate' = gate \/ (Overdue /\ gate' = "hsLegacy")
    BY <1>5 DEF HandshakeTick, mixer
  <2>3. QED BY <2>1, <2>2
<1>6. CASE ReceiveAck
  BY <1>6, SameOverdue DEF ReceiveAck, mixer
<1>7. CASE SendHeartbeat \/ SwitchModel \/ LoseJoystick \/ InstallJoystick
  BY <1>7, SameOverdue DEF SendHeartbeat, SwitchModel, LoseJoystick, InstallJoystick,
              daemon, mixer
<1>8. CASE FirmwareNext
  <2>1. CASE ChipReset
    BY <1>2, <2>1 DEF ChipReset
  <2>2. CASE ~ChipReset
    <3>1. UNCHANGED <<askedFor, gate, peer, drove>>
      BY <1>8, <2>2 DEF FirmwareNext, IterationTop, DrainHeartbeat, DrainIntent,
         DrainHello, IterationTick, IterationEnd, daemon, mixer
    <3>2. QED BY <3>1, SameOverdue
  <2>3. QED BY <2>1, <2>2
<1>9. CASE Pass
  <2>1. askedFor' \in 0..(GiveUp + 1) /\ (Overdue => Overdue')
    BY <1>9, StaysOverdue DEF Pass
  <2>2. gate' = gate /\ peer' = peer /\ drove' = drove
    BY <1>9 DEF Pass
  <2>3. QED BY <2>1, <2>2, Zenon
<1>10. CASE UNCHANGED chainVars
  BY <1>10, SameOverdue DEF chainVars, daemon, mixer
<1>11. QED
  BY <1>1, <1>3, <1>4, <1>5, <1>6, <1>7, <1>8, <1>9, <1>10 DEF ChainNext, DaemonNext

\* A daemon drives the aircraft only after the handshake gave a verdict.
THEOREM VerdictFirst == ChainSpec => []DrivenOnlyAfterVerdict
<1>1. ChainInit => VerdictInv
  BY ChainAssumption DEF ChainInit, VerdictInv
<1>2. VerdictInv => DrivenOnlyAfterVerdict
  BY DEF VerdictInv, DrivenOnlyAfterVerdict
<1>3. QED BY <1>1, <1>2, VerdictStep, PTL DEF ChainSpec

-----------------------------------------------------------------------------
(* What is lost is no longer followed.  The frames in the pipe are as old as  *)
(* the last drain: nothing was left behind by the last tick, and the next    *)
(* drain comes within one watchdog period of the next reading of the clock.  *)

\* The pipe and the ages, as the invariant needs them.
PipeType ==
    /\ toMcu \in Seq(Frames) /\ Len(toMcu) <= PipeCap

AgesType ==
    /\ goneFor \in Ages /\ lostFor \in Ages
    /\ askedFor \in 0..(GiveUp + 1) /\ sinceHello \in 0..HelloPeriod

FlagsType ==
    /\ up \in BOOLEAN /\ model \in BOOLEAN /\ drove \in BOOLEAN
    /\ hbDue \in BOOLEAN /\ mixDue \in BOOLEAN /\ ack \in BOOLEAN
    /\ fresh \in BOOLEAN

NamesType ==
    /\ peer \in Peers
    /\ verdict \in {"none", "match", "mismatch"}
    /\ gate \in {"closed", "hsOK", "hsLegacy"}
    /\ js \in {"none", "connected", "lost"}

\* A firmware that does not know Hello does not answer it.
AckType == ack => peer # "old"

ChainType == PipeType /\ AgesType /\ FlagsType /\ AckType /\ NamesType

\* How the pipe may change: a frame more, the first one less, a reset.
PipeMoves ==
    \/ UNCHANGED toMcu
    \/ toMcu' = << >>
    \/ \E f \in Frames : Write(f)
    \/ toMcu # << >> /\ toMcu' = Tail(toMcu)

LEMMA FramesKnown ==
    /\ <<"heartbeat">> \in Frames \ Intents
    /\ <<"hello">> \in Frames \ Intents
    /\ \A c \in Snapshots : <<"intent", c>> \in Intents
    /\ Intents \subseteq Frames
<1>1. \A f \in Intents : Len(f) = 2
  BY DEF Intents
<1>2. Len(<<"heartbeat">>) = 1 /\ Len(<<"hello">>) = 1
  OBVIOUS
<1>3. <<"heartbeat">> \notin Intents /\ <<"hello">> \notin Intents
  BY <1>1, <1>2
<1>4. QED BY <1>3 DEF Frames, Intents

LEMMA PipeMoved == ASSUME ChainNext PROVE PipeMoves
<1>1. \A c \in Snapshots : <<"intent", c>> \in Frames
  BY FramesKnown
<1>2. <<"heartbeat">> \in Frames /\ <<"hello">> \in Frames
  BY FramesKnown
<1>3. ASSUME NEW f, Drain(f) PROVE PipeMoves
  BY <1>3 DEF Drain, PipeMoves
<1>4. CASE DaemonNext
  <2>1. CASE MixerTick
    BY <1>1, <2>1, Zenon DEF MixerTick, PipeMoves
  <2>2. CASE HandshakeTick
    BY <1>2, <2>2, Zenon DEF HandshakeTick, PipeMoves
  <2>3. CASE Start \/ SendHeartbeat
    BY <1>2, <2>3, Zenon DEF Start, SendHeartbeat, PipeMoves
  <2>4. CASE Die \/ ReceiveAck \/ SwitchModel \/ LoseJoystick \/ InstallJoystick
    BY <2>4 DEF Die, ReceiveAck, SwitchModel, LoseJoystick, InstallJoystick, pipe,
       PipeMoves
  <2>5. QED BY <1>4, <2>1, <2>2, <2>3, <2>4 DEF DaemonNext
<1>5. CASE FirmwareNext
  <2>1. CASE DrainHeartbeat \/ DrainIntent \/ DrainHello
    BY <1>3, <2>1, Zenon DEF DrainHeartbeat, DrainIntent, DrainHello
  <2>2. CASE IterationTop \/ IterationTick \/ IterationEnd \/ ChipReset
    BY <2>2 DEF IterationTop, IterationTick, IterationEnd, ChipReset, pipe, PipeMoves
  <2>3. QED BY <1>5, <2>1, <2>2 DEF FirmwareNext
<1>6. CASE Pass
  BY <1>6 DEF Pass, pipe, PipeMoves
<1>7. QED BY <1>4, <1>5, <1>6 DEF ChainNext

LEMMA PipeStep ==
    ASSUME PipeType, [ChainNext]_chainVars
    PROVE  PipeType'
<1>1. CASE UNCHANGED chainVars
  BY <1>1 DEF chainVars, pipe, PipeType
<1>2. CASE ChainNext
  <2>1. PipeMoves
    BY <1>2, PipeMoved
  <2>2. CASE UNCHANGED toMcu \/ toMcu' = << >>
    <3>1. CASE UNCHANGED toMcu
      BY <3>1 DEF PipeType
    <3>2. ASSUME toMcu' = << >> PROVE PipeType'
      <4>1. toMcu' \in Seq(Frames) /\ Len(toMcu') = 0
        BY <3>2
      <4>2. QED BY <4>1, ChainAssumption DEF PipeType
    <3>3. QED BY <2>2, <3>1, <3>2
  <2>3. ASSUME NEW f \in Frames, Write(f) PROVE PipeType'
    BY <2>3, ChainAssumption DEF Write, Room, PipeType
  <2>4. ASSUME toMcu # << >>, toMcu' = Tail(toMcu) PROVE PipeType'
    BY <2>4, ChainAssumption DEF PipeType
  <2>5. QED BY <2>1, <2>2, <2>3, <2>4 DEF PipeMoves
<1>3. QED BY <1>1, <1>2

\* Ages restart, stand or grow.
LEMMA AgesStep ==
    ASSUME AgesType, [ChainNext]_chainVars
    PROVE  AgesType'
<1> USE DEF AgesType
<1>1. 0 \in Ages /\ AgeCap \in Ages /\ 0 \in 0..HelloPeriod /\ 0 \in 0..(GiveUp + 1)
  BY ChainAssumption DEF Ages
<1>2. CASE DaemonNext
  <2>1. CASE Start
    BY <1>1, <2>1 DEF Start
  <2>2. CASE Die
    BY <1>1, <2>2 DEF Die, Gone
  <2>3. CASE SendHeartbeat \/ MixerTick \/ HandshakeTick \/ ReceiveAck
    BY <1>1, <2>3 DEF SendHeartbeat, MixerTick, HandshakeTick, ReceiveAck, daemon, mixer
  <2>4. CASE SwitchModel \/ LoseJoystick \/ InstallJoystick
    BY <1>1, <2>4 DEF SwitchModel, LoseJoystick, InstallJoystick, daemon
  <2>5. QED BY <1>2, <2>1, <2>2, <2>3, <2>4 DEF DaemonNext
<1>3. CASE FirmwareNext
  <2>1. CASE ChipReset
    BY <1>1, <2>1 DEF ChipReset, Gone
  <2>2. CASE IterationTop \/ IterationTick \/ IterationEnd \/ DrainHeartbeat \/ DrainIntent \/ DrainHello
    BY <1>1, <2>2 DEF IterationTop, IterationTick, IterationEnd, DrainHeartbeat, DrainIntent,
       DrainHello, daemon, mixer
  <2>3. QED BY <1>3, <2>1, <2>2 DEF FirmwareNext
<1>4. CASE Pass
  <2>1. goneFor' \in Ages /\ lostFor' \in Ages /\ askedFor' \in 0..(GiveUp + 1)
    BY <1>1, <1>4, OlderStep, StaysOverdue DEF Pass
  <2>2. sinceHello' = sinceHello \/ (sinceHello < HelloPeriod /\ sinceHello' = sinceHello + 1)
    BY <1>4, Zenon DEF Pass
  <2>3. sinceHello' \in 0..HelloPeriod
    BY <2>2, ChainAssumption
  <2>4. QED BY <2>1, <2>3
<1>5. CASE UNCHANGED chainVars
  BY <1>5 DEF chainVars, daemon, mixer
<1>6. QED BY <1>2, <1>3, <1>4, <1>5 DEF ChainNext

LEMMA FlagsStep ==
    ASSUME FlagsType, [ChainNext]_chainVars
    PROVE  FlagsType'
<1> USE DEF FlagsType
<1>1. CASE DaemonNext
  <2>1. CASE Start \/ Die
    BY <2>1, Zenon DEF Start, Die, Gone, pipe
  <2>2. CASE SendHeartbeat \/ HandshakeTick \/ ReceiveAck
    BY <2>2, Zenon DEF SendHeartbeat, HandshakeTick, ReceiveAck, daemon, mixer, tickers
  <2>3. CASE MixerTick
    BY <2>3, Zenon DEF MixerTick, daemon
  <2>4. CASE SwitchModel \/ LoseJoystick \/ InstallJoystick
    BY <2>4, Zenon DEF SwitchModel, LoseJoystick, InstallJoystick, daemon, tickers, pipe
  <2>5. QED BY <1>1, <2>1, <2>2, <2>3, <2>4 DEF DaemonNext
<1>2. CASE FirmwareNext
  <2>1. CASE ChipReset
    BY <2>1, Zenon DEF ChipReset, Gone
  <2>2. CASE DrainHello
    BY <2>2, Zenon DEF DrainHello, daemon, mixer, tickers
  <2>3. CASE IterationTop \/ IterationTick \/ IterationEnd \/ DrainHeartbeat \/ DrainIntent
    BY <2>3, Zenon DEF IterationTop, IterationTick, IterationEnd, DrainHeartbeat, DrainIntent,
       daemon, mixer, tickers, pipe
  <2>4. QED BY <1>2, <2>1, <2>2, <2>3 DEF FirmwareNext
<1>3. CASE Pass
  BY <1>3, Zenon DEF Pass, pipe
<1>4. CASE UNCHANGED chainVars
  BY <1>4, Zenon DEF chainVars, daemon, mixer, tickers, pipe
<1>5. QED BY <1>1, <1>2, <1>3, <1>4 DEF ChainNext

\* An answer is to this firmware's version, and the firmware stays the same.
LEMMA AckStep ==
    ASSUME AckType, [ChainNext]_chainVars
    PROVE  AckType' /\ peer' = peer
<1> USE DEF AckType
<1>1. CASE DrainHello
  <2>1. peer' = peer /\ (ack' => ack \/ peer # "old")
    BY <1>1, Zenon DEF DrainHello
  <2>2. QED BY <2>1
<1>2. CASE DaemonNext
  <2>1. CASE Start \/ ReceiveAck
    <3>1. peer' = peer /\ ~ack'
      BY <2>1, Zenon DEF Start, ReceiveAck
    <3>2. QED BY <3>1, Zenon
  <2>2. CASE Die \/ SendHeartbeat \/ MixerTick \/ HandshakeTick
    BY <2>2 DEF Die, SendHeartbeat, MixerTick, HandshakeTick, pipe
  <2>3. CASE SwitchModel \/ LoseJoystick \/ InstallJoystick
    BY <2>3 DEF SwitchModel, LoseJoystick, InstallJoystick, pipe
  <2>4. QED BY <1>2, <2>1, <2>2, <2>3 DEF DaemonNext
<1>3. CASE FirmwareNext /\ ~DrainHello
  <2>1. CASE ChipReset
    BY <2>1, Zenon DEF ChipReset
  <2>2. CASE IterationTop \/ IterationTick \/ IterationEnd
    BY <2>2 DEF IterationTop, IterationTick, IterationEnd, pipe
  <2>3. CASE DrainHeartbeat \/ DrainIntent
    <3>1. peer' = peer /\ ack' = ack
      BY <2>3, Zenon DEF DrainHeartbeat, DrainIntent
    <3>2. QED BY <3>1
  <2>4. QED BY <1>3, <2>1, <2>2, <2>3, Zenon DEF FirmwareNext
<1>4. CASE Pass
  BY <1>4 DEF Pass, pipe
<1>5. CASE UNCHANGED chainVars
  BY <1>5 DEF chainVars, pipe
<1>6. QED BY <1>1, <1>2, <1>3, <1>4, <1>5 DEF ChainNext

LEMMA NamesStep ==
    ASSUME NamesType, AckType, [ChainNext]_chainVars
    PROVE  NamesType'
<1> USE DEF NamesType, Peers
<1>1. peer' = peer
  BY AckStep
<1>2. CASE ReceiveAck
  <2>1. /\ js' = js /\ peer # "old"
        /\ verdict' = verdict \/ verdict' = peer
        /\ gate' = gate \/ gate' = "hsOK"
    BY <1>2, Zenon DEF ReceiveAck, AckType, mixer
  <2>2. QED BY <1>1, <2>1
<1>3. CASE HandshakeTick
  <2>1. /\ js' = js /\ verdict' = verdict
        /\ gate' = gate \/ gate' = "hsLegacy"
    BY <1>3, Zenon DEF HandshakeTick, mixer
  <2>2. QED BY <1>1, <2>1
<1>4. CASE Start \/ Die \/ ChipReset
  BY <1>1, <1>4 DEF Start, Die, ChipReset, Gone
<1>5. CASE SendHeartbeat \/ MixerTick
  BY <1>1, <1>5 DEF SendHeartbeat, MixerTick, daemon, mixer
<1>6. CASE SwitchModel \/ LoseJoystick \/ InstallJoystick
  BY <1>1, <1>6 DEF SwitchModel, LoseJoystick, InstallJoystick, daemon
<1>7. CASE FirmwareNext /\ ~ChipReset
  BY <1>1, <1>7 DEF FirmwareNext, IterationTop, IterationTick, IterationEnd, DrainHeartbeat,
     DrainIntent, DrainHello, daemon, mixer
<1>8. CASE Pass
  BY <1>1, <1>8 DEF Pass
<1>9. CASE UNCHANGED chainVars
  BY <1>9 DEF chainVars, daemon, mixer
<1>10. QED
  BY <1>2, <1>3, <1>4, <1>5, <1>6, <1>7, <1>8, <1>9 DEF ChainNext, DaemonNext, FirmwareNext

\* Everything in the chain keeps its type, the pipe its capacity.
THEOREM ChainTyping == ChainSpec => []ChainTypeOK
<1>1. ChainInit => ChainType
  <2>1. ASSUME ChainInit PROVE PipeType /\ AgesType
    BY <2>1, ChainAssumption DEF ChainInit, PipeType, AgesType, Ages
  <2>2. ASSUME ChainInit PROVE FlagsType
    BY <2>2, Zenon DEF ChainInit, FlagsType
  <2>3. ASSUME ChainInit PROVE AckType /\ NamesType
    BY <2>3 DEF ChainInit, AckType, NamesType
  <2>4. QED BY <2>1, <2>2, <2>3, Zenon DEF ChainType
<1>2. ChainType /\ [ChainNext]_chainVars => ChainType'
  BY PipeStep, AgesStep, FlagsStep, AckStep, NamesStep, Zenon DEF ChainType
<1>3. ChainSpec => []RpTypeOK
  BY ChainKeepsFloor, RpTyping DEF FloorIsRpLink
<1>4. ChainType /\ RpTypeOK => ChainTypeOK
  BY Zenon DEF ChainType, PipeType, AgesType, FlagsType, NamesType, ChainTypeOK
<1>5. QED BY <1>1, <1>2, <1>3, <1>4, PTL DEF ChainSpec

-----------------------------------------------------------------------------

IntentQueued == \E i \in DOMAIN toMcu : toMcu[i] \in Intents

\* How old the frames in the pipe can be.
PipeAge == IF stage = "draining" THEN WatchdogTime + lag ELSE lag

\* What the dead daemon left in the pipe, and when the firmware heard it last.
DeadPipe == ~up /\ linkState # "BOOT" /\ toMcu # << >> => goneFor <= PipeAge
DeadAge  == ~up => goneFor <= hbAge + WatchdogTime

\* What the mixer sent before the hold window of a lost joystick was over.
LostPipe == js = "lost" /\ IntentQueued => lostFor < JsHold + PipeAge

\* In BOOT nothing is drained, but no iteration began with the daemon up either.
LostBoot == js = "lost" /\ linkState = "BOOT" => lostFor <= lag

DeadInv == DeadPipe /\ DeadAge
LostInv == (~up => js = "none") /\ LostPipe /\ LostBoot

LEMMA PipeAgeBounds ==
    ASSUME RpTypeOK
    PROVE  /\ PipeAge \in Nat /\ PipeAge <= WatchdogTime + lag /\ lag \in Nat
           /\ PipeAge <= WatchdogTime + WatchdogTime
  BY DEF RpTypeOK, PipeAge

LEMMA NextPipeAge == ASSUME RpTypeOK' PROVE PipeAge' \in Nat
<1>1. lag' \in 0..WatchdogTime
  BY DEF RpTypeOK
<1>2. \A n \in 0..WatchdogTime : n \in Nat /\ WatchdogTime + n \in Nat
  OBVIOUS
<1>3. lag' \in Nat /\ WatchdogTime + lag' \in Nat
  BY <1>1, <1>2, Zenon
<1>4. QED BY <1>3 DEF PipeAge

LEMMA SamePipeAge ==
    ASSUME UNCHANGED <<lag, stage>>
    PROVE  PipeAge' = PipeAge
  BY DEF PipeAge

LEMMA SameQueue == ASSUME toMcu' = toMcu PROVE IntentQueued' = IntentQueued
  BY DEF IntentQueued

LEMMA EmptyQueue == ASSUME toMcu' = << >> PROVE ~IntentQueued'
  BY DEF IntentQueued

LEMMA WriteOther ==
    ASSUME toMcu \in Seq(Frames), NEW f \in Frames \ Intents, Write(f), IntentQueued'
    PROVE  IntentQueued
  BY DEF Write, IntentQueued

LEMMA DrainOne ==
    ASSUME toMcu \in Seq(Frames), NEW f \in Frames, Drain(f)
    PROVE  /\ linkState # "BOOT" /\ toMcu # << >>
           /\ IntentQueued' => IntentQueued
           /\ f \in Intents => IntentQueued
<1>1. toMcu # << >> /\ toMcu' = Tail(toMcu) /\ toMcu[1] = f /\ linkState # "BOOT"
  BY DEF Drain
<1>2. 1 \in DOMAIN toMcu
  BY <1>1
<1>3. ASSUME NEW i \in DOMAIN toMcu', toMcu'[i] \in Intents
      PROVE  i + 1 \in DOMAIN toMcu /\ toMcu[i + 1] \in Intents
  BY <1>1, <1>3
<1>4. QED BY <1>1, <1>2, <1>3 DEF IntentQueued

\* A unit of time ages the pipe by one.
LEMMA ElapseAges ==
    ASSUME RpTypeOK, Elapse
    PROVE  PipeAge' = PipeAge + 1
  BY DEF RpTypeOK, Elapse, PipeAge

\* The end and the top of an iteration leave the frames in the pipe waiting.
LEMMA TurnAges ==
    ASSUME RpTypeOK, Emit \/ LoopTop(up)
    PROVE  PipeAge <= PipeAge'
<1>1. CASE Emit
  BY <1>1 DEF RpTypeOK, Emit, PipeAge
<1>2. CASE LoopTop(up)
  BY <1>2 DEF RpTypeOK, LoopTop, PipeAge
<1>3. QED BY <1>1, <1>2

\* Pushing an upper bound and what it bounds one unit on.
LEMMA BothOlder ==
    ASSUME NEW m \in Ages, NEW n \in Ages, NEW k \in Nat, m <= n + k
    PROVE  Older(m) <= Older(n) + k
  BY DEF Older, Ages

\* A daemon that runs, or has only just ended, is not bound by anything.
LEMMA UpIsFree == ASSUME up' PROVE DeadInv'
  BY Zenon DEF DeadInv, DeadPipe, DeadAge

LEMMA JustGone == ASSUME RpTypeOK', goneFor' = 0 PROVE DeadInv'
<1>1. PipeAge' \in Nat
  BY NextPipeAge
<1>2. hbAge' \in Nat
  BY DEF RpTypeOK, Ages
<1>3. goneFor' <= PipeAge' /\ goneFor' <= hbAge' + WatchdogTime
  <2>1. \A m, n \in Nat : 0 <= m /\ 0 <= n + WatchdogTime
    OBVIOUS
  <2>2. QED BY <1>1, <1>2, <2>1, Zenon
<1>4. QED BY <1>3, Zenon DEF DeadInv, DeadPipe, DeadAge

LEMMA DeadStep ==
    ASSUME ChainTypeOK, ChainTypeOK', DeadInv, [ChainNext]_chainVars
    PROVE  DeadInv'
<1>1. RpTypeOK /\ RpTypeOK' /\ toMcu \in Seq(Frames) /\ goneFor \in Ages /\ hbAge \in Ages
  BY Zenon DEF ChainTypeOK, RpTypeOK
<1>2. PipeAge \in Nat /\ PipeAge <= WatchdogTime + lag /\ lag \in Nat
  BY <1>1, PipeAgeBounds
<1>3. CASE DaemonNext
  <2>1. CASE Die
    BY <1>1, <2>1, JustGone DEF Die, Gone
  <2>2. CASE ~Die
    <3>1. CASE Start
      BY <3>1, UpIsFree DEF Start
    <3>2. CASE HandshakeTick \/ ReceiveAck
      <4>1. up /\ up' = up
        BY <3>2, Zenon DEF HandshakeTick, ReceiveAck
      <4>2. QED BY <4>1, UpIsFree
    <3>3. CASE SendHeartbeat \/ MixerTick
      <4>1. up /\ up' = up
        BY <3>3, Zenon DEF SendHeartbeat, MixerTick, daemon
      <4>2. QED BY <4>1, UpIsFree
    <3>4. CASE SwitchModel \/ LoseJoystick \/ InstallJoystick
      <4>1. up /\ up' = up
        BY <3>4, Zenon DEF SwitchModel, LoseJoystick, InstallJoystick, daemon
      <4>2. QED BY <4>1, UpIsFree
    <3>5. QED BY <1>3, <2>2, <3>1, <3>2, <3>3, <3>4, Zenon DEF DaemonNext
  <2>3. QED BY <2>1, <2>2
<1>4. CASE ChipReset
  BY <1>1, <1>4, JustGone DEF ChipReset, Gone
<1>5. ASSUME up' = up, goneFor' = goneFor, hbAge' = hbAge, DeadPipe' PROVE DeadInv'
  BY <1>5, Zenon DEF DeadInv, DeadAge
<1>6. CASE IterationTop \/ IterationEnd
  <2>1. up' = up /\ goneFor' = goneFor /\ toMcu' = toMcu
    BY <1>6, Zenon DEF IterationTop, IterationEnd, daemon, pipe
  <2>2. hbAge' = hbAge
    BY <1>6 DEF IterationTop, IterationEnd, LoopTop, Emit, floor
  <2>3. ~up => linkState' = linkState
    BY <1>6 DEF IterationTop, IterationEnd, LoopTop, Emit, floor
  <2>4. PipeAge <= PipeAge' /\ PipeAge' \in Nat
    BY <1>1, <1>6, TurnAges, NextPipeAge DEF IterationTop, IterationEnd
  <2>5. goneFor <= PipeAge => goneFor' <= PipeAge'
    BY <1>1, <1>2, <2>1, <2>4 DEF Ages
  <2>6. DeadPipe'
    BY <2>1, <2>3, <2>5, Zenon DEF DeadInv, DeadPipe
  <2>7. QED BY <1>5, <2>1, <2>2, <2>6
<1>7. ASSUME up' = up, goneFor' = goneFor, UNCHANGED <<lag, stage>>,
             toMcu # << >>, linkState # "BOOT",
             hbAge' = hbAge \/ (stage = "draining" /\ hbAge' = lag)
      PROVE  DeadInv'
  <2>1. PipeAge' = PipeAge
    BY <1>7, SamePipeAge
  <2>2. CASE up'
    BY <2>2, UpIsFree
  <2>3. CASE ~up'
    <3>1. goneFor <= PipeAge /\ goneFor <= hbAge + WatchdogTime
      BY <1>7, <2>3, Zenon DEF DeadInv, DeadPipe, DeadAge
    <3>2. goneFor' <= PipeAge' /\ goneFor' <= hbAge' + WatchdogTime
      BY <1>1, <1>2, <1>7, <2>1, <3>1 DEF Ages
    <3>3. QED BY <3>2, Zenon DEF DeadInv, DeadPipe, DeadAge
  <2>4. QED BY <2>2, <2>3
<1>8. CASE DrainHeartbeat \/ DrainIntent \/ DrainHello
  <2>1. toMcu # << >> /\ linkState # "BOOT"
    BY <1>8, Zenon DEF DrainHeartbeat, DrainIntent, DrainHello, Drain
  <2>2. up' = up /\ goneFor' = goneFor
    BY <1>8, Zenon DEF DrainHeartbeat, DrainIntent, DrainHello, daemon
  <2>3. /\ UNCHANGED <<lag, stage>>
        /\ hbAge' = hbAge \/ (stage = "draining" /\ hbAge' = lag)
    BY <1>8 DEF DrainHeartbeat, DrainIntent, DrainHello, HandleHeartbeat,
       HandleIntent, NoteHeartbeat, rpVars, floor, loop
  <2>4. QED BY <1>7, <2>1, <2>2, <2>3
<1>9. CASE IterationTick
  <2>1. up' = up /\ goneFor' = goneFor /\ hbAge' = hbAge /\ toMcu' = toMcu
    BY <1>9 DEF IterationTick, StateTick, daemon, pipe
  <2>2. linkState = "BOOT" => linkState' = "BOOT"
    BY <1>9 DEF IterationTick, StateTick, Enter
  <2>3. linkState = "BOOT" \/ toMcu = << >>
    BY <1>9, Zenon DEF IterationTick
  <2>4. DeadPipe'
    BY <2>1, <2>2, <2>3, Zenon DEF DeadPipe
  <2>5. QED BY <1>5, <2>1, <2>4
<1>10. CASE Pass
  <2>1. up' = up /\ (~up => goneFor' = Older(goneFor)) /\ toMcu' = toMcu
    BY <1>10, Zenon DEF Pass, pipe
  <2>2. hbAge' = Older(hbAge) /\ linkState' = linkState
    BY <1>10, Zenon DEF Pass, Elapse
  <2>3. ASSUME ~up' PROVE goneFor' <= hbAge' + WatchdogTime
    <3>1. goneFor <= hbAge + WatchdogTime
      BY <2>1, <2>3, Zenon DEF DeadInv, DeadAge
    <3>2. QED BY <1>1, <2>1, <2>2, <2>3, <3>1, BothOlder
  <2>4. ASSUME ~up', linkState' # "BOOT", toMcu' # << >>
        PROVE  goneFor' <= PipeAge'
    <3>1. PipeAge' = PipeAge + 1
      BY <1>1, <1>10, ElapseAges DEF Pass
    <3>2. goneFor <= PipeAge
      BY <2>1, <2>2, <2>4, Zenon DEF DeadInv, DeadPipe
    <3>3. goneFor' <= goneFor + 1 /\ goneFor' \in Ages
      BY <1>1, <2>1, <2>4, OlderStep
    <3>4. QED BY <1>1, <1>2, <3>1, <3>2, <3>3 DEF Ages
  <2>5. QED BY <2>3, <2>4, Zenon DEF DeadInv, DeadPipe, DeadAge
<1>11. CASE UNCHANGED chainVars
  <2>1. /\ up' = up /\ goneFor' = goneFor /\ hbAge' = hbAge
        /\ toMcu' = toMcu /\ linkState' = linkState /\ UNCHANGED <<lag, stage>>
    BY <1>11 DEF chainVars, daemon, pipe, rpVars, floor, loop
  <2>2. PipeAge' = PipeAge
    BY <2>1, SamePipeAge
  <2>3. QED BY <1>5, <2>1, <2>2, Zenon DEF DeadInv, DeadPipe
<1>12. QED
  BY <1>3, <1>4, <1>6, <1>8, <1>9, <1>10, <1>11, Zenon DEF ChainNext, FirmwareNext

\* Without a lost joystick nothing is bound.
LEMMA NoneLost ==
    ASSUME js' # "lost", ~up' => js' = "none" PROVE LostInv'
  BY Zenon DEF LostInv, LostPipe, LostBoot

LEMMA BootKept ==
    ASSUME LostInv, js' = js, lostFor' = lostFor, lag' = lag,
           linkState' = "BOOT" => linkState = "BOOT"
    PROVE  LostBoot'
<1>1. js = "lost" /\ linkState = "BOOT" => lostFor <= lag
  BY Zenon DEF LostInv, LostBoot
<1>2. QED BY <1>1 DEF LostBoot

\* What leaves the ages alone, brings no intent and drains the pipe no later.
LEMMA LostKept ==
    ASSUME ChainTypeOK, ChainTypeOK', LostInv,
           up' = up, js' = js, lostFor' = lostFor,
           PipeAge <= PipeAge', IntentQueued' => IntentQueued, LostBoot'
    PROVE  LostInv'
<1>1. lostFor \in Nat /\ PipeAge \in Nat /\ PipeAge' \in Nat /\ JsHold \in Nat
  BY PipeAgeBounds, NextPipeAge, ChainAssumption DEF ChainTypeOK, Ages
<1>2. \A l, h, m, n \in Nat : m <= n /\ l < h + m => l < h + n
  OBVIOUS
<1>3. lostFor < JsHold + PipeAge => lostFor < JsHold + PipeAge'
  BY <1>1, <1>2, Zenon
<1>4. QED BY <1>3, Zenon DEF LostInv, LostPipe

\* The mixer sends nothing after the hold window.
LEMMA LostMixer ==
    ASSUME ChainTypeOK, ChainTypeOK', LostInv, MixerTick PROVE LostInv'
<1>1. up' = up /\ js' = js /\ lostFor' = lostFor /\ UNCHANGED <<lag, stage, linkState>>
  BY DEF MixerTick, daemon, rpVars, loop, floor
<1>b. LostBoot'
  BY <1>1, BootKept
<1>2. PipeAge' = PipeAge /\ PipeAge \in Nat
  BY <1>1, SamePipeAge, PipeAgeBounds DEF ChainTypeOK
<1>3. PipeAge <= PipeAge'
  BY <1>2
<1>4. MayEmit \/ toMcu' = toMcu
  BY Zenon DEF MixerTick
<1>5. CASE toMcu' = toMcu
  BY <1>1, <1>b, <1>3, <1>5, LostKept, SameQueue
<1>6. CASE MayEmit
  <2>1. js = "lost" => ~(lostFor >= JsHold)
    BY <1>6, Zenon DEF MayEmit
  <2>2. lostFor \in Nat /\ JsHold \in Nat
    BY ChainAssumption DEF ChainTypeOK, Ages
  <2>3. js' = "lost" => lostFor' < JsHold + PipeAge'
    BY <1>1, <1>2, <2>1, <2>2
  <2>4. QED BY <1>1, <1>b, <2>3, Zenon DEF LostInv, LostPipe
<1>7. QED BY <1>4, <1>5, <1>6

LEMMA LostDaemon ==
    ASSUME ChainTypeOK, ChainTypeOK', LostInv, DaemonNext PROVE LostInv'
<1>1. toMcu \in Seq(Frames) /\ UNCHANGED <<lag, stage, linkState>>
  BY DaemonLeavesFloor DEF ChainTypeOK, rpVars, loop, floor
<1>2. PipeAge' = PipeAge /\ PipeAge \in Nat
  BY <1>1, SamePipeAge, PipeAgeBounds DEF ChainTypeOK
<1>3. PipeAge <= PipeAge'
  BY <1>2
<1>4. CASE Start \/ Die
  <2>1. js' # "lost" /\ (up' = TRUE \/ js' = "none")
    BY <1>4 DEF Start, Die, Gone
  <2>2. QED BY <2>1, NoneLost
<1>5. CASE InstallJoystick
  <2>1. js' # "lost" /\ up' = up /\ up
    BY <1>5 DEF InstallJoystick, daemon
  <2>2. QED BY <2>1, NoneLost
<1>6. CASE LoseJoystick
  <2>1. lostFor' = 0 /\ up' = up /\ up
    BY <1>6 DEF LoseJoystick, daemon
  <2>2. lostFor' < JsHold + PipeAge'
    BY <1>2, <2>1, ChainAssumption
  <2>3. lostFor' <= lag'
    BY <1>1, <2>1 DEF ChainTypeOK, RpTypeOK
  <2>4. up'
    BY <2>1
  <2>5. QED BY <2>2, <2>3, <2>4, Zenon DEF LostInv, LostPipe, LostBoot
<1>7. CASE MixerTick
  BY <1>7, LostMixer
<1>8. ASSUME NEW f \in Frames \ Intents, toMcu' = toMcu \/ Write(f),
             up' = up, js' = js, lostFor' = lostFor
      PROVE  LostInv'
  <2>1. IntentQueued' => IntentQueued
    BY <1>1, <1>8, SameQueue, WriteOther
  <2>2. LostBoot'
    BY <1>1, <1>8, BootKept
  <2>3. QED BY <1>3, <1>8, <2>1, <2>2, LostKept
<1>9. CASE SendHeartbeat
  <2>1. Write(<<"heartbeat">>)
    BY <1>9, Zenon DEF SendHeartbeat
  <2>2. up' = up /\ js' = js /\ lostFor' = lostFor
    BY <1>9 DEF SendHeartbeat, daemon, mixer
  <2>3. QED BY <1>8, <2>1, <2>2, FramesKnown
<1>10. CASE HandshakeTick
  <2>1. toMcu' = toMcu \/ Write(<<"hello">>)
    BY <1>10, Zenon DEF HandshakeTick
  <2>2. up' = up /\ js' = js /\ lostFor' = lostFor
    BY <1>10 DEF HandshakeTick, mixer
  <2>3. QED BY <1>8, <2>1, <2>2, FramesKnown
<1>11. CASE ReceiveAck \/ SwitchModel
  <2>1. up' = up /\ js' = js /\ lostFor' = lostFor /\ toMcu' = toMcu
    BY <1>11 DEF ReceiveAck, SwitchModel, daemon, mixer, pipe
  <2>2. QED BY <1>8, <2>1, FramesKnown
<1>12. QED
  BY <1>4, <1>5, <1>6, <1>7, <1>9, <1>10, <1>11, Zenon DEF DaemonNext

LEMMA LostFirmware ==
    ASSUME ChainTypeOK, ChainTypeOK', LostInv, FirmwareNext PROVE LostInv'
<1>1. toMcu \in Seq(Frames) /\ PipeAge \in Nat /\ RpTypeOK
  BY PipeAgeBounds DEF ChainTypeOK
<1>2. CASE ChipReset
  <2>1. js' # "lost" /\ js' = "none"
    BY <1>2 DEF ChipReset, Gone
  <2>2. QED BY <2>1, NoneLost
<1>3. CASE DrainHeartbeat \/ DrainIntent \/ DrainHello
  <2>1. up' = up /\ js' = js /\ lostFor' = lostFor
    BY <1>3 DEF DrainHeartbeat, DrainIntent, DrainHello, daemon, mixer
  <2>2. UNCHANGED <<lag, stage>>
    BY <1>3 DEF DrainHeartbeat, DrainIntent, DrainHello, HandleHeartbeat, HandleIntent,
       rpVars, loop
  <2>3. PipeAge <= PipeAge'
    BY <1>1, <2>2, SamePipeAge
  <2>4. \E f \in Frames : Drain(f)
    BY <1>3, FramesKnown, Zenon DEF DrainHeartbeat, DrainIntent, DrainHello
  <2>5. IntentQueued' => IntentQueued
    BY <1>1, <2>4, DrainOne
  <2>6. linkState' = "BOOT" => linkState = "BOOT"
    BY <2>4, DrainOne, <1>3 DEF DrainHeartbeat, DrainIntent, DrainHello, HandleHeartbeat,
       HandleIntent, NoteHeartbeat, Enter, rpVars, floor
  <2>7. LostBoot'
    BY <2>1, <2>2, <2>6, BootKept
  <2>8. QED BY <2>1, <2>3, <2>5, <2>7, LostKept
<1>4. CASE IterationTop \/ IterationEnd
  <2>1. up' = up /\ js' = js /\ lostFor' = lostFor /\ toMcu' = toMcu
    BY <1>4 DEF IterationTop, IterationEnd, daemon, mixer, pipe
  <2>2. PipeAge <= PipeAge'
    BY <1>1, <1>4, TurnAges DEF IterationTop, IterationEnd
  <2>3. CASE js # "lost"
    <3>1. ~up' => js' = "none"
      BY <2>1, Zenon DEF LostInv
    <3>2. QED BY <2>1, <2>3, <3>1, NoneLost
  <2>4. CASE js = "lost"
    <3>1. up
      BY <2>4 DEF LostInv
    <3>2. linkState' = "BOOT" => linkState = "BOOT" /\ lag' = lag
      BY <1>4, <3>1 DEF IterationTop, IterationEnd, LoopTop, Emit, floor
    <3>3. LostBoot'
      BY <2>1, <3>2, BootKept DEF LostBoot
    <3>4. QED BY <2>1, <2>2, <3>3, SameQueue, LostKept
  <2>5. QED BY <2>3, <2>4
<1>5. CASE IterationTick
  <2>1. up' = up /\ js' = js /\ lostFor' = lostFor /\ toMcu' = toMcu
    BY <1>5 DEF IterationTick, daemon, mixer, pipe
  <2>2. lag' = lag /\ stage' = "ticked" /\ (linkState' = "BOOT" => linkState = "BOOT")
    BY <1>5 DEF IterationTick, StateTick, Enter
  <2>3. LostBoot'
    BY <2>1, <2>2, BootKept
  <2>4. ASSUME js' = "lost", IntentQueued' PROVE lostFor' < JsHold + PipeAge'
    <3>1. toMcu # << >>
      BY <2>1, <2>4, EmptyQueue
    <3>2. js = "lost" /\ linkState = "BOOT"
      BY <1>5, <2>1, <2>4, <3>1, Zenon DEF IterationTick
    <3>3. lostFor <= lag
      BY <3>2, Zenon DEF LostInv, LostBoot
    <3>4. PipeAge' = lag
      BY <2>2 DEF PipeAge
    <3>5. lostFor \in Nat /\ lag \in Nat
      BY <1>1 DEF ChainTypeOK, RpTypeOK, Ages
    <3>6. QED BY <2>1, <3>3, <3>4, <3>5, ChainAssumption
  <2>5. ~up' => js' = "none"
    BY <2>1, Zenon DEF LostInv
  <2>6. QED BY <2>3, <2>4, <2>5, Zenon DEF LostInv, LostPipe
<1>6. QED
  BY <1>2, <1>3, <1>4, <1>5, Zenon DEF FirmwareNext

LEMMA LostPass ==
    ASSUME ChainTypeOK, ChainTypeOK', LostInv, Pass PROVE LostInv'
<1>1. RpTypeOK /\ PipeAge \in Nat
  BY PipeAgeBounds DEF ChainTypeOK
<1>2. up' = up /\ js' = js /\ toMcu' = toMcu
  BY Zenon DEF Pass, pipe
<1>3. js = "lost" => lostFor' = Older(lostFor)
  BY Zenon DEF Pass
<1>4. lostFor \in Ages
  BY DEF ChainTypeOK
<1>5. ASSUME js' = "lost", IntentQueued' PROVE lostFor' < JsHold + PipeAge'
  <2>1. IntentQueued /\ js = "lost"
    BY <1>2, <1>5, SameQueue
  <2>2. PipeAge' = PipeAge + 1
    BY <1>1, ElapseAges DEF Pass
  <2>3. lostFor < JsHold + PipeAge
    BY <2>1, Zenon DEF LostInv, LostPipe
  <2>4. lostFor' <= lostFor + 1 /\ lostFor' \in Ages
    BY <1>3, <1>4, <2>1, OlderStep
  <2>5. QED BY <1>1, <1>4, <2>2, <2>3, <2>4, ChainAssumption DEF Ages
<1>6. ~up' => js' = "none"
  BY <1>2, Zenon DEF LostInv
<1>7. ASSUME js' = "lost", linkState' = "BOOT" PROVE lostFor' <= lag'
  <2>1. js = "lost" /\ linkState = "BOOT" /\ lag' = lag + 1 /\ lag \in Nat
    BY <1>1, <1>2, <1>7 DEF Pass, Elapse, RpTypeOK
  <2>2. lostFor <= lag
    BY <2>1, Zenon DEF LostInv, LostBoot
  <2>3. lostFor' <= lostFor + 1 /\ lostFor' \in Ages
    BY <1>3, <1>4, <2>1, OlderStep
  <2>4. QED BY <1>4, <2>1, <2>2, <2>3 DEF Ages
<1>8. QED BY <1>5, <1>6, <1>7, Zenon DEF LostInv, LostPipe, LostBoot

LEMMA LostStep ==
    ASSUME ChainTypeOK, ChainTypeOK', LostInv, [ChainNext]_chainVars
    PROVE  LostInv'
<1>1. CASE UNCHANGED chainVars
  <2>1. /\ up' = up /\ js' = js /\ lostFor' = lostFor
        /\ toMcu' = toMcu /\ UNCHANGED <<lag, stage, linkState>>
    BY <1>1 DEF chainVars, daemon, mixer, pipe, rpVars, loop, floor
  <2>2. PipeAge <= PipeAge'
    BY <2>1, SamePipeAge, PipeAgeBounds DEF ChainTypeOK
  <2>3. LostBoot'
    BY <2>1, BootKept
  <2>4. QED BY <2>1, <2>2, <2>3, SameQueue, LostKept
<1>2. QED BY <1>1, LostDaemon, LostFirmware, LostPass DEF ChainNext

\* A daemon that ends leaves the air silent in time, a lost joystick stops the
\* intents, wherever the firmware blocks and whatever was still in the pipe.
THEOREM LossesEndInSilence == ChainSpec => []LossesSilence
<1>1. ChainInit => DeadInv /\ LostInv
  <2> SUFFICES ASSUME ChainInit PROVE DeadInv /\ LostInv
    OBVIOUS
  <2>1. js = "none" /\ toMcu = << >>
    BY DEF ChainInit
  <2>2. goneFor <= hbAge + WatchdogTime
    BY DEF ChainInit, RpInit
  <2>3. QED BY <2>1, <2>2, Zenon DEF DeadInv, DeadPipe, DeadAge, LostInv, LostPipe, LostBoot
<1>2. ChainTypeOK /\ ChainTypeOK' /\ DeadInv /\ LostInv /\ [ChainNext]_chainVars
        => DeadInv' /\ LostInv'
  BY DeadStep, LostStep, Zenon
<1>3. ASSUME ChainTypeOK, DeadInv, LostInv, EmissionNeedsPi PROVE LossesSilence
  <2>1. /\ goneFor \in Nat /\ lostFor \in Nat /\ hbAge \in Nat
        /\ JsHold \in Nat /\ PipeAge \in Nat /\ PipeAge <= DrainTime
    BY ChainAssumption, PipeAgeBounds, <1>3 DEF ChainTypeOK, RpTypeOK, Ages, DrainTime
  <2>2. DaemonDeathSilencesRadio
    <3>1. ~up => goneFor <= hbAge + WatchdogTime
      BY <1>3, Zenon DEF DeadInv, DeadAge
    <3>2. goneFor > ChainBound /\ goneFor <= hbAge + WatchdogTime => onAir = Nothing
      BY <1>3, <2>1 DEF ChainBound, EmissionNeedsPi
    <3>3. QED BY <3>1, <3>2, Zenon DEF DaemonDeathSilencesRadio
  <2>3. JoystickLossStopsIntents
    <3>1. js = "lost" /\ IntentQueued => lostFor < JsHold + PipeAge
      BY <1>3, Zenon DEF LostInv, LostPipe
    <3>2. lostFor < JsHold + PipeAge => ~(lostFor >= JsHold + DrainTime)
      BY <2>1 DEF DrainTime
    <3>3. QED BY <3>1, <3>2, Zenon DEF JoystickLossStopsIntents, IntentQueued
  <2>4. QED BY <1>3, <2>2, <2>3 DEF LossesSilence
<1>4. QED
  BY <1>1, <1>2, <1>3, ChainTyping, ChainEmissionBound, PTL DEF ChainSpec
================================================================================
