----------------------------- MODULE CockpitProofs -----------------------------
(*****************************************************************************)
(* What the operator touches and is told, proved for every value of the      *)
(* constants: the configuration of the firmware-level disarm (ArmConfig),    *)
(* the arm key and the button (PanelInput), the display mode over flights    *)
(* (FlightModes), the weather of a place (WeatherCache) and what is told of  *)
(* a flight (FlightStory).                                                   *)
(*****************************************************************************)
EXTENDS ArmConfig, PanelInput, FlightModes, WeatherCache, FlightStory,
        FiniteSetTheorems, SequenceTheorems, WellFoundedInduction, TLAPS

-----------------------------------------------------------------------------
(* The firmware-level disarm.  Pushes that do not overlap leave the firmware *)
(* with the slots of the active model, and its disarm then cuts on a low     *)
(* throttle only.                                                            *)

\* The configuration of a firmware that has cfg, once it has handled s.
EndsWith(s, cfg, c) ==
    \/ /\ cfg = c
       /\ \A i \in 1..Len(s) : s[i].kind # "config"
    \/ \E i \in 1..Len(s) :
         /\ s[i].kind = "config" /\ s[i].cfg = c
         /\ \A j \in 1..Len(s) : j > i => s[j].kind # "config"

\* One pusher at a time.
AloneInv ==
    /\ boot.at = "read" => \A r \in Requests : request[r].at = "idle"
    /\ \A q, r \in Requests : q # r => request[q].at = "idle" \/ request[r].at = "idle"

\* What it has read is still so, unless the model was unloaded meanwhile.
FreshInv ==
    holder # NoModel =>
      /\ boot.at = "read" => boot.cfg = ConfigOf(holder)
      /\ \A r \in Requests : request[r].at = "read" => request[r].cfg = ConfigOf(holder)

\* With nobody at work the last push is on its way or has arrived.
SentInv ==
    (holder # NoModel /\ boot.at = "done" /\ \A r \in Requests : request[r].at = "idle")
      => EndsWith(toMcu, config, ConfigOf(holder))

GateInv == boot.at # "waits" => gate

PushInv ==
    /\ ArmConfigTypeOK
    /\ GateInv
    /\ ~overlapped => AloneInv /\ FreshInv /\ SentInv

-----------------------------------------------------------------------------
(* The pipe.                                                               *)

LEMMA AppendFacts ==
  ASSUME NEW S, NEW s \in Seq(S), NEW f \in S
  PROVE  /\ Append(s, f) \in Seq(S) /\ Len(s) \in Nat /\ Len(Append(s, f)) = Len(s) + 1
         /\ Append(s, f)[Len(s) + 1] = f
         /\ \A i \in 1..Len(s) : Append(s, f)[i] = s[i]
  OBVIOUS

LEMMA TailFacts ==
  ASSUME NEW S, NEW s \in Seq(S), s # << >>
  PROVE  /\ Tail(s) \in Seq(S) /\ Head(s) = s[1] /\ Head(s) \in S
         /\ Len(s) \in Nat /\ Len(s) >= 1 /\ Len(Tail(s)) = Len(s) - 1
         /\ \A i \in 1..Len(Tail(s)) : Tail(s)[i] = s[i + 1]
  OBVIOUS

\* A push is what the firmware ends with, whatever came before it ...
LEMMA PushEnds ==
  ASSUME NEW S, NEW s \in Seq(S), NEW f \in S, NEW cfg, f.kind = "config"
  PROVE  EndsWith(Append(s, f), cfg, f.cfg)
  BY AppendFacts DEF EndsWith

\* ... channels that follow change nothing about it ...
LEMMA IntentEnds ==
  ASSUME NEW S, NEW s \in Seq(S), NEW f \in S, NEW cfg, NEW c, f.kind # "config",
         EndsWith(s, cfg, c)
  PROVE  EndsWith(Append(s, f), cfg, c)
<1>1. CASE cfg = c /\ \A i \in 1..Len(s) : s[i].kind # "config"
  BY <1>1, AppendFacts DEF EndsWith
<1>2. ASSUME NEW i \in 1..Len(s), s[i].kind = "config", s[i].cfg = c,
             \A j \in 1..Len(s) : j > i => s[j].kind # "config"
      PROVE  EndsWith(Append(s, f), cfg, c)
  <2>1. i \in 1..Len(Append(s, f)) /\ Append(s, f)[i] = s[i]
    BY AppendFacts
  <2>2. \A j \in 1..Len(Append(s, f)) : j > i => Append(s, f)[j].kind # "config"
    BY <1>2, AppendFacts
  <2>3. QED BY <1>2, <2>1, <2>2 DEF EndsWith
<1>3. QED BY <1>1, <1>2 DEF EndsWith

\* ... and handling the first frame leaves the end as it is.
LEMMA HandledEnds ==
  ASSUME NEW S, NEW s \in Seq(S), s # << >>, NEW cfg, NEW c, EndsWith(s, cfg, c)
  PROVE  EndsWith(Tail(s), IF Head(s).kind = "config" THEN Head(s).cfg ELSE cfg, c)
<1>1. CASE cfg = c /\ \A i \in 1..Len(s) : s[i].kind # "config"
  BY <1>1, TailFacts DEF EndsWith
<1>2. ASSUME NEW i \in 1..Len(s), s[i].kind = "config", s[i].cfg = c,
             \A j \in 1..Len(s) : j > i => s[j].kind # "config"
      PROVE  EndsWith(Tail(s), IF Head(s).kind = "config" THEN Head(s).cfg ELSE cfg, c)
  <2>1. CASE i = 1
    BY <1>2, <2>1, TailFacts DEF EndsWith
  <2>2. CASE i > 1
    <3>1. i - 1 \in 1..Len(Tail(s)) /\ Tail(s)[i - 1] = s[i]
      BY <2>2, TailFacts
    <3>2. \A j \in 1..Len(Tail(s)) : j > i - 1 => Tail(s)[j].kind # "config"
      BY <1>2, <2>2, TailFacts
    <3>3. QED BY <1>2, <3>1, <3>2 DEF EndsWith
  <2>3. QED BY <1>2, <2>1, <2>2
<1>3. QED BY <1>1, <1>2 DEF EndsWith

-----------------------------------------------------------------------------
(* The invariant.                                                          *)

LEMMA ConfigOfType ==
  ASSUME NEW m \in Models \cup {NoModel}
  PROVE  ConfigOf(m) \in Configs
  BY SlotAssumption DEF ConfigOf, Configs, DefaultConfig

LEMMA ReadType ==
  ASSUME NEW c \in Configs
  PROVE  /\ Read(c) \in [at : {"waits", "read", "done"}, cfg : Configs]
         /\ Read(c) \in [at : {"idle", "stored", "read"}, cfg : Configs]
         /\ Read(c).at = "read" /\ Read(c).cfg = c
  BY DEF Read

LEMMA AtType ==
  /\ \A p \in {"waits", "done"} : At(p) \in [at : {"waits", "read", "done"}, cfg : Configs]
  /\ \A p \in {"idle", "stored"} : At(p) \in [at : {"idle", "stored", "read"}, cfg : Configs]
  /\ \A p : At(p).at = p
  BY SlotAssumption DEF At, Configs, DefaultConfig

LEMMA WriteType ==
  ASSUME ArmConfigTypeOK, NEW f \in Frames, Write(f)
  PROVE  toMcu' \in Seq(Frames) /\ Len(toMcu') <= PipeCap
<1>1. toMcu \in Seq(Frames) /\ Len(toMcu) < PipeCap /\ toMcu' = Append(toMcu, f)
  BY DEF ArmConfigTypeOK, Write
<1>2. Len(toMcu') = Len(toMcu) + 1 /\ toMcu' \in Seq(Frames) /\ Len(toMcu) \in Nat
  BY <1>1, AppendFacts
<1>3. QED BY <1>1, <1>2, CapAssumption

LEMMA PushInit == ConfigInit => PushInv
<1> SUFFICES ASSUME ConfigInit PROVE PushInv
  OBVIOUS
<1>1. ArmConfigTypeOK
  <2>1. boot \in [at : {"waits", "read", "done"}, cfg : Configs]
    BY AtType DEF ConfigInit
  <2>2. request \in [Requests -> [at : {"idle", "stored", "read"}, cfg : Configs]]
    BY AtType DEF ConfigInit
  <2>3. config \in Configs
    BY SlotAssumption DEF ConfigInit, DefaultConfig, Configs
  <2>4. channels \in [Slots -> Levels]
    BY DEF ConfigInit, Levels
  <2>5. toMcu \in Seq(Frames) /\ Len(toMcu) <= PipeCap
    BY CapAssumption DEF ConfigInit
  <2>6. loads \in 0..LoadCap
    BY CapAssumption DEF ConfigInit
  <2>7. QED
    BY <2>1, <2>2, <2>3, <2>4, <2>5, <2>6 DEF ConfigInit, ArmConfigTypeOK, Levels
<1>2. boot.at = "waits" /\ \A r \in Requests : request[r].at = "idle"
  BY AtType DEF ConfigInit
<1>3. QED
  BY <1>1, <1>2 DEF PushInv, GateInv, AloneInv, FreshInv, SentInv

-----------------------------------------------------------------------------
(* The steps that only one part of the invariant notices.                  *)

\* A pusher that starts, or a model that is loaded.
LEMMA BootReadStep == PushInv /\ BootRead => PushInv'
<1> SUFFICES ASSUME PushInv, BootRead PROVE PushInv'
  OBVIOUS
<1>1. boot'.at = "read" /\ boot'.cfg = ConfigOf(holder)
      /\ boot' \in [at : {"waits", "read", "done"}, cfg : Configs]
  BY ConfigOfType, ReadType DEF BootRead, PushInv, ArmConfigTypeOK
<1>2. ArmConfigTypeOK'
  BY <1>1 DEF BootRead, PushInv, ArmConfigTypeOK, firmware
<1>3. QED
  BY <1>1, <1>2 DEF BootRead, PushInv, GateInv, AloneInv, FreshInv, SentInv

LEMMA LoadStoreStep ==
  ASSUME NEW r \in Requests, NEW m \in Models, PushInv, LoadStore(r, m)
  PROVE  PushInv'
<1>1. request'[r].at = "stored" /\ \A q \in Requests : q # r => request'[q] = request[q]
  BY AtType DEF LoadStore, PushInv, ArmConfigTypeOK
<1>2. request' \in [Requests -> [at : {"idle", "stored", "read"}, cfg : Configs]]
  BY AtType DEF LoadStore, PushInv, ArmConfigTypeOK
<1>3. ArmConfigTypeOK'
  BY <1>2, CapAssumption DEF LoadStore, PushInv, ArmConfigTypeOK, firmware
<1>4. QED
  BY <1>1, <1>3 DEF LoadStore, PushInv, GateInv, AloneInv, FreshInv, SentInv, firmware

LEMMA LoadReadStep ==
  ASSUME NEW r \in Requests, PushInv, LoadRead(r)
  PROVE  PushInv'
<1>1. /\ request'[r].at = "read" /\ request'[r].cfg = ConfigOf(holder)
      /\ \A q \in Requests : q # r => request'[q] = request[q]
  BY ConfigOfType, ReadType DEF LoadRead, PushInv, ArmConfigTypeOK
<1>2. request' \in [Requests -> [at : {"idle", "stored", "read"}, cfg : Configs]]
  BY ConfigOfType, ReadType DEF LoadRead, PushInv, ArmConfigTypeOK
<1>3. ArmConfigTypeOK'
  BY <1>2 DEF LoadRead, PushInv, ArmConfigTypeOK, firmware
<1>4. QED
  BY <1>1, <1>3 DEF LoadRead, PushInv, GateInv, AloneInv, FreshInv, SentInv, firmware

\* The push of the boot goroutine.
LEMMA BootPushStep == PushInv /\ BootPush => PushInv'
<1> SUFFICES ASSUME PushInv, BootPush PROVE PushInv'
  OBVIOUS
<1> DEFINE f == [kind |-> "config", cfg |-> boot.cfg]
<1>1. f \in Frames /\ f.kind = "config" /\ f.cfg = boot.cfg
  BY DEF PushInv, ArmConfigTypeOK, Frames
<1>2. boot'.at = "done" /\ boot' \in [at : {"waits", "read", "done"}, cfg : Configs]
  BY AtType DEF BootPush
<1>3. Write(f) /\ toMcu' = Append(toMcu, f) /\ toMcu \in Seq(Frames)
  BY DEF BootPush, Write, PushInv, ArmConfigTypeOK
<1> HIDE DEF f
<1>4. ArmConfigTypeOK'
  <2>1. toMcu' \in Seq(Frames) /\ Len(toMcu') <= PipeCap
    BY <1>1, <1>3, WriteType DEF PushInv
  <2>2. QED BY <1>2, <2>1 DEF BootPush, PushInv, ArmConfigTypeOK, firmware
<1>5. EndsWith(toMcu', config, boot.cfg)
  BY <1>1, <1>3, PushEnds
<1>6. ASSUME ~overlapped' PROVE AloneInv' /\ FreshInv' /\ SentInv'
  <2>1. AloneInv /\ FreshInv
    BY <1>6 DEF BootPush, PushInv
  <2>2. AloneInv' /\ FreshInv'
    BY <2>1, <1>2 DEF BootPush, AloneInv, FreshInv
  <2>3. holder # NoModel => boot.cfg = ConfigOf(holder)
    BY <2>1 DEF BootPush, FreshInv
  <2>4. SentInv'
    BY <2>3, <1>5 DEF BootPush, SentInv, firmware
  <2>5. QED BY <2>2, <2>4
<1>7. GateInv'
  BY DEF BootPush, PushInv, GateInv
<1>8. QED BY <1>4, <1>6, <1>7 DEF PushInv

\* The push of a model load; with the gate closed the boot push is still to come.
LEMMA LoadPushStep ==
  ASSUME NEW r \in Requests, PushInv, LoadPush(r)
  PROVE  PushInv'
<1> DEFINE f == [kind |-> "config", cfg |-> request[r].cfg]
<1>1. f \in Frames /\ f.kind = "config" /\ f.cfg = request[r].cfg
  BY DEF PushInv, ArmConfigTypeOK, Frames
<1>2. /\ request'[r].at = "idle" /\ \A q \in Requests : q # r => request'[q] = request[q]
      /\ request' \in [Requests -> [at : {"idle", "stored", "read"}, cfg : Configs]]
  BY AtType DEF LoadPush, PushInv, ArmConfigTypeOK
<1>3. toMcu \in Seq(Frames) /\ (gate => Write(f) /\ toMcu' = Append(toMcu, f))
      /\ (~gate => toMcu' = toMcu)
  BY DEF LoadPush, Write, PushInv, ArmConfigTypeOK
<1> HIDE DEF f
<1>4. ArmConfigTypeOK'
  <2>1. toMcu' \in Seq(Frames) /\ Len(toMcu') <= PipeCap
    BY <1>1, <1>3, WriteType DEF PushInv, ArmConfigTypeOK
  <2>2. QED BY <1>2, <2>1 DEF LoadPush, PushInv, ArmConfigTypeOK, firmware
<1>5. ASSUME ~overlapped' PROVE AloneInv' /\ FreshInv' /\ SentInv'
  <2>1. AloneInv /\ FreshInv
    BY <1>5 DEF LoadPush, PushInv
  <2>2. AloneInv'
    BY <2>1, <1>2 DEF LoadPush, AloneInv
  <2>3. FreshInv'
    BY <2>1, <1>2 DEF LoadPush, FreshInv
  <2>4. ASSUME holder # NoModel, boot.at = "done"
        PROVE  EndsWith(toMcu', config, ConfigOf(holder))
    <3>1. gate
      BY <2>4 DEF PushInv, GateInv
    <3>2. request[r].cfg = ConfigOf(holder)
      BY <2>1, <2>4 DEF LoadPush, FreshInv
    <3>3. QED BY <1>1, <1>3, <3>1, <3>2, PushEnds
  <2>5. SentInv'
    BY <2>4 DEF LoadPush, SentInv, firmware
  <2>6. QED BY <2>2, <2>3, <2>5
<1>6. GateInv'
  BY DEF LoadPush, PushInv, GateInv
<1>7. QED BY <1>4, <1>5, <1>6 DEF PushInv

\* Channels in the pipe.
LEMMA MixerTickStep == PushInv /\ MixerTick => PushInv'
<1> SUFFICES ASSUME PushInv, MixerTick PROVE PushInv'
  OBVIOUS
<1>1. PICK rest \in Levels :
        Write([kind |-> "intent", of |-> holder,
               ch |-> [[i \in Slots |-> rest] EXCEPT ![ThrSlot[holder]] = stick]])
  BY DEF MixerTick
<1> DEFINE ch == [[i \in Slots |-> rest] EXCEPT ![ThrSlot[holder]] = stick]
           f  == [kind |-> "intent", of |-> holder, ch |-> ch]
<1>2. ch \in [Slots -> Levels] /\ holder \in Models
  BY DEF MixerTick, PushInv, ArmConfigTypeOK
<1> HIDE DEF ch
<1>3. f \in Frames /\ f.kind # "config"
  BY <1>2 DEF Frames
<1>4. Write(f) /\ toMcu' = Append(toMcu, f) /\ toMcu \in Seq(Frames)
  BY <1>1 DEF Write, PushInv, ArmConfigTypeOK, ch
<1> HIDE DEF f
<1>5. ArmConfigTypeOK'
  <2>1. toMcu' \in Seq(Frames) /\ Len(toMcu') <= PipeCap
    BY <1>3, <1>4, WriteType DEF PushInv
  <2>2. QED BY <2>1 DEF MixerTick, PushInv, ArmConfigTypeOK, firmware, pushers
<1>6. SentInv => SentInv'
  BY <1>3, <1>4, IntentEnds DEF MixerTick, SentInv, firmware, pushers
<1>7. QED
  BY <1>5, <1>6 DEF MixerTick, PushInv, GateInv, AloneInv, FreshInv, firmware, pushers

\* The firmware's turn.
LEMMA HandleFrameStep == PushInv /\ HandleFrame => PushInv'
<1> SUFFICES ASSUME PushInv, HandleFrame PROVE PushInv'
  OBVIOUS
<1>1. toMcu \in Seq(Frames) /\ toMcu # << >> /\ toMcu' = Tail(toMcu)
  BY DEF HandleFrame, PushInv, ArmConfigTypeOK
<1>2. /\ Head(toMcu) \in Frames /\ toMcu' \in Seq(Frames)
      /\ Len(toMcu') = Len(toMcu) - 1 /\ Len(toMcu) \in Nat
  BY <1>1, TailFacts
<1>3. config' = IF Head(toMcu).kind = "config" THEN Head(toMcu).cfg ELSE config
  BY DEF HandleFrame
<1>4. ArmConfigTypeOK'
  <2>1. config' \in Configs
    BY <1>2, <1>3 DEF Frames, PushInv, ArmConfigTypeOK
  <2>2. channels' \in [Slots -> Levels] /\ mixedFor' \in Models \cup {NoModel}
    BY <1>2 DEF HandleFrame, Frames, PushInv, ArmConfigTypeOK
  <2>3. Len(toMcu') <= PipeCap
    BY <1>2, CapAssumption DEF PushInv, ArmConfigTypeOK
  <2>4. QED
    BY <1>2, <2>1, <2>2, <2>3 DEF HandleFrame, PushInv, ArmConfigTypeOK, pushers
<1>5. SentInv => SentInv'
  BY <1>1, <1>3, HandledEnds DEF HandleFrame, SentInv, pushers
<1>6. QED
  BY <1>4, <1>5 DEF HandleFrame, PushInv, GateInv, AloneInv, FreshInv, pushers

-----------------------------------------------------------------------------

LEMMA PushStep == PushInv /\ [ConfigNext]_acVars => PushInv'
<1> SUFFICES ASSUME PushInv, [ConfigNext]_acVars PROVE PushInv'
  OBVIOUS
<1> USE DEF PushInv, ArmConfigTypeOK, GateInv, AloneInv, FreshInv, SentInv, firmware, pushers
<1>1. CASE Handshake
  BY <1>1 DEF Handshake
<1>2. CASE Unload
  BY <1>2 DEF Unload
<1>3. CASE MoveStick
  BY <1>3 DEF MoveStick
<1>4. CASE KeyDownEdge
  BY <1>4 DEF KeyDownEdge, Levels
<1>5. CASE UNCHANGED acVars
  BY <1>5 DEF acVars
<1>6. QED
  BY <1>1, <1>2, <1>3, <1>4, <1>5, BootReadStep, BootPushStep, LoadStoreStep,
     LoadReadStep, LoadPushStep, MixerTickStep, HandleFrameStep DEF ConfigNext

LEMMA Pushing == ConfigSpec => []PushInv
<1>1. QED BY PushInit, PushStep, PTL DEF ConfigSpec

LEMMA SettledConfig == PushInv => SerialPushesConverge
  BY DEF PushInv, SentInv, EndsWith, SerialPushesConverge, PushesSettled

\* As long as no two pushers overlap, the firmware ends with the slots of the
\* active model (the two pushes of main.go), however many models are loaded and
\* however long the pipe is.
THEOREM PushesConverge == ConfigSpec => []ConfigFollowsModel
<1>1. PushInv => ConfigFollowsModel
  BY SettledConfig DEF PushInv, ConfigFollowsModel
<1>2. QED BY <1>1, Pushing, PTL

\* The override of arm_override.c then cuts on a low throttle only.
THEOREM CutOnLowOnly == ConfigSpec => NoCutInFlight
<1> DEFINE A == channels'[config.arm] # channels[config.arm] /\ mixedFor' = mixedFor
                  /\ toMcu' = toMcu /\ PushesSettled /\ ~overlapped
                  /\ holder # NoModel /\ mixedFor = holder
                => channels[ThrSlot[holder]] = "low"
<1>1. PushInv /\ [ConfigNext]_acVars => [A]_acVars
  <2> SUFFICES ASSUME PushInv, ConfigNext, channels' # channels, toMcu' = toMcu,
                      PushesSettled, ~overlapped, holder # NoModel
               PROVE  channels[ThrSlot[holder]] = "low"
    OBVIOUS
  <2>1. config = ConfigOf(holder)
    BY SettledConfig DEF SerialPushesConverge
  <2>2. ~HandleFrame
    <3>1. toMcu \in Seq(Frames)
      BY DEF PushInv, ArmConfigTypeOK
    <3>2. toMcu # << >> => Len(Tail(toMcu)) # Len(toMcu)
      BY <3>1, TailFacts
    <3>3. QED BY <3>2 DEF HandleFrame
  <2>3. KeyDownEdge
    BY <2>2 DEF ConfigNext, Handshake, BootRead, BootPush, LoadStore, LoadRead, LoadPush,
       Unload, MoveStick, MixerTick, firmware
  <2>4. QED BY <2>1, <2>3 DEF KeyDownEdge, ConfigOf
<1>2. QED BY <1>1, Pushing, PTL DEF ConfigSpec, NoCutInFlight

-----------------------------------------------------------------------------
(* The arm key and the button.                                               *)

\* Nobody has been told of the key on this connection before it is announced.
FirstIsAnnounced ==
    /\ ~open => line = << >>
    /\ ~announced => keyReports = {} /\ (open => ~seen)

\* How long ago the last press was reported, by where the button is now.
PressAges ==
    LET m == "momentary" IN
    /\ stable[m] /\ ~raw[m] => sincePress >= age[m]
    /\ ~stable[m] => sincePress >= Debounce
    /\ ~stable[m] /\ raw[m] => sincePress = AgeCap \/ sincePress >= Debounce + age[m]

PanelInv == InputsAreReported /\ FirstIsAnnounced /\ PressAges

LEMMA PanelTypes == PanelInv => PanelTypeOK /\ AgeCap \in Nat /\ Debounce \in Nat
  BY DebounceAssumption DEF PanelInv, InputsAreReported, AgeCap

\* Sending a report of the key: what is on the line stays.
LEMMA LineAppended ==
  ASSUME line \in Seq(Reports), NEW r \in Reports, line' = Append(line, r)
  PROVE  /\ line' \in Seq(Reports) /\ Len(line') = Len(line) + 1 /\ Len(line) \in Nat
         /\ line'[Len(line) + 1] = r /\ \A i \in 1..Len(line) : line'[i] = line[i]
  OBVIOUS

LEMMA LineTaken ==
  ASSUME line \in Seq(Reports), line # << >>, line' = Tail(line)
  PROVE  /\ line' \in Seq(Reports) /\ Len(line') = Len(line) - 1 /\ Len(line) \in Nat \ {0}
         /\ \A i \in 1..Len(line') : line'[i] = line[i + 1]
         /\ Head(line) = line[1] /\ Head(line) \in Reports
  BY HeadTailProperties

LEMMA PanelStarts == PanelInit => PanelInv
<1> SUFFICES ASSUME PanelInit PROVE PanelInv
  OBVIOUS
<1>1. AgeCap \in Nat /\ Debounce \in Nat /\ AgeCap >= Debounce /\ LineCap \in Nat
  BY DebounceAssumption, LineAssumption DEF AgeCap
<1>2. keyReports = {}
  BY DEF PanelInit, keyReports
<1>3. PanelTypeOK
  <2>1. line \in Seq(Reports) /\ Len(line) = 0
    BY DEF PanelInit
  <2>2. /\ pin \in [Inputs -> BOOLEAN] /\ raw \in [Inputs -> BOOLEAN] /\ stable \in [Inputs -> BOOLEAN]
        /\ announced \in BOOLEAN /\ open \in BOOLEAN /\ seen \in BOOLEAN /\ daemonKey \in BOOLEAN /\ hasty \in BOOLEAN
    BY DEF PanelInit
  <2>3. age \in [Inputs -> 0..AgeCap] /\ sincePress \in 0..AgeCap /\ Len(line) <= LineCap
    BY <1>1, <2>1 DEF PanelInit
  <2>4. QED BY <2>1, <2>2, <2>3 DEF PanelTypeOK
<1>4. ReportsAreEdges /\ BeliefFollowsKey /\ FirstIsAnnounced
  BY <1>2 DEF PanelInit, ReportsAreEdges, BeliefFollowsKey, FirstIsAnnounced
<1>5. PressAges
  BY <1>1 DEF PanelInit, PressAges, Inputs
<1>6. PressesSeparated
  BY DEF PanelInit, PressesSeparated
<1>7. QED BY <1>3, <1>4, <1>5, <1>6 DEF PanelInv, InputsAreReported

\* A step that leaves the line and both ends of it alone.
LEMMA LineStays ==
  ASSUME PanelInv, UNCHANGED <<line, open, daemon, announced>>, stable'["arm_key"] = stable["arm_key"]
  PROVE  ReportsAreEdges' /\ BeliefFollowsKey' /\ FirstIsAnnounced'
<1>1. keyReports' = keyReports
  BY DEF keyReports
<1>2. QED BY <1>1 DEF daemon, PanelInv, InputsAreReported, ReportsAreEdges, BeliefFollowsKey, FirstIsAnnounced,
     Consecutive, FirstKey, LastKey

\* The port is closed: nothing is in flight.
LEMMA LineEmpty ==
  ASSUME ~open', line' = << >>
  PROVE  ReportsAreEdges' /\ BeliefFollowsKey' /\ FirstIsAnnounced'
<1>1. (keyReports)' = {}
  BY DEF keyReports
<1>2. QED BY <1>1 DEF ReportsAreEdges, BeliefFollowsKey, FirstIsAnnounced

LEMMA KeyIsReported ==
  ASSUME PanelInv, ReportKey
  PROVE  PanelTypeOK' /\ ReportsAreEdges' /\ BeliefFollowsKey' /\ FirstIsAnnounced'
<1> DEFINE up == raw["arm_key"]
           r == IF up THEN "up" ELSE "down"
           n == Len(line)
<1>1. /\ stable' = [stable EXCEPT !["arm_key"] = up] /\ announced' = TRUE
      /\ UNCHANGED <<pin, raw, age, open, seen, daemonKey, sincePress, hasty>>
      /\ SendReport(r) /\ (up # stable["arm_key"] \/ ~announced)
  BY DEF ReportKey, KeySettled, Pending, daemon, presses
<1>2. PanelTypeOK /\ r \in Reports /\ up \in BOOLEAN /\ stable["arm_key"] \in BOOLEAN
  BY PanelTypes DEF PanelTypeOK, Reports, Inputs
<1>3. stable'["arm_key"] = up /\ stable' \in [Inputs -> BOOLEAN]
  BY <1>1, <1>2 DEF PanelTypeOK, Inputs
<1>4. CASE ~open
  <2>1. line' = line /\ line = << >>
    BY <1>1, <1>4 DEF SendReport, PanelInv, FirstIsAnnounced
  <2>2. PanelTypeOK'
    BY <1>1, <1>2, <1>3, <2>1 DEF PanelTypeOK
  <2>3. QED BY <1>1, <1>4, <2>1, <2>2, LineEmpty
<1>5. CASE open
  <2>1. line' = Append(line, r) /\ n < LineCap /\ line \in Seq(Reports)
    BY <1>1, <1>2, <1>5 DEF SendReport, PanelTypeOK
  <2>2. /\ line' \in Seq(Reports) /\ Len(line') = n + 1 /\ n \in Nat
        /\ line'[n + 1] = r /\ \A i \in 1..n : line'[i] = line[i]
    BY <1>2, <2>1, LineAppended
  <2>3. PanelTypeOK'
    BY <1>1, <1>2, <1>3, <2>1, <2>2, LineAssumption DEF PanelTypeOK
  <2>4. r # "press" /\ (r = "up" <=> up)
    BY <1>2
  <2> HIDE DEF n, r, up
  <2>5. keyReports' = keyReports \cup {n + 1} /\ keyReports \subseteq 1..n
    BY <2>2, <2>4 DEF keyReports, n
  <2>6. \A i \in keyReports : LastKey(i) => line[i] # r
    <3>1. CASE ~announced
      BY <3>1 DEF PanelInv, FirstIsAnnounced
    <3>2. CASE announced
      BY <1>1, <1>2, <1>5, <2>4, <3>2 DEF PanelInv, InputsAreReported, BeliefFollowsKey
    <3>3. QED BY <3>1, <3>2
  <2>7. ReportsAreEdges'
    <3>1. ASSUME NEW i \in keyReports', NEW j \in keyReports', Consecutive(i, j)' PROVE line'[i] # line'[j]
      <4>1. i < j /\ \A k \in keyReports' : k <= i \/ j <= k
        BY <3>1 DEF Consecutive
      <4>2. i \in keyReports /\ i \in 1..n
        <5>1. (i \in 1..n \/ i = n + 1) /\ (j \in 1..n \/ j = n + 1) /\ (i # n + 1 => i \in keyReports)
          BY <2>5
        <5>2. i # n + 1
          BY <2>2, <4>1, <5>1
        <5>3. QED BY <5>1, <5>2
      <4>3. CASE j = n + 1
        <5>1. ASSUME NEW k \in keyReports PROVE k <= i
          <6>1. k \in 1..n /\ k \in keyReports' /\ n \in Nat
            BY <2>2, <2>5, <5>1
          <6>2. k <= i \/ n + 1 <= k
            BY <4>1, <4>3, <6>1
          <6>3. QED BY <6>1, <6>2
        <5>2. LastKey(i)
          BY <5>1 DEF LastKey
        <5>3. QED BY <2>2, <2>6, <4>2, <4>3, <5>2
      <4>4. CASE j \in keyReports
        <5>1. Consecutive(i, j)
          BY <2>5, <4>1 DEF Consecutive
        <5>2. QED BY <2>2, <2>5, <4>2, <4>4, <5>1 DEF PanelInv, InputsAreReported, ReportsAreEdges
      <4>5. QED BY <2>5, <4>3, <4>4
    <3>2. ASSUME seen, NEW i \in keyReports', FirstKey(i)' PROVE line'[i] = "up" <=> ~daemonKey
      <4>1. \A k \in keyReports' : i <= k
        BY <3>2 DEF FirstKey
      <4>2. CASE i \in keyReports
        <5>1. FirstKey(i)
          BY <2>5, <4>1 DEF FirstKey
        <5>2. QED BY <1>5, <2>2, <2>5, <3>2, <4>2, <5>1 DEF PanelInv, InputsAreReported, ReportsAreEdges
      <4>3. CASE i = n + 1
        <5>1. keyReports = {}
          BY <2>2, <2>5, <4>1, <4>3
        <5>2. announced
          BY <1>5, <3>2 DEF PanelInv, FirstIsAnnounced
        <5>3. daemonKey = stable["arm_key"]
          BY <1>5, <3>2, <5>1 DEF PanelInv, InputsAreReported, BeliefFollowsKey
        <5>4. QED BY <1>1, <1>2, <2>2, <2>4, <4>3, <5>2, <5>3
      <4>4. QED BY <2>5, <4>2, <4>3
    <3>3. QED BY <1>1, <3>1, <3>2 DEF ReportsAreEdges
  <2>8. BeliefFollowsKey'
    <3>1. n + 1 \in keyReports'
      BY <2>5
    <3>2. ASSUME NEW i \in keyReports', LastKey(i)' PROVE i = n + 1
      <4>1. n + 1 <= i
        BY <3>1, <3>2 DEF LastKey
      <4>2. i \in 1..n \/ i = n + 1
        BY <2>5
      <4>3. QED BY <2>2, <4>1, <4>2
    <3>3. QED BY <1>3, <2>2, <2>4, <3>1, <3>2 DEF BeliefFollowsKey
  <2>9. FirstIsAnnounced'
    BY <1>1, <1>5 DEF FirstIsAnnounced
  <2>10. QED BY <2>3, <2>7, <2>8, <2>9
<1>6. QED BY <1>4, <1>5

LEMMA InputIsTaken ==
  ASSUME PanelInv, DaemonInput
  PROVE  PanelTypeOK' /\ ReportsAreEdges' /\ BeliefFollowsKey' /\ FirstIsAnnounced'
<1>1. /\ line # << >> /\ line' = Tail(line)
      /\ UNCHANGED <<pin, raw, stable, age, announced, open, sincePress, hasty>>
  BY DEF DaemonInput, debouncer, presses
<1>2. PanelTypeOK /\ line \in Seq(Reports) /\ stable["arm_key"] \in BOOLEAN
  BY PanelTypes DEF PanelTypeOK, Inputs
<1>3. /\ line' \in Seq(Reports) /\ Len(line') = Len(line) - 1 /\ Len(line) \in Nat \ {0}
      /\ \A i \in 1..Len(line') : line'[i] = line[i + 1]
      /\ Head(line) = line[1] /\ line[1] \in Reports
  BY <1>1, <1>2, LineTaken
<1>4. open
  BY <1>1 DEF PanelInv, FirstIsAnnounced
<1>5. \/ line[1] # "press" /\ seen' = TRUE /\ daemonKey' = (line[1] = "up")
      \/ line[1] = "press" /\ UNCHANGED <<seen, daemonKey>>
  BY <1>3 DEF DaemonInput, FirstReport, daemon
<1>6. seen' \in BOOLEAN /\ daemonKey' \in BOOLEAN
  BY <1>2, <1>5 DEF PanelTypeOK
<1>7. PanelTypeOK'
  <2>1. Len(line') <= LineCap
    BY <1>2, <1>3, LineAssumption DEF PanelTypeOK
  <2>2. QED BY <1>1, <1>2, <1>3, <1>6, <2>1 DEF PanelTypeOK
<1>8. ASSUME NEW i PROVE i \in keyReports' <=> i \in Nat \ {0} /\ i + 1 \in keyReports
  BY <1>3 DEF keyReports
<1>9. keyReports \subseteq Nat \ {0} /\ keyReports' \subseteq Nat \ {0}
  BY <1>3 DEF keyReports
<1>10. ASSUME NEW i \in keyReports' PROVE line'[i] = line[i + 1] /\ i + 1 \in keyReports /\ line[i + 1] \in {"up", "down"}
  BY <1>2, <1>3, <1>8 DEF keyReports, Reports
<1>11. 1 \in keyReports <=> line[1] # "press"
  BY <1>3 DEF keyReports
<1>12. \A k \in keyReports : k = 1 \/ k - 1 \in keyReports'
  BY <1>8, <1>9
<1>13. ASSUME NEW i \in keyReports' PROVE LastKey(i)' => LastKey(i + 1)
  BY <1>9, <1>12 DEF LastKey
<1>14. ReportsAreEdges'
  <2>1. ASSUME NEW i \in keyReports', NEW j \in keyReports', Consecutive(i, j)' PROVE line'[i] # line'[j]
    <3>1. Consecutive(i + 1, j + 1)
      BY <1>9, <1>12, <2>1 DEF Consecutive
    <3>2. QED BY <1>10, <3>1 DEF PanelInv, InputsAreReported, ReportsAreEdges
  <2>2. ASSUME seen', NEW i \in keyReports', FirstKey(i)' PROVE line'[i] = "up" <=> ~daemonKey'
    <3>1. CASE line[1] = "press"
      <4>1. FirstKey(i + 1)
        BY <1>9, <1>11, <1>12, <2>2, <3>1 DEF FirstKey
      <4>2. seen /\ daemonKey' = daemonKey
        BY <1>5, <2>2, <3>1
      <4>3. QED BY <1>4, <1>10, <4>1, <4>2 DEF PanelInv, InputsAreReported, ReportsAreEdges
    <3>2. CASE line[1] # "press"
      <4>1. Consecutive(1, i + 1)
        BY <1>9, <1>12, <2>2 DEF Consecutive, FirstKey
      <4>2. line[1] # line[i + 1]
        BY <1>10, <1>11, <3>2, <4>1 DEF PanelInv, InputsAreReported, ReportsAreEdges
      <4>3. line[1] \in {"up", "down"} /\ line[i + 1] \in {"up", "down"} /\ line'[i] = line[i + 1]
        BY <1>3, <1>10, <3>2 DEF Reports
      <4>4. daemonKey' <=> line[1] = "up"
        BY <1>5, <3>2
      <4>5. QED BY <4>2, <4>3, <4>4
    <3>3. QED BY <3>1, <3>2
  <2>3. QED BY <2>1, <2>2 DEF ReportsAreEdges
<1>15. BeliefFollowsKey'
  <2>1. ASSUME seen', keyReports' = {} PROVE daemonKey' = stable'["arm_key"]
    <3>1. CASE line[1] = "press"
      <4>1. keyReports = {}
        BY <1>11, <1>12, <2>1, <3>1
      <4>2. QED BY <1>1, <1>4, <1>5, <2>1, <3>1, <4>1 DEF PanelInv, InputsAreReported, BeliefFollowsKey
    <3>2. CASE line[1] # "press"
      <4>1. LastKey(1)
        BY <1>9, <1>12, <2>1 DEF LastKey
      <4>2. line[1] = "up" <=> stable["arm_key"]
        BY <1>4, <1>11, <3>2, <4>1 DEF PanelInv, InputsAreReported, BeliefFollowsKey
      <4>3. daemonKey' <=> line[1] = "up"
        BY <1>5, <3>2
      <4>4. QED BY <1>1, <1>2, <1>6, <4>2, <4>3
    <3>3. QED BY <3>1, <3>2
  <2>2. ASSUME NEW i \in keyReports', LastKey(i)' PROVE line'[i] = "up" <=> stable'["arm_key"]
    BY <1>1, <1>4, <1>10, <1>13, <2>2 DEF PanelInv, InputsAreReported, BeliefFollowsKey
  <2>3. QED BY <2>1, <2>2 DEF BeliefFollowsKey
<1>16. FirstIsAnnounced'
  <2>1. ASSUME ~announced' PROVE keyReports' = {} /\ (open' => ~seen')
    <3>1. keyReports = {} /\ (open => ~seen)
      BY <1>1, <2>1 DEF PanelInv, FirstIsAnnounced
    <3>2. QED BY <1>1, <1>5, <1>8, <1>11, <3>1
  <2>2. QED BY <1>1, <1>4, <2>1 DEF FirstIsAnnounced
<1>17. QED BY <1>7, <1>14, <1>15, <1>16

\* A report of a press, which does not concern the key.
LEMMA PressIsReported ==
  ASSUME PanelInv, line \in Seq(Reports), SendReport("press"), UNCHANGED <<open, daemon, announced>>,
         stable'["arm_key"] = stable["arm_key"]
  PROVE  /\ ReportsAreEdges' /\ BeliefFollowsKey' /\ FirstIsAnnounced'
         /\ line' \in Seq(Reports) /\ Len(line') <= LineCap
<1>1. CASE ~open
  <2>1. line' = line /\ line = << >>
    BY <1>1 DEF SendReport, PanelInv, FirstIsAnnounced
  <2>2. Len(line') <= LineCap
    BY <2>1, PanelTypes DEF PanelTypeOK
  <2>3. QED BY <1>1, <2>1, <2>2, LineEmpty
<1>2. CASE open
  <2>1. line' = Append(line, "press") /\ Len(line) < LineCap
    BY <1>2 DEF SendReport
  <2>2. /\ line' \in Seq(Reports) /\ Len(line') = Len(line) + 1 /\ Len(line) \in Nat
        /\ line'[Len(line) + 1] = "press" /\ \A i \in 1..Len(line) : line'[i] = line[i]
    BY <2>1, LineAppended DEF Reports
  <2>3. keyReports' = keyReports /\ \A i \in keyReports : line'[i] = line[i]
    BY <2>2 DEF keyReports
  <2>4. Len(line') <= LineCap
    BY <2>1, <2>2, LineAssumption
  <2>5. ReportsAreEdges' /\ BeliefFollowsKey'
    BY <2>3 DEF daemon, PanelInv, InputsAreReported, ReportsAreEdges, BeliefFollowsKey, Consecutive, FirstKey, LastKey
  <2>6. FirstIsAnnounced'
    BY <1>2, <2>3 DEF daemon, PanelInv, FirstIsAnnounced
  <2>7. QED BY <2>2, <2>4, <2>5, <2>6
<1>3. QED BY <1>1, <1>2

LEMMA PanelKeeps == PanelInv /\ [PanelNext]_piVars => PanelInv'
<1> SUFFICES ASSUME PanelInv, [PanelNext]_piVars PROVE PanelInv'
  OBVIOUS
<1>t. PanelTypeOK /\ AgeCap \in Nat /\ Debounce \in Nat /\ AgeCap = 2 * Debounce
  BY PanelTypes DEF AgeCap
<1>g. PanelInv' <=> PanelTypeOK' /\ ReportsAreEdges' /\ BeliefFollowsKey' /\ PressesSeparated' /\ FirstIsAnnounced' /\ PressAges'
  BY DEF PanelInv, InputsAreReported
<1>1. ASSUME NEW i \in Inputs, NoteEdge(i) PROVE PanelInv'
  <2>1. /\ pin[i] # raw[i] /\ raw' = [raw EXCEPT ![i] = pin[i]] /\ age' = [age EXCEPT ![i] = 0]
        /\ UNCHANGED <<pin, stable, announced, open, line, daemon, sincePress, hasty>>
    BY <1>1 DEF NoteEdge, presses
  <2>2. PanelTypeOK'
    BY <1>t, <2>1 DEF PanelTypeOK, daemon
  <2>3. PressAges'
    BY <1>t, <2>1 DEF PanelInv, PressAges, PanelTypeOK, Inputs
  <2>4. PressesSeparated'
    BY <2>1 DEF PanelInv, InputsAreReported, PressesSeparated
  <2>5. QED BY <1>g, <2>1, <2>2, <2>3, <2>4, LineStays
<1>2. CASE ReportKey
  <2>1. /\ stable' = [stable EXCEPT !["arm_key"] = raw["arm_key"]] /\ UNCHANGED <<raw, age, sincePress, hasty>>
    BY <1>2 DEF ReportKey, presses
  <2>2. stable'["momentary"] = stable["momentary"]
    BY <1>t, <2>1 DEF PanelTypeOK, Inputs
  <2>3. PressAges' /\ PressesSeparated'
    BY <2>1, <2>2 DEF PanelInv, InputsAreReported, PressAges, PressesSeparated
  <2>4. QED BY <1>g, <1>2, <2>3, KeyIsReported
<1>3. CASE ReportPress
  <2>1. /\ raw["momentary"] # stable["momentary"] /\ age["momentary"] >= Debounce
        /\ stable' = [stable EXCEPT !["momentary"] = raw["momentary"]]
        /\ UNCHANGED <<pin, raw, age, announced, open, daemon>>
    BY <1>3 DEF ReportPress, KeySettled, Pending
  <2>2. stable'["arm_key"] = stable["arm_key"] /\ stable'["momentary"] = raw["momentary"] /\ stable' \in [Inputs -> BOOLEAN]
    BY <1>t, <2>1 DEF PanelTypeOK, Inputs
  <2>3. /\ raw["momentary"] \in BOOLEAN /\ stable["momentary"] \in BOOLEAN
        /\ age["momentary"] \in 0..AgeCap /\ sincePress \in 0..AgeCap
    BY <1>t DEF PanelTypeOK, Inputs
  <2>4. CASE raw["momentary"]
    <3>1. SendReport("press") /\ sincePress' = 0 /\ hasty' = (hasty \/ sincePress < 2 * Debounce)
      BY <1>3, <2>4 DEF ReportPress
    <3>2. sincePress >= 2 * Debounce
      <4>1. ~stable["momentary"]
        BY <2>1, <2>3, <2>4
      <4>2. sincePress = AgeCap \/ sincePress >= Debounce + age["momentary"]
        BY <2>4, <4>1 DEF PanelInv, PressAges
      <4>3. sincePress \in Nat /\ age["momentary"] \in Nat
        BY <1>t, <2>3
      <4>4. QED BY <1>t, <2>1, <4>2, <4>3
    <3>3. ~hasty' /\ hasty' \in BOOLEAN
      BY <1>t, <2>3, <3>1, <3>2 DEF PanelInv, InputsAreReported, PressesSeparated, PanelTypeOK
    <3>4. /\ ReportsAreEdges' /\ BeliefFollowsKey' /\ FirstIsAnnounced'
          /\ line' \in Seq(Reports) /\ Len(line') <= LineCap
      BY <1>t, <2>1, <2>2, <3>1, PressIsReported DEF PanelTypeOK
    <3>5. PanelTypeOK'
      BY <1>t, <2>1, <2>2, <3>1, <3>3, <3>4 DEF PanelTypeOK, daemon
    <3>6. PressAges' /\ PressesSeparated'
      BY <2>1, <2>2, <2>4, <3>3 DEF PressAges, PressesSeparated
    <3>7. QED BY <1>g, <3>4, <3>5, <3>6
  <2>5. CASE ~raw["momentary"]
    <3>1. UNCHANGED <<line, sincePress, hasty>>
      BY <1>3, <2>5 DEF ReportPress, presses
    <3>2. PanelTypeOK'
      BY <1>t, <2>1, <2>2, <3>1 DEF PanelTypeOK, daemon
    <3>3. PressAges' /\ PressesSeparated'
      BY <1>t, <2>1, <2>2, <2>3, <2>5, <3>1 DEF PanelInv, InputsAreReported, PressAges, PressesSeparated
    <3>4. QED BY <1>g, <2>1, <2>2, <3>1, <3>2, <3>3, LineStays
  <2>6. QED BY <2>4, <2>5
<1>4. CASE Elapse
  <2>1. /\ age' = [i \in Inputs |-> Older(age[i])] /\ sincePress' = Older(sincePress)
        /\ UNCHANGED <<pin, raw, stable, announced, open, line, daemon, hasty>>
    BY <1>4 DEF Elapse
  <2>2. \A t \in 0..AgeCap : Older(t) \in 0..AgeCap
    BY <1>t DEF Older
  <2>3. PanelTypeOK'
    BY <1>t, <2>1, <2>2 DEF PanelTypeOK, daemon
  <2>4. age["momentary"] \in 0..AgeCap /\ sincePress \in 0..AgeCap /\ age'["momentary"] = Older(age["momentary"])
    BY <1>t, <2>1 DEF PanelTypeOK, Inputs
  <2>5. PressAges'
    BY <1>t, <2>1, <2>4 DEF PanelInv, PressAges, Older
  <2>6. PressesSeparated'
    BY <2>1 DEF PanelInv, InputsAreReported, PressesSeparated
  <2>7. QED BY <1>g, <2>1, <2>3, <2>5, <2>6, LineStays
<1>5. CASE DaemonInput
  <2>1. UNCHANGED <<raw, stable, age, sincePress, hasty>>
    BY <1>5 DEF DaemonInput, debouncer, presses
  <2>2. PressAges' /\ PressesSeparated'
    BY <2>1 DEF PanelInv, InputsAreReported, PressAges, PressesSeparated
  <2>3. QED BY <1>g, <1>5, <2>2, InputIsTaken
<1>6. ASSUME NEW i \in Inputs, Move(i) PROVE PanelInv'
  <2>1. /\ pin' = [pin EXCEPT ![i] = ~pin[i]]
        /\ UNCHANGED <<raw, stable, age, announced, open, line, daemon, sincePress, hasty>>
    BY <1>6 DEF Move, debouncer, presses
  <2>2. PanelTypeOK'
    BY <1>t, <2>1 DEF PanelTypeOK, daemon
  <2>3. PressAges' /\ PressesSeparated'
    BY <2>1 DEF PanelInv, InputsAreReported, PressAges, PressesSeparated
  <2>4. QED BY <1>g, <2>1, <2>2, <2>3, LineStays
<1>7. CASE DaemonStart
  <2>1. /\ ~open /\ open' = TRUE /\ seen' = FALSE /\ daemonKey' = FALSE
        /\ UNCHANGED <<pin, raw, stable, age, announced, line, sincePress, hasty>>
    BY <1>7 DEF DaemonStart, debouncer, presses
  <2>2. line = << >>
    BY <2>1 DEF PanelInv, FirstIsAnnounced
  <2>3. keyReports' = {}
    BY <2>1, <2>2 DEF keyReports
  <2>4. PanelTypeOK'
    BY <1>t, <2>1 DEF PanelTypeOK
  <2>5. ReportsAreEdges' /\ BeliefFollowsKey' /\ FirstIsAnnounced'
    BY <2>1, <2>3 DEF ReportsAreEdges, BeliefFollowsKey, FirstIsAnnounced
  <2>6. PressAges' /\ PressesSeparated'
    BY <2>1 DEF PanelInv, InputsAreReported, PressAges, PressesSeparated
  <2>7. QED BY <1>g, <2>4, <2>5, <2>6
<1>8. CASE DaemonStop
  <2>1. open' = FALSE /\ line' = << >> /\ UNCHANGED <<pin, raw, stable, age, announced, seen, daemonKey, sincePress, hasty>>
    BY <1>8 DEF DaemonStop, debouncer, daemon, presses
  <2>2. line' \in Seq(Reports) /\ Len(line') <= LineCap
    BY <2>1, LineAssumption
  <2>3. PanelTypeOK'
    BY <1>t, <2>1, <2>2 DEF PanelTypeOK
  <2>4. PressAges' /\ PressesSeparated'
    BY <2>1 DEF PanelInv, InputsAreReported, PressAges, PressesSeparated
  <2>5. QED BY <1>g, <2>1, <2>3, <2>4, LineEmpty
<1>9. CASE ChipReset
  <2>1. /\ raw' = pin /\ stable' = pin /\ age' = [i \in Inputs |-> 0] /\ announced' = FALSE
        /\ open' = FALSE /\ line' = << >> /\ sincePress' = AgeCap /\ UNCHANGED <<hasty, pin, seen, daemonKey>>
    BY <1>9 DEF ChipReset, daemon
  <2>2. line' \in Seq(Reports) /\ Len(line') <= LineCap
    BY <2>1, LineAssumption
  <2>3. PanelTypeOK'
    <3>1. age' \in [Inputs -> 0..AgeCap] /\ sincePress' \in 0..AgeCap
      BY <1>t, <2>1
    <3>2. announced' \in BOOLEAN /\ open' \in BOOLEAN
      BY <2>1
    <3>3. QED BY <1>t, <2>1, <2>2, <3>1, <3>2 DEF PanelTypeOK
  <2>4. PressAges'
    BY <1>t, <2>1 DEF PressAges, Inputs
  <2>5. PressesSeparated'
    BY <2>1 DEF PanelInv, InputsAreReported, PressesSeparated
  <2>6. QED BY <1>g, <2>1, <2>3, <2>4, <2>5, LineEmpty
<1>10. CASE UNCHANGED piVars
  <2>1. UNCHANGED <<pin, raw, stable, age, announced, open, line, daemon, sincePress, hasty>>
    BY <1>10 DEF piVars, debouncer, presses
  <2>2. PanelTypeOK'
    BY <1>t, <2>1 DEF PanelTypeOK, daemon
  <2>3. PressAges' /\ PressesSeparated'
    BY <2>1 DEF PanelInv, InputsAreReported, PressAges, PressesSeparated
  <2>4. QED BY <1>g, <2>1, <2>2, <2>3, LineStays
<1>11. QED
  BY <1>1, <1>2, <1>3, <1>4, <1>5, <1>6, <1>7, <1>8, <1>9, <1>10 DEF PanelNext, Poll, Report

\* What the daemon hears of the panel (input_arm.c, input_btn.c, main.c usb task and the event
\* handler of main.go): reports of the key alternate from what it believes to where the key is,
\* and presses are a full press apart.
THEOREM InputsReported == PanelSpec => []InputsAreReported
<1>1. PanelInv => InputsAreReported
  BY DEF PanelInv
<1>2. QED BY <1>1, PanelStarts, PanelKeeps, PTL DEF PanelSpec

-----------------------------------------------------------------------------
(* The display mode over flights.                                            *)

\* The controls the drain has handled: whether the last event taken was an arming.
Handled == IF step = "idle" THEN locked ELSE step \in {"flight", "lock"}

\* Whether the i-th change that waits is an arming; before the first, the last handled.
Arming(i) == (i = 0 /\ Handled) \/ (i # 0 /\ events[i] = "armed")

\* Armings and disarmings alternate, from the one the drain is at to the arm state.
EventsAlternate ==
    /\ \A i \in 1..Len(events) : Arming(i) <=> ~Arming(i - 1)
    /\ Arming(Len(events)) <=> arm = "armed"

\* A flight is at most two events, and a requested one is not one yet.
FlightsLeft ==
    /\ Len(events) <= 2 * flights
    /\ arm = "armed" => Len(events) < 2 * flights
    /\ arm = "requested" => flights < MaxFlights

BusyBanner(i) == banners[i] \in GroundModes

\* At most one writer of the mode has decided and not yet written.
AtMostOne(st, req, ban) ==
    /\ \A c, d \in Calls : req[c] # "idle" /\ req[d] # "idle" => c = d
    /\ \A i, j \in 1..MaxFlights : ban[i] \in GroundModes /\ ban[j] \in GroundModes => i = j
    /\ \A c \in Calls, i \in 1..MaxFlights : ~(req[c] # "idle" /\ ban[i] \in GroundModes)
    /\ st # "idle" => /\ \A c \in Calls : req[c] = "idle"
                      /\ \A i \in 1..MaxFlights : ban[i] \notin GroundModes

NoneOf(st, req, ban) ==
    /\ st = "idle"
    /\ \A c \in Calls : req[c] = "idle"
    /\ \A i \in 1..MaxFlights : ban[i] \notin GroundModes

OneWriter == AtMostOne(step, apiCall, banners)
NoWriter  == NoneOf(step, apiCall, banners)

\* What a writer has decided on is the ground's mode as it is.
DecidedIsTrue ==
    /\ \A c \in Calls : apiCall[c] \in GroundModes => apiCall[c] = Ground
    /\ \A i \in 1..MaxFlights : BusyBanner(i) => banners[i] = Ground
    /\ "start" \in Calls => (apiCall["start"] = "acted" => replaying)
    /\ step = "lock" => panelMode = "FLIGHT"
    /\ step = "unlock" => panelMode = "POSTFLIGHT" /\ \E i \in 1..MaxFlights : banners[i] = "waits"

\* The mode the panel shows when no writer is at work, and who will change it.
ShownIsTrue ==
    \/ panelMode = Ground
    \/ panelMode = "FLIGHT" /\ locked
    \/ panelMode = "POSTFLIGHT" /\ \E i \in 1..MaxFlights : banners[i] = "waits"
    \/ panelMode = "REPLAY" /\ replaying

WriterIsTrue == ~raced => OneWriter /\ DecidedIsTrue /\ (NoWriter => ShownIsTrue)

ModesInv == ModesTypeOK /\ EventsAlternate /\ FlightsLeft /\ WriterIsTrue

-----------------------------------------------------------------------------

LEMMA SmallSets ==
  ASSUME NEW S, IsFiniteSet(S), NEW k \in Nat, Cardinality(S) = k
  PROVE  /\ k = 0 => S = {}
         /\ k <= 1 => \A x, y \in S : x = y
<1>1. k = 0 => S = {}
  BY FS_EmptySet
<1>2. ASSUME k <= 1, NEW x \in S, NEW y \in S, x # y PROVE FALSE
  <2>1. IsFiniteSet({x}) /\ Cardinality({x}) = 1
    BY FS_Singleton
  <2>2. IsFiniteSet({x} \cup {y}) /\ Cardinality({x} \cup {y}) = 2
    <3>1. y \notin {x}
      BY <1>2
    <3>2. IsFiniteSet({x} \cup {y}) /\ Cardinality({x} \cup {y}) = Cardinality({x}) + 1
      BY <2>1, <3>1, FS_AddElement
    <3>3. QED BY <2>1, <3>2
  <2>3. Cardinality({x} \cup {y}) <= Cardinality(S)
    BY FS_Subset, {x} \cup {y} \in SUBSET S
  <2>4. QED BY <1>2, <2>2, <2>3
<1>3. QED BY <1>1, <1>2

\* The count of the writers, and who they are.
LEMMA WritersCounted ==
  ASSUME NEW st, NEW req, NEW ban
  PROVE  /\ Writers(st, req, ban) \in Nat
         /\ Writers(st, req, ban) <= 1 => AtMostOne(st, req, ban)
         /\ Writers(st, req, ban) = 0 => NoneOf(st, req, ban)
<1> DEFINE A == {c \in Calls : req[c] # "idle"}
           B == {i \in 1..MaxFlights : ban[i] \in GroundModes}
           d == IF st = "idle" THEN 0 ELSE 1
<1>1. IsFiniteSet(A) /\ Cardinality(A) \in Nat
  <2>1. IsFiniteSet({"load"})
    BY FS_Singleton
  <2>2. IsFiniteSet({"load"} \cup {"unload"})
    BY <2>1, FS_AddElement
  <2>3. IsFiniteSet({"load"} \cup {"unload"} \cup {"start"})
    BY <2>2, FS_AddElement
  <2>4. IsFiniteSet({"load"} \cup {"unload"} \cup {"start"} \cup {"stop"})
    BY <2>3, FS_AddElement
  <2>5. A \in SUBSET ({"load"} \cup {"unload"} \cup {"start"} \cup {"stop"})
    BY ModesAssumption
  <2>6. QED BY <2>4, <2>5, FS_Subset, FS_CardinalityType
<1>2. IsFiniteSet(B) /\ Cardinality(B) \in Nat
  <2>1. IsFiniteSet(1..MaxFlights)
    BY FS_Interval, ModesAssumption
  <2>2. B \in SUBSET (1..MaxFlights)
    OBVIOUS
  <2>3. QED BY <2>1, <2>2, FS_Subset, FS_CardinalityType
<1>3. Writers(st, req, ban) = Cardinality(A) + Cardinality(B) + d /\ d \in {0, 1}
  BY DEF Writers
<1> DEFINE a == Cardinality(A)
           b == Cardinality(B)
<1>4. (a = 0 => A = {}) /\ (a <= 1 => \A x, y \in A : x = y)
  BY <1>1, SmallSets
<1>5. (b = 0 => B = {}) /\ (b <= 1 => \A x, y \in B : x = y)
  BY <1>2, SmallSets
<1>6. d = 0 => st = "idle"
  OBVIOUS
<1>7. \A x : (x \in A <=> x \in Calls /\ req[x] # "idle") /\ (x \in B <=> x \in 1..MaxFlights /\ ban[x] \in GroundModes)
  OBVIOUS
<1> HIDE DEF A, B, d
<1>8. ASSUME a + b + d <= 1 PROVE AtMostOne(st, req, ban)
  <2>1. /\ \A x, y \in A : x = y
        /\ \A x, y \in B : x = y
        /\ A = {} \/ B = {}
        /\ d = 0 \/ (A = {} /\ B = {})
    <3>1. a <= 1 /\ b <= 1 /\ (a = 0 \/ b = 0) /\ (d = 0 \/ (a = 0 /\ b = 0))
      BY <1>1, <1>2, <1>3, <1>8
    <3>2. QED BY <1>4, <1>5, <3>1
  <2>2. QED BY <1>6, <1>7, <2>1 DEF AtMostOne
<1>9. ASSUME a + b + d = 0 PROVE NoneOf(st, req, ban)
  <2>1. a = 0 /\ b = 0 /\ d = 0
    BY <1>1, <1>2, <1>3, <1>9
  <2>2. QED BY <1>4, <1>5, <1>6, <1>7, <2>1 DEF NoneOf
<1>10. a + b + d \in Nat
  BY <1>1, <1>2, <1>3
<1>11. QED BY <1>3, <1>8, <1>9, <1>10

\* A step that notes the writers and finds no race leaves one at most.
LEMMA RaceNoted ==
  ASSUME NoteRace, ~raced'
  PROVE  ~raced /\ OneWriter'
<1>1. ~raced /\ ~(Writers(step', apiCall', banners') > 1)
  BY DEF NoteRace
<1>2. /\ Writers(step', apiCall', banners') \in Nat
      /\ Writers(step', apiCall', banners') <= 1 => AtMostOne(step', apiCall', banners')
  BY WritersCounted
<1>3. QED BY <1>1, <1>2 DEF OneWriter

-----------------------------------------------------------------------------
\* The events: appended by the machine, taken by the drain.

LEMMA ModesStart == ModesInit => ModesInv
<1> SUFFICES ASSUME ModesInit PROVE ModesInv
  OBVIOUS
<1>1. events \in Seq({"armed", "disarmed"}) /\ Len(events) = 0 /\ MaxFlights \in Nat /\ MaxApiCalls \in Nat
  BY ModesAssumption DEF ModesInit
<1>2. ModesTypeOK
  <2>1. /\ arm \in {"disarmed", "requested", "armed"} /\ step = "idle"
        /\ panelMode \in PanelModes
        /\ banners \in [1..MaxFlights -> {"none", "waits"} \cup GroundModes]
        /\ apiCall \in [Calls -> {"idle", "passed", "acted"} \cup GroundModes]
        /\ reader \in Controllers \cup {NoController}
    BY DEF ModesInit, PanelModes, GroundModes, Ground
  <2>2. loaded \in BOOLEAN /\ replaying \in BOOLEAN /\ locked \in BOOLEAN /\ raced \in BOOLEAN
    BY DEF ModesInit
  <2>3. flights \in 0..MaxFlights /\ calls \in 0..MaxApiCalls /\ Len(events) <= 2 * MaxFlights
    BY <1>1 DEF ModesInit
  <2>4. QED BY <1>1, <2>1, <2>2, <2>3 DEF ModesTypeOK
<1>3. EventsAlternate
  BY <1>1 DEF EventsAlternate, Arming, Handled, ModesInit
<1>4. FlightsLeft
  BY <1>1 DEF FlightsLeft, ModesInit
<1>5. WriterIsTrue
  BY ModesAssumption DEF WriterIsTrue, OneWriter, AtMostOne, DecidedIsTrue, ShownIsTrue, ModesInit, GroundModes, BusyBanner
<1>6. QED BY <1>2, <1>3, <1>4, <1>5 DEF ModesInv

\* Nothing the events depend on moves.
EventVars == <<arm, events, step, locked, flights>>

LEMMA EventsStay ==
  ASSUME ModesInv, UNCHANGED EventVars
  PROVE  EventsAlternate' /\ FlightsLeft'
BY DEF ModesInv, EventVars, EventsAlternate, FlightsLeft, Arming, Handled

LEMMA ArmStepsEvents ==
  ASSUME ModesInv, Request \/ Withdraw \/ Confirm \/ Disarm
  PROVE  /\ events' \in Seq({"armed", "disarmed"}) /\ Len(events') <= 2 * MaxFlights
         /\ flights' \in 0..MaxFlights
         /\ EventsAlternate' /\ FlightsLeft'
<1>1. /\ events \in Seq({"armed", "disarmed"}) /\ Len(events) \in Nat
      /\ flights \in 0..MaxFlights /\ MaxFlights \in Nat /\ Len(events) <= 2 * MaxFlights
      /\ EventsAlternate /\ FlightsLeft
  BY ModesAssumption DEF ModesInv, ModesTypeOK
<1>2. CASE Request \/ Withdraw
  <2>1. /\ UNCHANGED <<events, step, locked, flights>>
        /\ arm # "armed" /\ arm' # "armed" /\ (arm' = "requested" => flights < MaxFlights)
    BY <1>2 DEF Request, Withdraw
  <2>2. QED BY <1>1, <2>1 DEF EventsAlternate, FlightsLeft, Arming, Handled
<1>3. ASSUME NEW e \in {"armed", "disarmed"}, events' = Append(events, e), UNCHANGED <<step, locked>>,
             arm' # "requested", arm' = "armed" <=> e = "armed", arm = "armed" <=> e = "disarmed"
      PROVE  /\ events' \in Seq({"armed", "disarmed"}) /\ Len(events') = Len(events) + 1
             /\ EventsAlternate'
  <2>1. /\ events' \in Seq({"armed", "disarmed"}) /\ Len(events') = Len(events) + 1
        /\ events'[Len(events) + 1] = e /\ \A i \in 1..Len(events) : events'[i] = events[i]
    BY <1>1, <1>3
  <2>2. Handled' <=> Handled
    BY <1>3 DEF Handled
  <2>3. \A i \in 0..Len(events) : Arming(i)' <=> Arming(i)
    BY <1>1, <2>1, <2>2 DEF Arming
  <2>4. \A i : i = Len(events) + 1 => (Arming(i)' <=> e = "armed")
    BY <1>1, <2>1 DEF Arming
  <2>5. \A i \in 1..Len(events') : Arming(i)' <=> ~Arming(i - 1)'
    <3>1. TAKE i \in 1..Len(events')
    <3>2. PICK j \in 0..Len(events) : j = i - 1
      BY <1>1, <2>1
    <3>3. CASE i \in 1..Len(events)
      BY <1>1, <2>3, <3>2, <3>3 DEF EventsAlternate
    <3>4. CASE i = Len(events) + 1
      <4>1. j = Len(events) /\ (Arming(Len(events)) <=> arm = "armed")
        BY <1>1, <3>2, <3>4 DEF EventsAlternate
      <4>2. Arming(j)' <=> arm = "armed"
        BY <2>3, <4>1
      <4>3. QED BY <1>3, <2>4, <3>2, <3>4, <4>2
    <3>5. QED BY <1>1, <2>1, <3>3, <3>4
  <2>6. Arming(Len(events))' <=> arm' = "armed"
    BY <1>3, <2>1, <2>4
  <2>7. QED BY <2>1, <2>5, <2>6 DEF EventsAlternate
<1>4. CASE Confirm
  <2>1. /\ events' = Append(events, "armed") /\ UNCHANGED <<step, locked>>
        /\ arm = "requested" /\ arm' = "armed" /\ flights' = flights + 1
    BY <1>4 DEF Confirm
  <2>2. /\ events' \in Seq({"armed", "disarmed"}) /\ Len(events') = Len(events) + 1
        /\ EventsAlternate'
    BY <1>3, <2>1
  <2>3. QED BY <1>1, <2>1, <2>2 DEF FlightsLeft
<1>5. CASE Disarm
  <2>1. /\ events' = Append(events, "disarmed") /\ UNCHANGED <<step, locked, flights>>
        /\ arm = "armed" /\ arm' = "disarmed"
    BY <1>5 DEF Disarm
  <2>2. /\ events' \in Seq({"armed", "disarmed"}) /\ Len(events') = Len(events) + 1
        /\ EventsAlternate'
    BY <1>3, <2>1
  <2>3. QED BY <1>1, <2>1, <2>2 DEF FlightsLeft
<1>6. QED BY <1>2, <1>4, <1>5

LEMMA TakeEventEvents ==
  ASSUME ModesInv, TakeEvent
  PROVE  /\ events' \in Seq({"armed", "disarmed"}) /\ Len(events') <= 2 * MaxFlights
         /\ EventsAlternate' /\ FlightsLeft'
<1>1. /\ events \in Seq({"armed", "disarmed"}) /\ events # << >> /\ events' = Tail(events)
      /\ step = "idle" /\ step' = (IF Head(events) = "armed" THEN "flight" ELSE "postflight")
      /\ UNCHANGED <<arm, flights, locked>>
      /\ flights \in 0..MaxFlights /\ MaxFlights \in Nat
      /\ EventsAlternate /\ FlightsLeft /\ Len(events) <= 2 * MaxFlights
  BY ModesAssumption DEF ModesInv, ModesTypeOK, TakeEvent
<1>2. /\ events' \in Seq({"armed", "disarmed"}) /\ Len(events') = Len(events) - 1 /\ Len(events) \in Nat \ {0}
      /\ \A i \in 1..Len(events') : events'[i] = events[i + 1]
      /\ Head(events) = events[1]
  BY <1>1, HeadTailProperties
<1>3. Handled' <=> events[1] = "armed"
  BY <1>1, <1>2 DEF Handled
<1>4. \A i \in 0..Len(events') : Arming(i)' <=> Arming(i + 1)
  BY <1>2, <1>3 DEF Arming
<1>5. EventsAlternate'
  <2>1. \A i \in 1..Len(events') : Arming(i)' <=> ~Arming(i - 1)'
    <3>1. TAKE i \in 1..Len(events')
    <3>2. PICK j \in 0..Len(events') : j = i - 1 /\ j + 1 = i /\ i \in 0..Len(events')
      BY <1>2
    <3>3. PICK k \in 1..Len(events) : k = i + 1 /\ k - 1 = i
      BY <1>2
    <3>4. Arming(k) <=> ~Arming(i)
      BY <1>1, <3>3 DEF EventsAlternate
    <3>5. (Arming(j)' <=> Arming(i)) /\ (Arming(i)' <=> Arming(k))
      BY <1>4, <3>2, <3>3
    <3>6. QED BY <3>2, <3>4, <3>5
  <2>2. PICK k : k = Len(events') /\ k \in 0..Len(events') /\ k + 1 = Len(events)
    BY <1>2
  <2>3. Arming(k)' <=> arm' = "armed"
    BY <1>1, <1>4, <2>2 DEF EventsAlternate
  <2>4. QED BY <2>1, <2>2, <2>3 DEF EventsAlternate
<1>6. QED BY <1>1, <1>2, <1>5 DEF FlightsLeft

\* The handler's own steps: what it has handled stays handled.
LEMMA HandlerEvents ==
  ASSUME ModesInv, ShowFlight \/ ShowPostflight \/ SetFlightArmed
  PROVE  EventsAlternate' /\ FlightsLeft'
<1>1. UNCHANGED <<arm, events, flights>>
  BY DEF ShowFlight, ShowPostflight, SetFlightArmed
<1>2. Handled' <=> Handled
  BY DEF ShowFlight, ShowPostflight, SetFlightArmed, Handled
<1>3. QED BY <1>1, <1>2 DEF ModesInv, EventsAlternate, FlightsLeft, Arming

-----------------------------------------------------------------------------
\* The writers of the mode.

LEMMA ModesFacts ==
  ASSUME ModesInv
  PROVE  /\ ModesTypeOK
         /\ ~raced => OneWriter /\ DecidedIsTrue /\ (NoWriter => ShownIsTrue)
         /\ Ground \in GroundModes
         /\ \A m \in GroundModes : m \notin {"idle", "passed", "acted", "none", "waits", "FLIGHT", "POSTFLIGHT", "REPLAY"}
BY DEF ModesInv, WriterIsTrue, Ground, GroundModes

\* Nothing the writers depend on moves.
LEMMA WritersStay ==
  ASSUME ModesInv, UNCHANGED <<step, panelMode, banners, loaded, replaying, apiCall, locked, raced>>
  PROVE  WriterIsTrue'
BY ModesFacts DEF WriterIsTrue, OneWriter, AtMostOne, NoWriter, NoneOf, DecidedIsTrue, ShownIsTrue, Ground, BusyBanner

LEMMA TakeEventWriters ==
  ASSUME ModesInv, TakeEvent
  PROVE  WriterIsTrue'
<1>1. SUFFICES ASSUME ~raced' PROVE OneWriter' /\ DecidedIsTrue' /\ ~NoWriter'
  BY DEF WriterIsTrue
<1>2. ~raced /\ OneWriter'
  BY <1>1, RaceNoted DEF TakeEvent
<1>3. step' \in {"flight", "postflight"} /\ UNCHANGED <<panelMode, banners, loaded, replaying, apiCall>>
  BY DEF TakeEvent
<1>4. QED BY <1>2, <1>3, ModesFacts DEF DecidedIsTrue, Ground, BusyBanner, NoWriter, NoneOf

LEMMA ShowFlightWriters ==
  ASSUME ModesInv, ShowFlight
  PROVE  WriterIsTrue'
<1>1. SUFFICES ASSUME ~raced PROVE OneWriter' /\ DecidedIsTrue' /\ ~NoWriter'
  BY DEF WriterIsTrue, ShowFlight
<1>2. /\ step = "flight" /\ panelMode' = "FLIGHT" /\ step' = "lock"
      /\ UNCHANGED <<banners, loaded, replaying, apiCall>>
  BY DEF ShowFlight
<1>3. QED BY <1>1, <1>2, ModesFacts DEF DecidedIsTrue, Ground, BusyBanner, NoWriter, NoneOf, OneWriter, AtMostOne

LEMMA ShowPostflightWriters ==
  ASSUME ModesInv, ShowPostflight
  PROVE  WriterIsTrue'
<1>1. SUFFICES ASSUME ~raced PROVE OneWriter' /\ DecidedIsTrue' /\ ~NoWriter'
  BY DEF WriterIsTrue, ShowPostflight
<1>2. PICK i \in 1..MaxFlights : banners[i] = "none" /\ banners' = [banners EXCEPT ![i] = "waits"]
  BY DEF ShowPostflight
<1>3. /\ step = "postflight" /\ panelMode' = "POSTFLIGHT" /\ step' = "unlock"
      /\ UNCHANGED <<loaded, replaying, apiCall>>
  BY DEF ShowPostflight
<1>4. /\ banners'[i] = "waits"
      /\ \A j \in 1..MaxFlights : banners'[j] \in GroundModes => banners[j] = banners'[j]
  BY <1>2, ModesFacts DEF ModesTypeOK
<1>5. QED BY <1>1, <1>3, <1>4, ModesFacts
     DEF DecidedIsTrue, Ground, BusyBanner, NoWriter, NoneOf, OneWriter, AtMostOne

LEMMA SetFlightArmedWriters ==
  ASSUME ModesInv, SetFlightArmed
  PROVE  WriterIsTrue'
<1>1. SUFFICES ASSUME ~raced PROVE OneWriter' /\ DecidedIsTrue' /\ ShownIsTrue'
  BY DEF WriterIsTrue, SetFlightArmed
<1>2. /\ step \in {"lock", "unlock"} /\ locked' = (step = "lock") /\ step' = "idle"
      /\ UNCHANGED <<panelMode, banners, loaded, replaying, apiCall>>
  BY DEF SetFlightArmed
<1>3. OneWriter' /\ DecidedIsTrue'
  BY <1>1, <1>2, ModesFacts DEF DecidedIsTrue, Ground, BusyBanner, OneWriter, AtMostOne
<1>4. ShownIsTrue'
  BY <1>1, <1>2, ModesFacts DEF DecidedIsTrue, ShownIsTrue
<1>5. QED BY <1>3, <1>4

LEMMA BannerWakesWriters ==
  ASSUME ModesInv, NEW i \in 1..MaxFlights, BannerWakes(i)
  PROVE  WriterIsTrue'
<1>1. SUFFICES ASSUME ~raced' PROVE OneWriter' /\ DecidedIsTrue' /\ ~NoWriter'
  BY DEF WriterIsTrue
<1>2. ~raced /\ OneWriter'
  BY <1>1, RaceNoted DEF BannerWakes
<1>3. /\ banners[i] = "waits" /\ banners' = [banners EXCEPT ![i] = Ground]
      /\ UNCHANGED <<step, panelMode, loaded, replaying, apiCall>>
  BY DEF BannerWakes
<1>4. banners'[i] = Ground /\ \A j \in 1..MaxFlights : j # i => banners'[j] = banners[j]
  BY <1>3, ModesFacts DEF ModesTypeOK
<1>5. step = "idle"
  BY <1>2, <1>3, <1>4, ModesFacts DEF OneWriter, AtMostOne
<1>6. QED BY <1>2, <1>3, <1>4, <1>5, ModesFacts DEF DecidedIsTrue, Ground, BusyBanner, NoWriter, NoneOf

LEMMA BannerDropsWriters ==
  ASSUME ModesInv, NEW i \in 1..MaxFlights, BannerDrops(i)
  PROVE  WriterIsTrue'
<1>1. SUFFICES ASSUME ~raced PROVE OneWriter' /\ DecidedIsTrue' /\ ShownIsTrue'
  BY DEF WriterIsTrue, BannerDrops
<1>2. /\ banners[i] \in GroundModes /\ panelMode' = banners[i]
      /\ banners' = [banners EXCEPT ![i] = "none"]
      /\ UNCHANGED <<step, loaded, replaying, apiCall, locked>>
  BY DEF BannerDrops
<1>3. /\ step = "idle" /\ banners[i] = Ground
      /\ \A j \in 1..MaxFlights : banners'[j] \notin GroundModes
  BY <1>1, <1>2, ModesFacts DEF ModesTypeOK, OneWriter, AtMostOne, DecidedIsTrue, BusyBanner
<1>4. OneWriter' /\ DecidedIsTrue'
  BY <1>1, <1>2, <1>3, ModesFacts DEF OneWriter, AtMostOne, DecidedIsTrue, BusyBanner, Ground
<1>5. ShownIsTrue'
  BY <1>2, <1>3 DEF ShownIsTrue, Ground
<1>6. QED BY <1>4, <1>5

\* The first effect of an API request.
LEMMA CallWriters ==
  ASSUME ModesInv, NEW c, NEW at, Call(c, at), ~raced',
         at \in GroundModes => at = Ground', at # "idle",
         c = "start" => at # "acted",
         c # "stop" => replaying' = replaying
  PROVE  OneWriter' /\ DecidedIsTrue' /\ ~NoWriter'
<1>1. ~raced /\ OneWriter'
  BY RaceNoted DEF Call
<1>2. /\ c \in Calls /\ apiCall[c] = "idle" /\ apiCall' = [apiCall EXCEPT ![c] = at]
      /\ UNCHANGED <<step, panelMode, banners>>
  BY DEF Call
<1>3. apiCall'[c] = at /\ \A d \in Calls : d # c => apiCall'[d] = apiCall[d]
  BY <1>2, ModesFacts DEF ModesTypeOK
<1>4. /\ step = "idle" /\ \A d \in Calls : d # c => apiCall'[d] = "idle"
      /\ \A i \in 1..MaxFlights : banners'[i] \notin GroundModes
  BY <1>1, <1>2, <1>3 DEF OneWriter, AtMostOne
<1>5. QED BY <1>1, <1>2, <1>3, <1>4, ModesFacts DEF DecidedIsTrue, NoWriter, NoneOf, BusyBanner

LEMMA RequestWriters ==
  ASSUME ModesInv, LoadModel \/ UnloadModel \/ ReplayGate \/ ReplayStop
  PROVE  WriterIsTrue'
<1>1. SUFFICES ASSUME ~raced' PROVE OneWriter' /\ DecidedIsTrue' /\ ~NoWriter'
  BY DEF WriterIsTrue
<1>2. CASE LoadModel
  <2>1. Call("load", "PREFLIGHT") /\ "PREFLIGHT" = Ground' /\ replaying' = replaying
    BY <1>2 DEF LoadModel, Ground
  <2>2. QED BY <1>1, <2>1, CallWriters
<1>3. CASE UnloadModel
  <2>1. Call("unload", "IDLE") /\ "IDLE" = Ground' /\ replaying' = replaying
    BY <1>3 DEF UnloadModel, Ground
  <2>2. QED BY <1>1, <2>1, CallWriters
<1>4. CASE ReplayGate
  <2>1. Call("start", "passed") /\ replaying' = replaying /\ "passed" \notin GroundModes
    BY <1>4 DEF ReplayGate, GroundModes
  <2>2. QED BY <1>1, <2>1, CallWriters
<1>5. CASE ReplayStop
  <2>1. Call("stop", "acted") /\ "acted" \notin GroundModes
    BY <1>5 DEF ReplayStop, GroundModes
  <2>2. QED BY <1>1, <2>1, CallWriters
<1>6. QED BY <1>2, <1>3, <1>4, <1>5

\* A request that is on its way takes a step and remains a writer.
LEMMA ReplayBeginsWriters ==
  ASSUME ModesInv, ReplayBegins
  PROVE  WriterIsTrue'
<1>1. SUFFICES ASSUME ~raced PROVE OneWriter' /\ DecidedIsTrue' /\ ~NoWriter'
  BY DEF WriterIsTrue, ReplayBegins
<1>2. /\ "start" \in Calls /\ apiCall["start"] = "passed" /\ replaying' = TRUE
      /\ apiCall' = [apiCall EXCEPT !["start"] = "acted"]
      /\ UNCHANGED <<step, panelMode, banners, loaded>>
  BY DEF ReplayBegins
<1>3. apiCall'["start"] = "acted" /\ \A d \in Calls : d # "start" => apiCall'[d] = apiCall[d]
  BY <1>2, ModesFacts DEF ModesTypeOK
<1>4. QED BY <1>1, <1>2, <1>3, ModesFacts
     DEF OneWriter, AtMostOne, DecidedIsTrue, NoWriter, NoneOf, BusyBanner, Ground

LEMMA StopLooksWriters ==
  ASSUME ModesInv, StopLooks
  PROVE  WriterIsTrue'
<1>1. SUFFICES ASSUME ~raced PROVE OneWriter' /\ DecidedIsTrue' /\ ~NoWriter'
  BY DEF WriterIsTrue, StopLooks
<1>2. /\ "stop" \in Calls /\ apiCall["stop"] = "acted"
      /\ apiCall' = [apiCall EXCEPT !["stop"] = Ground]
      /\ UNCHANGED <<step, panelMode, banners, loaded, replaying>>
  BY DEF StopLooks
<1>3. apiCall'["stop"] = Ground /\ \A d \in Calls : d # "stop" => apiCall'[d] = apiCall[d]
  BY <1>2, ModesFacts DEF ModesTypeOK
<1>4. OneWriter' /\ ~NoWriter'
  BY <1>1, <1>2, <1>3, ModesFacts DEF OneWriter, AtMostOne, NoWriter, NoneOf
<1>5. DecidedIsTrue'
  BY <1>1, <1>2, <1>3, ModesFacts DEF DecidedIsTrue, BusyBanner, Ground
<1>6. QED BY <1>4, <1>5

\* The write that ends a request: nobody else was about to write.
LEMMA RequestEnds ==
  ASSUME ModesInv, ~raced, NEW c \in Calls, apiCall[c] # "idle",
         apiCall' = [apiCall EXCEPT ![c] = "idle"],
         UNCHANGED <<step, banners, loaded, replaying>>
  PROVE  OneWriter' /\ DecidedIsTrue'
<1>1. apiCall'[c] = "idle" /\ \A d \in Calls : d # c => apiCall'[d] = apiCall[d]
  BY ModesFacts DEF ModesTypeOK
<1>2. /\ step = "idle" /\ \A d \in Calls : apiCall'[d] = "idle"
      /\ \A i \in 1..MaxFlights : banners'[i] \notin GroundModes
  BY <1>1, ModesFacts DEF OneWriter, AtMostOne
<1>3. QED BY <1>1, <1>2, ModesFacts DEF OneWriter, AtMostOne, DecidedIsTrue, BusyBanner

LEMMA RequestShows ==
  ASSUME ModesInv, ShowReplay \/ \E c \in Calls : ShowGround(c)
  PROVE  WriterIsTrue'
<1>1. SUFFICES ASSUME ~raced PROVE OneWriter' /\ DecidedIsTrue' /\ ShownIsTrue'
  BY DEF WriterIsTrue, ShowReplay, ShowGround
<1>2. CASE ShowReplay
  <2>1. /\ "start" \in Calls /\ apiCall["start"] = "acted" /\ panelMode' = "REPLAY"
        /\ apiCall' = [apiCall EXCEPT !["start"] = "idle"]
        /\ UNCHANGED <<step, banners, loaded, replaying>>
    BY <1>2 DEF ShowReplay
  <2>2. replaying' = replaying /\ replaying
    BY <1>1, <2>1, ModesFacts DEF DecidedIsTrue
  <2>3. OneWriter' /\ DecidedIsTrue'
    BY <1>1, <2>1, RequestEnds
  <2>4. ShownIsTrue'
    BY <2>1, <2>2 DEF ShownIsTrue
  <2>5. QED BY <2>3, <2>4
<1>3. ASSUME NEW c \in Calls, ShowGround(c) PROVE OneWriter' /\ DecidedIsTrue' /\ ShownIsTrue'
  <2>1. /\ apiCall[c] \in GroundModes /\ panelMode' = apiCall[c]
        /\ apiCall' = [apiCall EXCEPT ![c] = "idle"]
        /\ UNCHANGED <<step, banners, loaded, replaying>>
    BY <1>3 DEF ShowGround
  <2>2. panelMode' = Ground'
    BY <1>1, <2>1, ModesFacts DEF DecidedIsTrue, Ground
  <2>3. apiCall[c] # "idle"
    BY <2>1, ModesFacts
  <2>4. OneWriter' /\ DecidedIsTrue'
    BY <1>1, <2>1, <2>3, RequestEnds
  <2>5. QED BY <2>2, <2>4 DEF ShownIsTrue
<1>4. QED BY <1>2, <1>3

-----------------------------------------------------------------------------

CounterTypes ==
    /\ events \in Seq({"armed", "disarmed"}) /\ Len(events) <= 2 * MaxFlights
    /\ flights \in 0..MaxFlights /\ calls \in 0..MaxApiCalls

LEMMA ModesCounterSteps ==
  ASSUME ModesInv, [ModesNext]_modesVars
  PROVE  CounterTypes'
<1>1. CounterTypes /\ MaxApiCalls \in Nat /\ MaxFlights \in Nat
  BY ModesFacts, ModesAssumption DEF ModesTypeOK, CounterTypes
<1>2. ASSUME UNCHANGED <<events, flights>>, calls' = calls \/ (calls < MaxApiCalls /\ calls' = calls + 1)
      PROVE  CounterTypes'
  BY <1>1, <1>2 DEF CounterTypes
<1>3. CASE Request \/ Withdraw \/ Confirm \/ Disarm
  <2>1. calls' = calls
    BY <1>3 DEF Request, Withdraw, Confirm, Disarm
  <2>2. QED BY <1>1, <1>3, <2>1, ArmStepsEvents DEF CounterTypes
<1>4. CASE TakeEvent
  <2>1. calls' = calls /\ flights' = flights
    BY <1>4 DEF TakeEvent
  <2>2. QED BY <1>1, <1>4, <2>1, TakeEventEvents DEF CounterTypes
<1>5. CASE LoadModel \/ UnloadModel \/ ReplayGate \/ ReplayStop
  BY <1>2, <1>5 DEF LoadModel, UnloadModel, ReplayGate, ReplayStop, Call
<1>6. CASE ShowFlight \/ ShowPostflight \/ SetFlightArmed
  BY <1>2, <1>6 DEF ShowFlight, ShowPostflight, SetFlightArmed
<1>7. CASE ReplayBegins \/ ShowReplay \/ StopLooks \/ UNCHANGED modesVars
  BY <1>2, <1>7 DEF ReplayBegins, ShowReplay, StopLooks, modesVars
<1>8. ASSUME NEW i \in 1..MaxFlights, BannerWakes(i) \/ BannerDrops(i) PROVE CounterTypes'
  BY <1>2, <1>8 DEF BannerWakes, BannerDrops
<1>9. ASSUME NEW c \in Calls, ShowGround(c) PROVE CounterTypes'
  BY <1>2, <1>9 DEF ShowGround
<1>10. ASSUME NEW r, NEW em, Swap(r, em) PROVE CounterTypes'
  BY <1>2, <1>10 DEF Swap
<1>11. QED BY <1>3, <1>4, <1>5, <1>6, <1>7, <1>8, <1>9, <1>10 DEF ModesNext

WriterTypes ==
    /\ arm \in {"disarmed", "requested", "armed"}
    /\ step \in {"idle", "flight", "lock", "postflight", "unlock"}
    /\ panelMode \in PanelModes
    /\ banners \in [1..MaxFlights -> {"none", "waits"} \cup GroundModes]
    /\ apiCall \in [Calls -> {"idle", "passed", "acted"} \cup GroundModes]
    /\ reader \in Controllers \cup {NoController}

LEMMA ModesWriterSteps ==
  ASSUME ModesInv, [ModesNext]_modesVars
  PROVE  WriterTypes'
<1>1. /\ WriterTypes /\ Ground \in GroundModes
      /\ GroundModes \subseteq PanelModes /\ {"FLIGHT", "POSTFLIGHT", "REPLAY"} \subseteq PanelModes
      /\ {"PREFLIGHT", "IDLE"} \subseteq GroundModes
  BY ModesFacts DEF ModesTypeOK, WriterTypes, PanelModes, GroundModes
<1>2. CASE Request \/ Withdraw \/ Confirm \/ Disarm
  BY <1>1, <1>2 DEF WriterTypes, Request, Withdraw, Confirm, Disarm
<1>3. CASE TakeEvent \/ ShowFlight \/ SetFlightArmed
  BY <1>1, <1>3 DEF WriterTypes, TakeEvent, ShowFlight, SetFlightArmed
<1>4. CASE ShowPostflight
  BY <1>1, <1>4 DEF WriterTypes, ShowPostflight
<1>5. ASSUME NEW i \in 1..MaxFlights, BannerWakes(i) \/ BannerDrops(i) PROVE WriterTypes'
  BY <1>1, <1>5 DEF WriterTypes, BannerWakes, BannerDrops
<1>6. CASE LoadModel \/ UnloadModel \/ ReplayGate \/ ReplayStop
  BY <1>1, <1>6 DEF WriterTypes, LoadModel, UnloadModel, ReplayGate, ReplayStop, Call
<1>7. CASE ReplayBegins \/ ShowReplay \/ StopLooks
  BY <1>1, <1>7 DEF WriterTypes, ReplayBegins, ShowReplay, StopLooks
<1>8. ASSUME NEW c \in Calls, ShowGround(c) PROVE WriterTypes'
  BY <1>1, <1>8 DEF WriterTypes, ShowGround
<1>9. ASSUME NEW r \in Controllers \cup {NoController}, NEW em, Swap(r, em) PROVE WriterTypes'
  BY <1>1, <1>9 DEF WriterTypes, Swap
<1>10. CASE UNCHANGED modesVars
  BY <1>1, <1>10 DEF WriterTypes, modesVars
<1>11. QED BY <1>2, <1>3, <1>4, <1>5, <1>6, <1>7, <1>8, <1>9, <1>10 DEF ModesNext

FlagTypes == loaded \in BOOLEAN /\ replaying \in BOOLEAN /\ locked \in BOOLEAN /\ raced \in BOOLEAN

LEMMA ModesFlagSteps ==
  ASSUME ModesInv, [ModesNext]_modesVars
  PROVE  FlagTypes'
<1>1. FlagTypes
  BY DEF ModesInv, ModesTypeOK, FlagTypes
<1>2. CASE Request \/ Withdraw \/ Confirm \/ Disarm
  BY <1>1, <1>2 DEF FlagTypes, Request, Withdraw, Confirm, Disarm
<1>3. CASE TakeEvent \/ ShowFlight \/ SetFlightArmed \/ ShowPostflight
  BY <1>1, <1>3 DEF FlagTypes, TakeEvent, ShowFlight, SetFlightArmed, ShowPostflight, NoteRace
<1>4. ASSUME NEW i \in 1..MaxFlights, BannerWakes(i) \/ BannerDrops(i) PROVE FlagTypes'
  BY <1>1, <1>4 DEF FlagTypes, BannerWakes, BannerDrops, NoteRace
<1>5. CASE LoadModel \/ UnloadModel \/ ReplayGate \/ ReplayStop
  BY <1>1, <1>5 DEF FlagTypes, LoadModel, UnloadModel, ReplayGate, ReplayStop, Call, NoteRace
<1>6. CASE ReplayBegins \/ ShowReplay \/ StopLooks
  BY <1>1, <1>6 DEF FlagTypes, ReplayBegins, ShowReplay, StopLooks
<1>7. ASSUME NEW c \in Calls, ShowGround(c) PROVE FlagTypes'
  BY <1>1, <1>7 DEF FlagTypes, ShowGround
<1>8. ASSUME NEW r, NEW em, Swap(r, em) PROVE FlagTypes'
  BY <1>1, <1>8 DEF FlagTypes, Swap
<1>9. CASE UNCHANGED modesVars
  BY <1>1, <1>9 DEF FlagTypes, modesVars
<1>10. QED BY <1>2, <1>3, <1>4, <1>5, <1>6, <1>7, <1>8, <1>9 DEF ModesNext

LEMMA ModesStep == ModesInv /\ [ModesNext]_modesVars => ModesInv'
<1> SUFFICES ASSUME ModesInv, [ModesNext]_modesVars PROVE ModesInv'
  OBVIOUS
<1>1. ModesTypeOK'
  BY ModesCounterSteps, ModesWriterSteps, ModesFlagSteps DEF ModesTypeOK, CounterTypes, WriterTypes, FlagTypes
<1>2. EventsAlternate' /\ FlightsLeft' /\ WriterIsTrue'
  <2>1. CASE Request \/ Withdraw \/ Confirm \/ Disarm
    <3>1. UNCHANGED <<step, panelMode, banners, loaded, replaying, apiCall, locked, raced>>
      BY <2>1 DEF Request, Withdraw, Confirm, Disarm
    <3>2. QED BY <2>1, <3>1, ArmStepsEvents, WritersStay
  <2>2. CASE TakeEvent
    BY <2>2, TakeEventEvents, TakeEventWriters
  <2>3. CASE ShowFlight \/ ShowPostflight \/ SetFlightArmed
    BY <2>3, HandlerEvents, ShowFlightWriters, ShowPostflightWriters, SetFlightArmedWriters
  <2>4. ASSUME NEW i \in 1..MaxFlights, BannerWakes(i) \/ BannerDrops(i)
        PROVE  EventsAlternate' /\ FlightsLeft' /\ WriterIsTrue'
    <3>1. UNCHANGED EventVars
      BY <2>4 DEF EventVars, BannerWakes, BannerDrops
    <3>2. QED BY <2>4, <3>1, EventsStay, BannerWakesWriters, BannerDropsWriters
  <2>5. CASE LoadModel \/ UnloadModel \/ ReplayGate \/ ReplayStop
    <3>1. UNCHANGED EventVars
      BY <2>5 DEF EventVars, LoadModel, UnloadModel, ReplayGate, ReplayStop, Call
    <3>2. QED BY <2>5, <3>1, EventsStay, RequestWriters
  <2>6. CASE ReplayBegins \/ StopLooks
    <3>1. UNCHANGED EventVars
      BY <2>6 DEF EventVars, ReplayBegins, StopLooks
    <3>2. QED BY <2>6, <3>1, EventsStay, ReplayBeginsWriters, StopLooksWriters
  <2>7. CASE ShowReplay \/ \E c \in Calls : ShowGround(c)
    <3>1. UNCHANGED EventVars
      BY <2>7 DEF EventVars, ShowReplay, ShowGround
    <3>2. QED BY <2>7, <3>1, EventsStay, RequestShows
  <2>8. CASE (\E r \in Controllers \cup {NoController}, em \in BOOLEAN : Swap(r, em)) \/ UNCHANGED modesVars
    <3>1. /\ UNCHANGED EventVars
          /\ UNCHANGED <<step, panelMode, banners, loaded, replaying, apiCall, locked, raced>>
      BY <2>8 DEF EventVars, Swap, modesVars
    <3>2. QED BY <3>1, EventsStay, WritersStay
  <2>9. QED BY <2>1, <2>2, <2>3, <2>4, <2>5, <2>6, <2>7, <2>8 DEF ModesNext
<1>3. QED BY <1>1, <1>2 DEF ModesInv

\* flightArmedHandler with its post-flight goroutine and the API requests (main.go, server.go):
\* when the events of a flight are handled, the lock of the controller is what the arm state
\* is, and as long as no two writers overlapped the panel is back in the mode of the ground.
THEOREM FlightEnds == ModesSpec => []FlightIsOver
<1>1. ModesInv => FlightIsOver
  <2> SUFFICES ASSUME ModesInv PROVE FlightIsOver
    OBVIOUS
  <2>1. ModesTypeOK /\ EventsAlternate
    BY DEF ModesInv
  <2>2. LockAgrees
    <3> SUFFICES ASSUME events = << >>, step = "idle" PROVE locked <=> arm = "armed"
      BY DEF LockAgrees
    <3>1. Len(events) = 0
      OBVIOUS
    <3>2. Arming(0) <=> arm = "armed"
      BY <2>1, <3>1 DEF EventsAlternate
    <3>3. QED BY <3>2 DEF Arming, Handled
  <2>3. PanelAgrees
    <3> SUFFICES ASSUME Quiet, arm = "disarmed", ~replaying, ~raced PROVE panelMode = Ground
      BY DEF PanelAgrees
    <3>1. NoWriter
      BY WritersCounted DEF Quiet, NoWriter
    <3>2. ~locked
      BY <2>2, <3>1 DEF LockAgrees, Quiet, NoWriter, NoneOf
    <3>3. ShownIsTrue
      BY <3>1, ModesFacts
    <3>4. QED BY <3>2, <3>3 DEF ShownIsTrue, Quiet
  <2>4. QED BY <2>1, <2>2, <2>3 DEF FlightIsOver
<1>2. QED BY <1>1, ModesStart, ModesStep, PTL DEF ModesSpec

-----------------------------------------------------------------------------
(* The weather of a place.                                                   *)

\* A set of numbers has a least one: well-foundedness of the strict subsets of Nat,
\* applied to the initial segments that end in the set.
LEMMA LeastNat ==
  ASSUME NEW T, T \subseteq Nat, T # {}
  PROVE  \E x \in T : \A y \in T : x <= y
<1> DEFINE U == {0..n : n \in T}
<1>1. \A n \in Nat : 0..n \in FiniteSubsetsOf(Nat)
  BY FS_Interval DEF FiniteSubsetsOf
<1>2. U \subseteq FiniteSubsetsOf(Nat) /\ U # {}
  BY <1>1
<1>3. PICK I \in U : \A J \in U : <<J, I>> \notin StrictSubsetOrdering(Nat)
  <2>1. IsWellFoundedOn(StrictSubsetOrdering(Nat), FiniteSubsetsOf(Nat))
    BY FS_StrictSubsetOrderingWellFounded
  <2> HIDE DEF U
  <2>2. QED BY <1>2, <2>1, WFMin
<1>4. PICK x \in T : I = 0..x
  OBVIOUS
<1>5. ASSUME NEW y \in T, y < x PROVE FALSE
  <2>1. 0..y \in SUBSET Nat /\ 0..x \in SUBSET Nat /\ 0..y \subseteq 0..x /\ x \in 0..x /\ x \notin 0..y
    BY <1>5
  <2>2. <<0..y, 0..x>> \in StrictSubsetOrdering(Nat)
    BY <2>1 DEF StrictSubsetOrdering
  <2>3. 0..y \in U
    OBVIOUS
  <2>4. QED BY <1>3, <1>4, <2>2, <2>3
<1>6. QED BY <1>5

\* What the source can answer.
Entries == [report : Forecasts, fresh : BOOLEAN, grid : {GridOf[c] : c \in Places}]

OneAtMost(store) == \A c \in Places : \A e, f \in store[c] : e = f

WeatherShapes ==
    /\ entries \in [Places -> SUBSET Entries] /\ files \in [Places -> SUBSET Entries]
    /\ asking \in [Fetchers -> Places \cup {Nowhere}]

WeatherInv == WeatherShapes /\ OneAtMost(files) /\ WeatherIsOfPlace

\* A finite set of positions has a last one.
LEMMA MaxOfPositions ==
  ASSUME NEW n \in Nat, NEW T \in SUBSET (1..n), T # {}
  PROVE  Max(T) \in T
<1> DEFINE D == {n - i : i \in T}
<1>t. \A i \in T : i \in Int /\ i <= n
  OBVIOUS
<1>1. D \subseteq Nat /\ D # {}
  <2>1. \A i \in T : n - i \in Nat
    BY <1>t
  <2>2. QED BY <2>1
<1>2. PICK d \in D : \A e \in D : d <= e
  BY <1>1, LeastNat
<1>3. PICK i \in T : d = n - i
  OBVIOUS
<1>4. \A j \in T : i >= j
  <2> SUFFICES ASSUME NEW j \in T PROVE i >= j
    OBVIOUS
  <2>1. n - j \in D
    OBVIOUS
  <2>2. n - i <= n - j
    BY <1>2, <1>3, <2>1
  <2>3. QED BY <1>t, <2>2
<1>5. QED BY <1>3, <1>4 DEF Max

LEMMA WeatherStarts == WeatherInit => WeatherInv
  BY DEF WeatherInit, WeatherInv, WeatherShapes, OneAtMost, WeatherIsOfPlace

LEMMA PutFacts ==
  ASSUME WeatherInv, NEW store, store = entries \/ store = files, NEW c \in Places, NEW r \in Forecasts,
         NEW keys, keys \subseteq Keys(c),
         NEW after, after = Put(store, keys, Fetched(r, c))
  PROVE  /\ after \in [Places -> SUBSET Entries]
         /\ \A d \in Places : \A e \in after[d] : e.grid = d \/ e.grid = GridOf[d]
         /\ OneAtMost(store) => OneAtMost(after)
<1>1. Fetched(r, c) \in Entries /\ Fetched(r, c).grid = GridOf[c]
  BY DEF Fetched, Entries
<1>2. after = [d \in Places |-> IF d \in keys THEN {Fetched(r, c)} ELSE store[d]]
  BY DEF Put
<1>3. store \in [Places -> SUBSET Entries] /\ \A d \in Places : \A e \in store[d] : e.grid = d \/ e.grid = GridOf[d]
  BY DEF WeatherInv, WeatherShapes, WeatherIsOfPlace
<1>4. \A d \in keys : GridOf[c] = d \/ GridOf[c] = GridOf[d]
  BY DEF Keys
<1>5. QED BY <1>1, <1>2, <1>3, <1>4 DEF OneAtMost

LEMMA LoadedFacts ==
  ASSUME WeatherInv
  PROVE  /\ Loaded \in [Places -> SUBSET Entries]
         /\ \A c \in Places : \A e \in Loaded[c] : e.grid = c
<1> SUFFICES ASSUME NEW c \in Places
             PROVE  Loaded[c] \in SUBSET Entries /\ \A e \in Loaded[c] : e.grid = c
  BY DEF Loaded
<1> DEFINE for == {i \in DOMAIN Cells : \E e \in files[Cells[i]] : e.grid = c}
<1>1. Loaded[c] = IF for = {} THEN {} ELSE files[Cells[Max(for)]]
  BY DEF Loaded
<1>2. CASE for = {}
  BY <1>1, <1>2
<1>3. CASE for # {}
  <2>1. Cells \in Seq(Places)
    BY WeatherAssumption
  <2>2. Len(Cells) \in Nat /\ for \in SUBSET (1..Len(Cells))
    BY <2>1
  <2>3. PICK i \in for : i = Max(for)
    BY <1>3, <2>2, MaxOfPositions
  <2>4. Cells[i] \in Places /\ \E e \in files[Cells[i]] : e.grid = c
    BY <2>1, <2>3
  <2>5. QED BY <1>1, <1>3, <2>3, <2>4 DEF WeatherInv, WeatherShapes, OneAtMost
<1>4. QED BY <1>2, <1>3

LEMMA WeatherKeeps == WeatherInv /\ [WeatherNext]_weatherVars => WeatherInv'
<1> SUFFICES ASSUME WeatherInv, [WeatherNext]_weatherVars PROVE WeatherInv'
  OBVIOUS
<1>1. ASSUME NEW who \in Fetchers, NEW c \in Places, Ask(who, c) PROVE WeatherInv'
  BY <1>1 DEF Ask, WeatherInv, WeatherShapes, OneAtMost, WeatherIsOfPlace
<1>2. ASSUME NEW who \in Fetchers, Answer(who) PROVE WeatherInv'
  <2>1. PICK c \in Places : c = asking[who]
    BY <1>2 DEF Answer, WeatherInv, WeatherShapes
  <2>2. PICK r \in Forecasts : Store(c, r)
    BY <1>2, <2>1 DEF Answer
  <2>3. PICK written \in {{}, Keys(c)} :
          entries' = Put(entries, Keys(c), Fetched(r, c)) /\ files' = Put(files, written, Fetched(r, c))
    BY <2>2 DEF Store
  <2>4. /\ entries' \in [Places -> SUBSET Entries]
        /\ \A d \in Places : \A e \in entries'[d] : e.grid = d \/ e.grid = GridOf[d]
    BY <2>3, PutFacts
  <2>5. written \subseteq Keys(c)
    OBVIOUS
  <2>6. /\ files' \in [Places -> SUBSET Entries]
        /\ \A d \in Places : \A e \in files'[d] : e.grid = d \/ e.grid = GridOf[d]
        /\ OneAtMost(files) => OneAtMost(files')
    BY <2>3, <2>5, PutFacts
  <2>7. asking' \in [Fetchers -> Places \cup {Nowhere}]
    BY <1>2 DEF Answer, WeatherInv, WeatherShapes
  <2>8. QED BY <2>4, <2>6, <2>7 DEF WeatherInv, WeatherShapes, WeatherIsOfPlace, OneAtMost
<1>3. ASSUME NEW who \in Fetchers, NoAnswer(who) PROVE WeatherInv'
  BY <1>3 DEF NoAnswer, WeatherInv, WeatherShapes, OneAtMost, WeatherIsOfPlace
<1>4. CASE Age
  <2>1. /\ entries' = [c \in Places |-> {[e EXCEPT !.fresh = FALSE] : e \in entries[c]}]
        /\ files' = [c \in Places |-> {[e EXCEPT !.fresh = FALSE] : e \in files[c]}]
        /\ UNCHANGED asking
    BY <1>4 DEF Age
  <2>2. \A e \in Entries : [e EXCEPT !.fresh = FALSE] \in Entries /\ [e EXCEPT !.fresh = FALSE].grid = e.grid
    BY DEF Entries
  <2>3. WeatherShapes'
    BY <2>1, <2>2 DEF WeatherInv, WeatherShapes
  <2>4. OneAtMost(files)'
    <3> SUFFICES ASSUME NEW c \in Places, NEW e \in files'[c], NEW f \in files'[c] PROVE e = f
      BY DEF OneAtMost
    <3>1. PICK e0 \in files[c] : e = [e0 EXCEPT !.fresh = FALSE]
      BY <2>1
    <3>2. PICK f0 \in files[c] : f = [f0 EXCEPT !.fresh = FALSE]
      BY <2>1
    <3>3. e0 = f0
      BY DEF WeatherInv, OneAtMost
    <3>4. QED BY <3>1, <3>2, <3>3
  <2>5. WeatherIsOfPlace'
    <3> SUFFICES ASSUME NEW c \in Places, NEW e \in entries'[c] \cup files'[c]
                 PROVE  e.grid = c \/ e.grid = GridOf[c]
      BY DEF WeatherIsOfPlace
    <3>1. PICK e0 \in entries[c] \cup files[c] : e = [e0 EXCEPT !.fresh = FALSE]
      BY <2>1
    <3>2. e0 \in Entries
      BY DEF WeatherInv, WeatherShapes
    <3>3. e.grid = e0.grid
      BY <2>2, <3>1, <3>2
    <3>4. QED BY <3>3 DEF WeatherInv, WeatherIsOfPlace
  <2>6. QED BY <2>3, <2>4, <2>5 DEF WeatherInv
<1>5. CASE RestartService
  <2>1. entries' = Loaded /\ asking' = [who \in Fetchers |-> Nowhere] /\ UNCHANGED files
    BY <1>5 DEF RestartService
  <2>2. QED BY <2>1, LoadedFacts DEF WeatherInv, WeatherShapes, OneAtMost, WeatherIsOfPlace
<1>6. CASE MoveFix \/ HomeIsSet \/ UNCHANGED weatherVars
  <2>1. UNCHANGED <<asking, entries, files>>
    BY <1>6 DEF MoveFix, HomeIsSet, weatherVars
  <2>2. QED BY <2>1 DEF WeatherInv, WeatherShapes, OneAtMost, WeatherIsOfPlace
<1>7. QED BY <1>1, <1>2, <1>3, <1>4, <1>5, <1>6 DEF WeatherNext

\* weathercache Get, Prefetch and the saved file: what is found under a cell was asked for that
\* cell or is for it, for every list of cells and every number of fetchers.
THEOREM WeatherOfPlace == WeatherSpec => []WeatherIsOfPlace
<1>1. WeatherInv => WeatherIsOfPlace
  BY DEF WeatherInv
<1>2. QED BY <1>1, WeatherStarts, WeatherKeeps, PTL DEF WeatherSpec

-----------------------------------------------------------------------------
(* The story of a flight.  The invariant says what the detector remembers of *)
(* the events it has written; one lemma for each of its checks, then what    *)
(* they make of the session, then the text and the tracks.                   *)

\* What is kept: an event of the session, the detector, and the history.
Names == {"armed", "disarmed", "first-sats", "gps-lock-acquired", "gps-lock-lost", "home-set",
          "mode-change", "rth-active", "failsafe", "peak-distance", "peak-altitude",
          "battery-low", "battery-critical", "link-degraded", "link-poor", "link-recovered"}
Entry == [name : Names, value : Int, at : Nat]
ModesRead == {s.mode : s \in Snapshots} \cup {""}
Detector == [sats : Int, locked : BOOLEAN, homed : BOOLEAN, peakDist : Nat, peakAlt : Nat,
             battery : 0..2, link : 0..2, mode : ModesRead, rth : BOOLEAN, failsafe : BOOLEAN]
Account == [dist : Nat, alt : Nat, low : Int, critical : Int, rth : BOOLEAN, failsafe : BOOLEAN]

\* The events of a name.
Hits(L, name) == {L[i] : i \in {j \in DOMAIN L : L[j].name = name}}

\* Every event of the name was followed by one that ends it.
Clear(L, name) == \A i \in DOMAIN L : L[i].name = name => \E k \in i..Len(L) : L[k].name \in Ends[name]

Edges(L) ==
    \A i, j \in DOMAIN L :
      i < j /\ L[i].name = L[j].name /\ L[i].name \in DOMAIN Ends
        => \E k \in i..j : L[k].name \in Ends[L[i].name]

\* What the detector remembers tells which events may come next.
Known(L, d) ==
    /\ d.sats < 0 => Clear(L, "first-sats")
    /\ d.homed \/ Clear(L, "home-set")
    /\ d.locked \/ Clear(L, "gps-lock-acquired")
    /\ d.locked => Clear(L, "gps-lock-lost")
    /\ d.link < 1 => Clear(L, "link-degraded")
    /\ d.link < 2 => Clear(L, "link-poor")
    /\ d.link > 0 => Clear(L, "link-recovered")

LogInv(L, d) == L \in Seq(Entry) /\ Edges(L) /\ Known(L, d)

\* The highest value told of a peak is the peak, to the bucket.
PeakOf(vals, of, size) ==
    \E v \in vals \cup {0} : (\A w \in vals \cup {0} : w <= v) /\ Within(v, of, size)

PeaksInv(L, d, w) ==
    /\ d.peakDist = w.dist /\ d.peakAlt = w.alt
    /\ PeakOf(Values(L, "peak-distance"), w.dist, 50)
    /\ PeakOf(Values(L, "peak-altitude"), w.alt, 25)

ModeInv(L, d, w) ==
    /\ (Hits(L, "failsafe") # {}) <=> w.failsafe
    /\ d.mode \in Failsafes \/ d.failsafe => w.failsafe
    /\ (Hits(L, "rth-active") # {}) <=> w.rth
    /\ d.mode = "RTH" \/ d.rth => w.rth

\* The time is the first of them, -1 for none.
FirstOf(times, t) == IF times = {} THEN t = -1 ELSE t \in times /\ \A u \in times : t <= u

BatteryInv(L, d, w, now) ==
    /\ w.low \in -1..now /\ w.critical \in -1..now
    /\ d.battery = 2 => w.critical >= 0
    /\ d.battery = 1 => w.low >= 0 \/ w.critical >= 0
    /\ FirstOf(Times(L, "battery-critical"), w.critical)
    /\ w.critical < 0 => FirstOf(Times(L, "battery-low"), w.low)

StoryTypes ==
    /\ detArmed \in BOOLEAN /\ det \in Detector /\ sample \in Snapshots \cup {NoSample}
    /\ session \in Seq(Entry) /\ witnessed \in Account
    /\ rows \in Seq(Snapshots) /\ Len(rows) <= MaxSamples /\ clock = Pace * Len(rows)
    /\ detArmed => session # NoSession

Consistent(L, d, w, now) == LogInv(L, d) /\ PeaksInv(L, d, w) /\ ModeInv(L, d, w) /\ BatteryInv(L, d, w, now)

\* Until it is told, the session and the detector agree with what was seen.
StoryInv ==
    /\ StoryTypes
    /\ session # NoSession => told = NoText /\ spoken = Silence /\ Consistent(session, det, witnessed, clock)
    /\ StoryIsTold

LEMMA Joined ==
    ASSUME NEW L \in Seq(Entry), NEW M \in Seq(Entry)
    PROVE  /\ L \o M \in Seq(Entry) /\ Len(L \o M) = Len(L) + Len(M)
           /\ Len(L) \in Nat /\ Len(M) \in Nat
           /\ DOMAIN L = 1..Len(L) /\ DOMAIN M = 1..Len(M) /\ DOMAIN (L \o M) = 1..Len(L) + Len(M)
           /\ \A i \in 1..Len(L) : (L \o M)[i] = L[i]
           /\ \A i \in 1..Len(M) : (L \o M)[Len(L) + i] = M[i]
<1>1. /\ L \o M \in Seq(Entry) /\ Len(L \o M) = Len(L) + Len(M)
      /\ \A i \in 1..Len(L) + Len(M) : (L \o M)[i] = IF i <= Len(L) THEN L[i] ELSE M[i - Len(L)]
  BY ConcatProperties
<1>2. Len(L) \in Nat /\ Len(M) \in Nat /\ DOMAIN L = 1..Len(L) /\ DOMAIN M = 1..Len(M)
  BY LenProperties
<1>3. DOMAIN (L \o M) = 1..Len(L) + Len(M)
  BY <1>1, LenProperties
<1>4. ASSUME NEW i \in 1..Len(L) PROVE (L \o M)[i] = L[i]
  <2>1. i \in 1..Len(L) + Len(M) /\ i <= Len(L)
    BY <1>2
  <2>2. QED
    BY <2>1, <1>1
<1>5. ASSUME NEW i \in 1..Len(M) PROVE (L \o M)[Len(L) + i] = M[i]
  <2>1. Len(L) + i \in 1..Len(L) + Len(M) /\ ~(Len(L) + i <= Len(L)) /\ Len(L) + i - Len(L) = i
    BY <1>2
  <2>2. QED
    BY <2>1, <1>1
<1>6. QED
  BY <1>1, <1>2, <1>3, <1>4, <1>5

LEMMA HitsJoined ==
    ASSUME NEW L \in Seq(Entry), NEW M \in Seq(Entry), NEW name
    PROVE  Hits(L \o M, name) = Hits(L, name) \cup Hits(M, name)
<1> DEFINE J == L \o M
<1>1. /\ Len(L) \in Nat /\ Len(M) \in Nat
      /\ DOMAIN L = 1..Len(L) /\ DOMAIN M = 1..Len(M) /\ DOMAIN J = 1..Len(L) + Len(M)
      /\ \A i \in 1..Len(L) : J[i] = L[i]
      /\ \A i \in 1..Len(M) : J[Len(L) + i] = M[i]
  BY Joined
<1> HIDE DEF J
<1>2. ASSUME NEW e \in Hits(J, name) PROVE e \in Hits(L, name) \cup Hits(M, name)
  <2>1. PICK i \in DOMAIN J : J[i].name = name /\ e = J[i]
    BY DEF Hits
  <2>2. CASE i \in 1..Len(L)
    BY <2>1, <2>2, <1>1 DEF Hits
  <2>3. CASE i \notin 1..Len(L)
    <3>1. i - Len(L) \in 1..Len(M) /\ i = Len(L) + (i - Len(L))
      BY <2>1, <2>3, <1>1
    <3>2. J[i] = M[i - Len(L)]
      BY <3>1, <1>1
    <3>3. QED
      BY <3>1, <3>2, <2>1, <1>1 DEF Hits
  <2>4. QED
    BY <2>2, <2>3
<1>3. ASSUME NEW e \in Hits(L, name) PROVE e \in Hits(J, name)
  <2>1. PICK i \in DOMAIN L : L[i].name = name /\ e = L[i]
    BY DEF Hits
  <2>2. i \in DOMAIN J /\ J[i] = L[i]
    BY <2>1, <1>1
  <2>3. QED
    BY <2>1, <2>2 DEF Hits
<1>4. ASSUME NEW e \in Hits(M, name) PROVE e \in Hits(J, name)
  <2>1. PICK i \in DOMAIN M : M[i].name = name /\ e = M[i]
    BY DEF Hits
  <2>2. Len(L) + i \in DOMAIN J /\ J[Len(L) + i] = M[i]
    BY <2>1, <1>1
  <2>3. QED
    BY <2>1, <2>2 DEF Hits
<1>5. QED
  BY <1>2, <1>3, <1>4 DEF J

LEMMA HitsOfThree ==
    ASSUME NEW A \in Seq(Entry), NEW B \in Seq(Entry), NEW C \in Seq(Entry), NEW name
    PROVE  /\ (A \o B) \o C \in Seq(Entry)
           /\ Hits((A \o B) \o C, name) = Hits(A, name) \cup Hits(B, name) \cup Hits(C, name)
<1> DEFINE AB == A \o B
<1>1. AB \in Seq(Entry) /\ Hits(AB, name) = Hits(A, name) \cup Hits(B, name)
  BY Joined, HitsJoined
<1> HIDE DEF AB
<1>2. AB \o C \in Seq(Entry) /\ Hits(AB \o C, name) = Hits(AB, name) \cup Hits(C, name)
  BY <1>1, Joined, HitsJoined
<1>3. QED
  BY <1>1, <1>2 DEF AB

\* A single event, or none.
LEMMA PieceType ==
    ASSUME clock \in Nat, NEW c, NEW n \in Names, NEW v \in Int
    PROVE  If(c, n, v) \in Seq(Entry)
<1>1. Event(n, v) \in Entry
  BY DEF Event, Entry
<1>2. \A e \in Entry : <<e>> \in Seq(Entry)
  OBVIOUS
<1>2a. <<Event(n, v)>> \in Seq(Entry) /\ <<>> \in Seq(Entry)
  BY <1>1, <1>2, EmptySeq, Zenon
<1>3. QED
  BY <1>2a, Zenon DEF If

LEMMA PieceHits ==
    ASSUME clock \in Nat, NEW c, NEW n \in Names, NEW v \in Int, NEW name
    PROVE  Hits(If(c, n, v), name) = IF c /\ n = name THEN {Event(n, v)} ELSE {}
<1>1. CASE c
  <2>1. If(c, n, v) = <<Event(n, v)>>
    BY <1>1, Zenon DEF If
  <2>2. Event(n, v).name = n
    BY DEF Event
  <2> DEFINE E == Event(n, v)
  <2> HIDE DEF E
  <2>3. DOMAIN <<E>> = {1} /\ <<E>>[1] = E
    OBVIOUS
  <2>4. Hits(<<E>>, name) = IF n = name THEN {E} ELSE {}
    BY <2>2, <2>3 DEF Hits, E
  <2>5. QED
    BY <2>1, <2>4, <1>1, Zenon DEF E
<1>2. CASE ~c
  <2>1. If(c, n, v) = <<>>
    BY <1>2, Zenon DEF If
  <2>2. DOMAIN <<>> = {}
    OBVIOUS
  <2>3. Hits(<<>>, name) = {}
    BY <2>2, Zenon DEF Hits
  <2>4. QED
    BY <2>1, <2>3, <1>2, Zenon
<1>3. QED
  BY <1>1, <1>2

\* The logs of two checks, one after the other.
LEMMA EdgeAdded ==
    ASSUME NEW L \in Seq(Entry), NEW e \in Entry, Edges(L),
           e.name \in DOMAIN Ends => Clear(L, e.name)
    PROVE  /\ L \o <<e>> \in Seq(Entry) /\ Edges(L \o <<e>>)
           /\ \A m : Clear(L, m) /\ e.name # m => Clear(L \o <<e>>, m)
           /\ \A m : e.name # m /\ e.name \in Ends[m] => Clear(L \o <<e>>, m)
<1> DEFINE J == L \o <<e>>
           n == Len(L)
<1>0. <<e>> \in Seq(Entry) /\ Len(<<e>>) = 1 /\ <<e>>[1] = e
  OBVIOUS
<1>1. /\ J \in Seq(Entry) /\ n \in Nat /\ Len(J) = n + 1 /\ DOMAIN J = 1..n + 1 /\ DOMAIN L = 1..n
      /\ \A i \in 1..n : J[i] = L[i]
      /\ J[n + 1] = e
  <2>1. /\ J \in Seq(Entry) /\ Len(J) = n + Len(<<e>>) /\ n \in Nat
        /\ DOMAIN L = 1..n /\ DOMAIN J = 1..n + Len(<<e>>)
        /\ \A i \in 1..n : J[i] = L[i]
        /\ \A i \in 1..Len(<<e>>) : J[n + i] = <<e>>[i]
    BY <1>0, Joined
  <2>2. QED
    BY <1>0, <2>1
<1> HIDE DEF J, n
<1>2. ASSUME NEW m, Clear(L, m), e.name # m PROVE Clear(J, m)
  <2> SUFFICES ASSUME NEW i \in DOMAIN J, J[i].name = m PROVE \E k \in i..Len(J) : J[k].name \in Ends[m]
    BY DEF Clear
  <2>1. i \in 1..n
    BY <1>1, <1>2
  <2>2. PICK k \in i..n : L[k].name \in Ends[m]
    BY <2>1, <1>1, <1>2 DEF Clear, n
  <2>3. k \in 1..n /\ k \in i..Len(J)
    BY <2>1, <2>2, <1>1
  <2>4. QED
    BY <2>2, <2>3, <1>1
<1>3. ASSUME NEW m, e.name # m, e.name \in Ends[m] PROVE Clear(J, m)
  <2> SUFFICES ASSUME NEW i \in DOMAIN J, J[i].name = m PROVE \E k \in i..Len(J) : J[k].name \in Ends[m]
    BY DEF Clear
  <2>1. n + 1 \in i..Len(J)
    BY <1>1
  <2>2. QED
    BY <2>1, <1>1, <1>3
<1>4. Edges(J)
  <2> SUFFICES ASSUME NEW i \in DOMAIN J, NEW j \in DOMAIN J, i < j, J[i].name = J[j].name, J[i].name \in DOMAIN Ends
               PROVE  \E k \in i..j : J[k].name \in Ends[J[i].name]
    BY DEF Edges
  <2>1. i \in 1..n /\ J[i] = L[i]
    BY <1>1
  <2>2. CASE j \in 1..n
    <3>1. PICK k \in i..j : L[k].name \in Ends[L[i].name]
      BY <2>1, <2>2, <1>1 DEF Edges
    <3>2. k \in 1..n
      BY <2>1, <2>2, <3>1, <1>1
    <3>3. QED
      BY <3>1, <3>2, <2>1, <1>1
  <2>3. CASE j \notin 1..n
    <3>1. j = n + 1 /\ J[j] = e
      BY <2>3, <1>1
    <3>2. Clear(L, L[i].name)
      BY <3>1, <2>1
    <3>3. PICK k \in i..n : L[k].name \in Ends[L[i].name]
      BY <3>2, <2>1, <1>1 DEF Clear, n
    <3>4. k \in 1..n /\ k \in i..j
      BY <3>1, <3>3, <2>1, <1>1
    <3>5. QED
      BY <3>3, <3>4, <2>1, <1>1
  <2>4. QED
    BY <2>2, <2>3
<1>5. QED
  BY <1>1, <1>2, <1>3, <1>4 DEF J

\* What a log M, that is L with an event of the name if c, keeps and ends.
Extends(L, M, c, name) ==
    /\ M \in Seq(Entry) /\ Edges(M)
    /\ \A m : Clear(L, m) /\ ~(c /\ name = m) => Clear(M, m)
    /\ \A m : c /\ name # m /\ name \in Ends[m] => Clear(M, m)

LEMMA EdgeIf ==
    ASSUME clock \in Nat, NEW L \in Seq(Entry), Edges(L), NEW c, NEW n \in Names, NEW v \in Int,
           c => n \notin DOMAIN Ends \/ Clear(L, n)
    PROVE  Extends(L, L \o If(c, n, v), c, n)
<1>1. CASE c
  <2>1. Event(n, v) \in Entry /\ Event(n, v).name = n
    BY DEF Event, Entry
  <2>2. If(c, n, v) = <<Event(n, v)>>
    BY <1>1, Zenon DEF If
  <2> DEFINE E == Event(n, v)
  <2> HIDE DEF E
  <2>3. /\ L \o <<E>> \in Seq(Entry) /\ Edges(L \o <<E>>)
        /\ \A m : Clear(L, m) /\ E.name # m => Clear(L \o <<E>>, m)
        /\ \A m : E.name # m /\ E.name \in Ends[m] => Clear(L \o <<E>>, m)
    BY <1>1, <2>1, EdgeAdded DEF E
  <2>4. QED
    BY <1>1, <2>1, <2>2, <2>3, Zenon DEF E, Extends
<1>2. CASE ~c
  <2>1. If(c, n, v) = <<>>
    BY <1>2, Zenon DEF If
  <2>2. L \o <<>> = L
    BY ConcatEmptySeq
  <2>3. QED
    BY <1>2, <2>1, <2>2, Zenon DEF Extends
<1>3. QED
  BY <1>1, <1>2

-----------------------------------------------------------------------------
(* The checks, one by one: what they log, and that no event is repeated.     *)

LEMMA SnapshotFacts ==
    ASSUME NEW s \in Snapshots
    PROVE  /\ s.sats \in Int /\ s.dist \in Int /\ s.alt \in Int /\ s.kmh \in Int /\ s.cell \in Int /\ s.lq \in Int
           /\ s.alt < 9995 /\ s.kmh < 10000 /\ s.mode \in ModesRead
<1>1. s \in [sats : Int, dist : Int, alt : Int, kmh : Int, cell : Int, lq : Int, mode : STRING]
  BY StoryAssumption
<1>2. s.alt < 9995 /\ s.kmh < 10000
  BY StoryAssumption
<1>3. s.mode \in ModesRead
  BY DEF ModesRead
<1>4. QED
  BY <1>1, <1>2, <1>3

LEMMA EndsFacts ==
    /\ \A m : m \in DOMAIN Ends <=> m \in {"first-sats", "home-set", "gps-lock-acquired", "gps-lock-lost",
                                            "link-degraded", "link-poor", "link-recovered"}
    /\ "gps-lock-acquired" \in Ends["gps-lock-lost"] /\ "gps-lock-lost" \in Ends["gps-lock-acquired"]
    /\ "link-recovered" \in Ends["link-degraded"] /\ "link-recovered" \in Ends["link-poor"]
    /\ "link-degraded" \in Ends["link-recovered"] /\ "link-poor" \in Ends["link-recovered"]
  BY DEF Ends

\* An event that may repeat leaves what is known.
LEMMA StaysQuiet ==
    ASSUME clock \in Nat, NEW L, NEW d, LogInv(L, d), NEW c \in BOOLEAN, NEW n \in Names, NEW v \in Int,
           n \notin DOMAIN Ends
    PROVE  LogInv(L \o If(c, n, v), d)
<1> DEFINE J == L \o If(c, n, v)
<1>1. L \in Seq(Entry) /\ Edges(L) /\ Known(L, d)
  BY DEF LogInv
<1>2. J \in Seq(Entry) /\ Edges(J) /\ \A m : Clear(L, m) /\ n # m => Clear(J, m)
  BY <1>1, EdgeIf DEF Extends
<1> HIDE DEF J
<1>3. \A m \in DOMAIN Ends : Clear(L, m) => Clear(J, m)
  BY <1>2
<1>4. Known(J, d)
  BY <1>1, <1>3, EndsFacts, Zenon DEF Known
<1>5. QED
  BY <1>2, <1>4, Zenon DEF LogInv, J

LEMMA GPSKeeps ==
    ASSUME clock \in Nat, NEW d \in Detector, NEW s \in Snapshots, NEW L, LogInv(L, d)
    PROVE  /\ checkGPS(d, s).log \in Seq(Entry) /\ LogInv(L \o checkGPS(d, s).log, checkGPS(d, s).d)
           /\ checkGPS(d, s).d \in Detector
           /\ \A f \in DOMAIN d \ {"sats", "locked"} : checkGPS(d, s).d[f] = d[f]
           /\ \A name : name \notin {"first-sats", "gps-lock-acquired", "gps-lock-lost"} =>
                Hits(checkGPS(d, s).log, name) = {}
<1>0. s.sats \in Int /\ d.sats \in Int /\ d.locked \in BOOLEAN
  BY SnapshotFacts DEF Detector
<1>1. CASE s.sats < 0
  <2>1. checkGPS(d, s).d = d /\ checkGPS(d, s).log = <<>>
    BY <1>1 DEF checkGPS
  <2>2. L \o <<>> = L
    BY ConcatEmptySeq DEF LogInv
  <2>3. \A name : Hits(<<>>, name) = {}
    <3>1. DOMAIN <<>> = {}
      OBVIOUS
    <3>2. QED
      BY <3>1, Zenon DEF Hits
  <2>4. QED
    BY <2>1, <2>2, <2>3, EmptySeq, Zenon
<1>2. CASE ~(s.sats < 0)
  <2> DEFINE lockedNow == s.sats >= 6
             e == [d EXCEPT !.sats = s.sats, !.locked = lockedNow]
             ca == d.sats < 0 /\ s.sats > 0
             cb == lockedNow /\ ~d.locked
             cc == ~lockedNow /\ d.locked
             A == If(ca, "first-sats", s.sats)
             B == If(cb, "gps-lock-acquired", s.sats)
             C == If(cc, "gps-lock-lost", s.sats)
  <2>1. checkGPS(d, s).d = e /\ checkGPS(d, s).log = (A \o B) \o C
    BY <1>2 DEF checkGPS
  <2>2. ca \in BOOLEAN /\ cb \in BOOLEAN /\ cc \in BOOLEAN /\ lockedNow \in BOOLEAN
    BY <1>0
  <2>4. e \in Detector /\ e.sats = s.sats /\ e.locked = lockedNow /\ e.homed = d.homed /\ e.link = d.link
        /\ \A f \in DOMAIN d \ {"sats", "locked"} : e[f] = d[f]
    <3> HIDE DEF lockedNow
    <3>1. \A i \in Int, b \in BOOLEAN : [d EXCEPT !.sats = i, !.locked = b] \in Detector
      BY DEF Detector
    <3>2. e \in Detector
      BY <3>1, <1>0, <2>2
    <3>3. DOMAIN d = {"sats", "locked", "homed", "peakDist", "peakAlt", "battery", "link", "mode", "rth", "failsafe"}
      BY DEF Detector
    <3>4. QED
      BY <3>2, <3>3
  <2>5. L \in Seq(Entry) /\ Edges(L) /\ Known(L, d)
    BY DEF LogInv
  <2>5a. ca => Clear(L, "first-sats")
    BY <2>5 DEF Known
  <2>5b. cb => Clear(L, "gps-lock-acquired")
    BY <2>5, Zenon DEF Known
  <2>5c. cc => Clear(L, "gps-lock-lost")
    BY <2>5, Zenon DEF Known
  <2>5d. /\ cb => lockedNow /\ ~cc
         /\ cc => ~lockedNow
         /\ lockedNow /\ ~cb => d.locked
         /\ ~lockedNow /\ ~cc => ~d.locked
         /\ ~(e.sats < 0)
    BY <2>4, <1>0, <1>2
  <2>5e. "first-sats" \in Names /\ "gps-lock-acquired" \in Names /\ "gps-lock-lost" \in Names
    BY DEF Names
  <2> HIDE DEF ca, cb, cc, e, lockedNow
  <2>3. A \in Seq(Entry) /\ B \in Seq(Entry) /\ C \in Seq(Entry)
    BY <1>0, <2>5e, PieceType, Zenon
  <2> DEFINE J == L \o A
             K == J \o B
             M == K \o C
  <2>6. L \o ((A \o B) \o C) = M
    <3> HIDE DEF A, B, C
    <3>1. QED
      BY <2>3, <2>5
  <2>7. Extends(L, J, ca, "first-sats")
    BY <2>5, <2>5a, <2>5e, <1>0, EdgeIf, Zenon
  <2> HIDE DEF J
  <2>8. Extends(J, K, cb, "gps-lock-acquired")
    <3>1. J \in Seq(Entry) /\ Edges(J)
      BY <2>7, Zenon DEF Extends
    <3>2. cb => Clear(J, "gps-lock-acquired")
      BY <2>5b, <2>7 DEF Extends
    <3>3. QED
      BY <3>1, <3>2, <2>5e, <1>0, EdgeIf, Zenon
  <2> HIDE DEF K
  <2>9. Extends(K, M, cc, "gps-lock-lost")
    <3>1. K \in Seq(Entry) /\ Edges(K)
      BY <2>8, Zenon DEF Extends
    <3>2. cc => Clear(K, "gps-lock-lost")
      BY <2>5c, <2>7, <2>8 DEF Extends
    <3>3. QED
      BY <3>1, <3>2, <2>5e, <1>0, EdgeIf, Zenon
  <2> HIDE DEF M
  <2>10. \A m : m \notin {"first-sats", "gps-lock-acquired", "gps-lock-lost"} /\ Clear(L, m) => Clear(M, m)
    BY <2>7, <2>8, <2>9 DEF Extends
  <2>11. Known(M, e)
    <3>2. lockedNow \/ Clear(M, "gps-lock-acquired")
      <4>1. cc => Clear(M, "gps-lock-acquired")
        BY <2>9, EndsFacts DEF Extends
      <4>2. ~d.locked /\ ~cb => Clear(M, "gps-lock-acquired")
        BY <2>5, <2>7, <2>8, <2>9 DEF Extends, Known
      <4>3. QED
        BY <4>1, <4>2, <2>5d, Zenon
    <3>3. lockedNow => Clear(M, "gps-lock-lost")
      <4>1. cb => Clear(K, "gps-lock-lost")
        BY <2>8, EndsFacts DEF Extends
      <4>2. d.locked => Clear(K, "gps-lock-lost")
        BY <2>5, <2>7, <2>8 DEF Extends, Known
      <4>3. Clear(K, "gps-lock-lost") /\ ~cc => Clear(M, "gps-lock-lost")
        BY <2>9 DEF Extends
      <4>4. QED
        BY <4>1, <4>2, <4>3, <2>5d, Zenon
    <3>4. QED
      BY <3>2, <3>3, <2>4, <2>5, <2>5d, <2>10, Zenon DEF Known
  <2>12. LogInv(M, e)
    BY <2>9, <2>11, Zenon DEF LogInv, Extends
  <2>13. ASSUME NEW name, name \notin {"first-sats", "gps-lock-acquired", "gps-lock-lost"}
         PROVE  Hits((A \o B) \o C, name) = {}
    <3>0. "first-sats" # name /\ "gps-lock-acquired" # name /\ "gps-lock-lost" # name
      BY <2>13
    <3>1. Hits(A, name) = {} /\ Hits(B, name) = {} /\ Hits(C, name) = {}
      BY <3>0, <1>0, <2>5e, PieceHits, Zenon
    <3> HIDE DEF A, B, C
    <3>2. QED
      BY <3>1, <2>3, HitsOfThree
  <2>14. (A \o B) \o C \in Seq(Entry)
    <3> HIDE DEF A, B, C
    <3>1. QED
      BY <2>3, HitsOfThree
  <2>15. QED
    <3> HIDE DEF e, A, B, C
    <3>1. QED
      BY <2>1, <2>4, <2>6, <2>12, <2>13, <2>14, Zenon
<1>3. QED
  BY <1>1, <1>2

LEMMA Empties ==
    /\ \A name : Hits(<<>>, name) = {}
    /\ <<>> \in Seq(Entry)
<1>1. DOMAIN <<>> = {}
  OBVIOUS
<1>2. QED
  BY <1>1, EmptySeq, Zenon DEF Hits

\* Only these four tell which events may come next.
LEMMA SameKnown ==
    ASSUME NEW L, NEW d, NEW e, LogInv(L, d),
           e.sats = d.sats, e.homed = d.homed, e.locked = d.locked, e.link = d.link
    PROVE  LogInv(L, e)
  BY Zenon DEF LogInv, Known

LEMMA HomeKeeps ==
    ASSUME clock \in Nat, NEW d \in Detector, NEW s \in Snapshots, NEW L, LogInv(L, d)
    PROVE  /\ checkHome(d, s).log \in Seq(Entry) /\ LogInv(L \o checkHome(d, s).log, checkHome(d, s).d)
           /\ checkHome(d, s).d \in Detector
           /\ \A f \in DOMAIN d \ {"homed"} : checkHome(d, s).d[f] = d[f]
           /\ \A name : name # "home-set" => Hits(checkHome(d, s).log, name) = {}
<1> DEFINE known == d.homed \/ s.dist >= 0
           e == [d EXCEPT !.homed = known]
           c == ~d.homed /\ s.dist >= 0
           A == If(c, "home-set", 0)
<1>0. s.dist \in Int /\ d.homed \in BOOLEAN /\ known \in BOOLEAN
  BY SnapshotFacts DEF Detector
<1>1. checkHome(d, s).d = e /\ checkHome(d, s).log = A
  BY DEF checkHome
<1>2. e \in Detector /\ e.sats = d.sats /\ e.locked = d.locked /\ e.homed = known /\ e.link = d.link
      /\ \A f \in DOMAIN d \ {"homed"} : e[f] = d[f]
  <2> HIDE DEF known
  <2>1. \A b \in BOOLEAN : [d EXCEPT !.homed = b] \in Detector
    BY DEF Detector
  <2>2. e \in Detector
    BY <2>1, <1>0
  <2>3. DOMAIN d = {"sats", "locked", "homed", "peakDist", "peakAlt", "battery", "link", "mode", "rth", "failsafe"}
    BY DEF Detector
  <2>4. QED
    BY <2>2, <2>3
<1>3. L \in Seq(Entry) /\ Edges(L) /\ Known(L, d)
  BY DEF LogInv
<1>4. "home-set" \in Names /\ 0 \in Int
  BY DEF Names
<1>5. /\ c => Clear(L, "home-set")
      /\ known \/ ~c
      /\ known \/ Clear(L, "home-set")
  BY <1>3, Zenon DEF Known
<1> HIDE DEF c, e, known
<1>6. Extends(L, L \o A, c, "home-set")
  BY <1>3, <1>4, <1>5, EdgeIf, Zenon
<1>7. A \in Seq(Entry)
  BY <1>4, PieceType, Zenon
<1>8. \A name : name # "home-set" => Hits(A, name) = {}
  BY <1>4, PieceHits, Zenon
<1> DEFINE J == L \o A
<1> HIDE DEF A, J
<1>9. LogInv(J, e)
  <2>1. Extends(L, J, c, "home-set")
    BY <1>6 DEF J
  <2>2. \A m : m # "home-set" /\ Clear(L, m) => Clear(J, m)
    BY <2>1 DEF Extends
  <2>3. known \/ Clear(J, "home-set")
    BY <2>1, <1>5, Zenon DEF Extends
  <2>4. Known(J, e)
    BY <2>2, <2>3, <1>2, <1>3, Zenon DEF Known
  <2>5. QED
    BY <2>1, <2>4, Zenon DEF Extends, LogInv
<1>10. QED
  BY <1>1, <1>2, <1>7, <1>8, <1>9, Zenon DEF J

\* What the check of the mode logs and leaves.
ModeReport(L, d, s, e, J) ==
    /\ J \in Seq(Entry) /\ LogInv(L \o J, e)
    /\ e \in Detector
    /\ \A f \in DOMAIN d \ {"mode", "rth", "failsafe"} : e[f] = d[f]
    /\ \A name : name \notin {"mode-change", "rth-active", "failsafe"} => Hits(J, name) = {}
    /\ s.mode \in Failsafes => d.mode \in Failsafes \/ d.failsafe \/ Hits(J, "failsafe") # {}
    /\ Hits(J, "failsafe") # {} => s.mode \in Failsafes
    /\ e.mode \in Failsafes \/ e.failsafe
         => s.mode \in Failsafes \/ d.mode \in Failsafes \/ d.failsafe
    /\ s.mode = "RTH" => d.mode = "RTH" \/ d.rth \/ Hits(J, "rth-active") # {}
    /\ Hits(J, "rth-active") # {} => s.mode = "RTH"
    /\ e.mode = "RTH" \/ e.rth => s.mode = "RTH" \/ d.mode = "RTH" \/ d.rth

LEMMA ModeKeeps ==
    ASSUME clock \in Nat, NEW d \in Detector, NEW s \in Snapshots, NEW L, LogInv(L, d)
    PROVE  ModeReport(L, d, s, checkMode(d, s).d, checkMode(d, s).log)
<1>0. L \in Seq(Entry) /\ "" \notin Failsafes /\ "" # "RTH"
  BY DEF LogInv, Failsafes
<1>1. CASE s.mode \in {"", d.mode}
  <2>1. checkMode(d, s).d = d /\ checkMode(d, s).log = <<>>
    BY <1>1 DEF checkMode
  <2>2. L \o <<>> = L
    BY <1>0, ConcatEmptySeq
  <2>3. LogInv(L \o <<>>, d)
    BY <2>2
  <2>4. s.mode = "" \/ s.mode = d.mode
    BY <1>1
  <2>5. QED
    BY <2>1, <2>3, <2>4, <1>0, Empties, Zenon DEF ModeReport
<1>2. CASE s.mode \notin {"", d.mode}
  <2> DEFINE rthNow == s.mode = "RTH"
             fsNow == s.mode \in Failsafes
             e == [d EXCEPT !.mode = s.mode, !.rth = rthNow, !.failsafe = fsNow]
             cb == rthNow /\ ~d.rth
             cc == fsNow /\ ~d.failsafe
             A == If(TRUE, "mode-change", 0)
             B == If(cb, "rth-active", 0)
             C == If(cc, "failsafe", 0)
  <2>1. checkMode(d, s).d = e /\ checkMode(d, s).log = (A \o B) \o C
    BY <1>2, Zenon DEF checkMode, If
  <2>2. e \in Detector /\ e.sats = d.sats /\ e.locked = d.locked /\ e.homed = d.homed /\ e.link = d.link
        /\ e.mode = s.mode /\ e.rth = rthNow /\ e.failsafe = fsNow
        /\ \A f \in DOMAIN d \ {"mode", "rth", "failsafe"} : e[f] = d[f]
    <3>0a. s.mode \in ModesRead
      BY SnapshotFacts
    <3>0. rthNow \in BOOLEAN /\ fsNow \in BOOLEAN /\ s.mode \in ModesRead
      BY <3>0a
    <3> HIDE DEF rthNow, fsNow
    <3>1. \A m \in ModesRead, a, b \in BOOLEAN : [d EXCEPT !.mode = m, !.rth = a, !.failsafe = b] \in Detector
      BY DEF Detector
    <3>2. e \in Detector
      BY <3>1, <3>0
    <3>3. DOMAIN d = {"sats", "locked", "homed", "peakDist", "peakAlt", "battery", "link", "mode", "rth", "failsafe"}
      BY DEF Detector
    <3>4. QED
      BY <3>2, <3>3
  <2>3. /\ "mode-change" \in Names /\ "rth-active" \in Names /\ "failsafe" \in Names /\ 0 \in Int
        /\ "mode-change" \notin DOMAIN Ends /\ "rth-active" \notin DOMAIN Ends /\ "failsafe" \notin DOMAIN Ends
    BY EndsFacts DEF Names
  <2>4. cb \in BOOLEAN /\ cc \in BOOLEAN /\ TRUE \in BOOLEAN
    OBVIOUS
  <2>4a. /\ cb => rthNow
         /\ rthNow => cb \/ d.rth
         /\ cc => fsNow
         /\ fsNow => cc \/ d.failsafe
    BY Zenon
  <2>4b. /\ fsNow <=> s.mode \in Failsafes
         /\ rthNow <=> s.mode = "RTH"
    BY Zenon
  <2> HIDE DEF cb, cc, e, rthNow, fsNow
  <2>5. A \in Seq(Entry) /\ B \in Seq(Entry) /\ C \in Seq(Entry)
    BY <2>3, PieceType, Zenon
  <2>6. LogInv(L \o A, d)
    BY <2>3, <2>4, StaysQuiet, Zenon
  <2>7. LogInv((L \o A) \o B, d)
    <3> DEFINE J == L \o A
    <3>1. LogInv(J, d)
      BY <2>6
    <3> HIDE DEF J
    <3>2. LogInv(J \o B, d)
      BY <3>1, <2>3, <2>4, StaysQuiet, Zenon
    <3>3. QED
      BY <3>2 DEF J
  <2>8. LogInv(((L \o A) \o B) \o C, d)
    <3> DEFINE J == (L \o A) \o B
    <3>1. LogInv(J, d)
      BY <2>7
    <3> HIDE DEF J
    <3>2. LogInv(J \o C, d)
      BY <3>1, <2>3, <2>4, StaysQuiet, Zenon
    <3>3. QED
      BY <3>2 DEF J
  <2>9. \A name : /\ Hits(A, name) = IF "mode-change" = name THEN {Event("mode-change", 0)} ELSE {}
                  /\ Hits(B, name) = IF cb /\ "rth-active" = name THEN {Event("rth-active", 0)} ELSE {}
                  /\ Hits(C, name) = IF cc /\ "failsafe" = name THEN {Event("failsafe", 0)} ELSE {}
    <3> SUFFICES ASSUME NEW name
                 PROVE  /\ Hits(A, name) = IF "mode-change" = name THEN {Event("mode-change", 0)} ELSE {}
                        /\ Hits(B, name) = IF cb /\ "rth-active" = name THEN {Event("rth-active", 0)} ELSE {}
                        /\ Hits(C, name) = IF cc /\ "failsafe" = name THEN {Event("failsafe", 0)} ELSE {}
      OBVIOUS
    <3>1. Hits(A, name) = IF TRUE /\ "mode-change" = name THEN {Event("mode-change", 0)} ELSE {}
      BY <2>3, PieceHits, Zenon
    <3>2. Hits(B, name) = IF cb /\ "rth-active" = name THEN {Event("rth-active", 0)} ELSE {}
      BY <2>3, PieceHits, Zenon
    <3>3. Hits(C, name) = IF cc /\ "failsafe" = name THEN {Event("failsafe", 0)} ELSE {}
      BY <2>3, PieceHits, Zenon
    <3>4. QED
      BY <3>1, <3>2, <3>3
  <2> HIDE DEF A, B, C
  <2> DEFINE M == (A \o B) \o C
  <2>10. M \in Seq(Entry) /\ \A name : Hits(M, name) = Hits(A, name) \cup Hits(B, name) \cup Hits(C, name)
    BY <2>5, HitsOfThree
  <2>11. LogInv(L \o M, e)
    <3>0. L \in Seq(Entry)
      BY <1>0
    <3>1. L \o M = ((L \o A) \o B) \o C
      BY <2>5, <3>0
    <3>2. LogInv(L \o M, d)
      BY <2>8, <3>1, Zenon
    <3> HIDE DEF M
    <3>3. QED
      BY <3>2, <2>2, SameKnown, Zenon
  <2> HIDE DEF M
  <2>12. /\ \A name : name \notin {"mode-change", "rth-active", "failsafe"} => Hits(M, name) = {}
         /\ Hits(M, "failsafe") # {} <=> cc
         /\ Hits(M, "rth-active") # {} <=> cb
    BY <2>9, <2>10
  <2>13. /\ s.mode \in Failsafes => d.failsafe \/ Hits(M, "failsafe") # {}
         /\ Hits(M, "failsafe") # {} => s.mode \in Failsafes
         /\ e.mode \in Failsafes \/ e.failsafe => s.mode \in Failsafes
         /\ s.mode = "RTH" => d.rth \/ Hits(M, "rth-active") # {}
         /\ Hits(M, "rth-active") # {} => s.mode = "RTH"
         /\ e.mode = "RTH" \/ e.rth => s.mode = "RTH"
    BY <2>2, <2>4a, <2>4b, <2>12, Zenon
  <2>14. checkMode(d, s).d = e /\ checkMode(d, s).log = M
    BY <2>1 DEF M
  <2>15. QED
    BY <2>2, <2>10, <2>11, <2>12, <2>13, <2>14, Zenon DEF ModeReport
<1>3. QED
  BY <1>1, <1>2, Zenon

\* A log J of two events at most, taken after L.
PairOf(L, J, ca, m, v, cb, n, w) ==
    /\ J \in Seq(Entry)
    /\ L \o J = (L \o If(ca, m, v)) \o If(cb, n, w)
    /\ \A name : Hits(J, name) = (IF ca /\ m = name THEN {Event(m, v)} ELSE {}) \cup
                                 (IF cb /\ n = name THEN {Event(n, w)} ELSE {})

LEMMA Pair ==
    ASSUME clock \in Nat, NEW L \in Seq(Entry), NEW ca, NEW m \in Names, NEW v \in Int,
           NEW cb, NEW n \in Names, NEW w \in Int
    PROVE  PairOf(L, If(ca, m, v) \o If(cb, n, w), ca, m, v, cb, n, w)
<1> DEFINE A == If(ca, m, v)
           B == If(cb, n, w)
<1>1. A \in Seq(Entry) /\ B \in Seq(Entry)
  BY PieceType, Zenon
<1>2. ASSUME NEW name
      PROVE  /\ Hits(A, name) = IF ca /\ m = name THEN {Event(m, v)} ELSE {}
             /\ Hits(B, name) = IF cb /\ n = name THEN {Event(n, w)} ELSE {}
  <2>1. Hits(A, name) = IF ca /\ m = name THEN {Event(m, v)} ELSE {}
    BY PieceHits, Zenon
  <2>2. Hits(B, name) = IF cb /\ n = name THEN {Event(n, w)} ELSE {}
    BY PieceHits, Zenon
  <2>3. QED
    BY <2>1, <2>2
<1> HIDE DEF A, B
<1>3. A \o B \in Seq(Entry) /\ L \o (A \o B) = (L \o A) \o B
  BY <1>1
<1>4. \A name : Hits(A \o B, name) = Hits(A, name) \cup Hits(B, name)
  BY <1>1, HitsJoined
<1>5. QED
  BY <1>2, <1>3, <1>4, Zenon DEF A, B, PairOf

\* What the check of the position logs and leaves.
PlaceReport(L, d, s, e, J) ==
    /\ J \in Seq(Entry) /\ LogInv(L \o J, e)
    /\ e \in Detector
    /\ \A f \in DOMAIN d \ {"peakDist", "peakAlt"} : e[f] = d[f]
    /\ e.peakDist = Maximum(d.peakDist, s.dist)
    /\ e.peakAlt = IF s.sats >= 0 THEN Maximum(d.peakAlt, s.alt) ELSE d.peakAlt
    /\ \A name : name \notin {"peak-distance", "peak-altitude"} => Hits(J, name) = {}
    /\ Hits(J, "peak-distance") =
         IF s.dist > d.peakDist /\ s.dist \div 50 > d.peakDist \div 50 THEN {Event("peak-distance", s.dist)} ELSE {}
    /\ Hits(J, "peak-altitude") =
         IF (s.sats >= 0 /\ s.alt > d.peakAlt) /\ s.alt \div 25 > d.peakAlt \div 25
         THEN {Event("peak-altitude", s.alt)} ELSE {}

LEMMA PositionKeeps ==
    ASSUME clock \in Nat, NEW d \in Detector, NEW s \in Snapshots, NEW L, LogInv(L, d)
    PROVE  PlaceReport(L, d, s, checkPosition(d, s).d, checkPosition(d, s).log)
<1> DEFINE higher == s.sats >= 0 /\ s.alt > d.peakAlt
           e == [d EXCEPT !.peakDist = Maximum(@, s.dist), !.peakAlt = IF higher THEN s.alt ELSE @]
           ca == s.dist > d.peakDist /\ s.dist \div 50 > d.peakDist \div 50
           cb == higher /\ s.alt \div 25 > d.peakAlt \div 25
           M == If(ca, "peak-distance", s.dist) \o If(cb, "peak-altitude", s.alt)
<1>0. s.dist \in Int /\ s.alt \in Int /\ s.sats \in Int /\ d.peakDist \in Nat /\ d.peakAlt \in Nat
  BY SnapshotFacts DEF Detector
<1>1. checkPosition(d, s).d = e /\ checkPosition(d, s).log = M
  BY DEF checkPosition
<1>2. e \in Detector /\ e.sats = d.sats /\ e.locked = d.locked /\ e.homed = d.homed /\ e.link = d.link
      /\ e.peakDist = Maximum(d.peakDist, s.dist) /\ e.peakAlt = (IF higher THEN s.alt ELSE d.peakAlt)
      /\ \A f \in DOMAIN d \ {"peakDist", "peakAlt"} : e[f] = d[f]
  <2> DEFINE x == Maximum(d.peakDist, s.dist)
             y == IF higher THEN s.alt ELSE d.peakAlt
  <2>1. x \in Nat /\ y \in Nat
    BY <1>0 DEF Maximum
  <2>2. \A i, j \in Nat : [d EXCEPT !.peakDist = i, !.peakAlt = j] \in Detector
    BY DEF Detector
  <2>3. e = [d EXCEPT !.peakDist = x, !.peakAlt = y]
    BY DEF Detector
  <2>4. DOMAIN d = {"sats", "locked", "homed", "peakDist", "peakAlt", "battery", "link", "mode", "rth", "failsafe"}
    BY DEF Detector
  <2> HIDE DEF x, y, e
  <2>5. e \in Detector
    BY <2>1, <2>2, <2>3
  <2>6. QED
    BY <2>3, <2>4, <2>5 DEF x, y
<1>3. higher => s.alt = Maximum(d.peakAlt, s.alt)
  BY <1>0 DEF Maximum
<1>4. s.sats >= 0 /\ ~higher => d.peakAlt = Maximum(d.peakAlt, s.alt)
  BY <1>0 DEF Maximum
<1>5. e.peakAlt = IF s.sats >= 0 THEN Maximum(d.peakAlt, s.alt) ELSE d.peakAlt
  BY <1>2, <1>3, <1>4, Zenon
<1>6. /\ "peak-distance" \in Names /\ "peak-altitude" \in Names
      /\ "peak-distance" \notin DOMAIN Ends /\ "peak-altitude" \notin DOMAIN Ends
  BY EndsFacts DEF Names
<1>7. ca \in BOOLEAN /\ cb \in BOOLEAN /\ L \in Seq(Entry)
  BY DEF LogInv
<1> HIDE DEF ca, cb, e, higher
<1>8a. PairOf(L, M, ca, "peak-distance", s.dist, cb, "peak-altitude", s.alt)
  BY <1>0, <1>6, <1>7, Pair, Zenon
<1>8. /\ M \in Seq(Entry)
      /\ L \o M = (L \o If(ca, "peak-distance", s.dist)) \o If(cb, "peak-altitude", s.alt)
      /\ \A name : Hits(M, name) =
                     (IF ca /\ "peak-distance" = name THEN {Event("peak-distance", s.dist)} ELSE {}) \cup
                     (IF cb /\ "peak-altitude" = name THEN {Event("peak-altitude", s.alt)} ELSE {})
  BY <1>8a DEF PairOf
<1>9. LogInv(L \o If(ca, "peak-distance", s.dist), d)
  BY <1>0, <1>6, <1>7, StaysQuiet, Zenon
<1>10. LogInv((L \o If(ca, "peak-distance", s.dist)) \o If(cb, "peak-altitude", s.alt), d)
  <2> DEFINE J == L \o If(ca, "peak-distance", s.dist)
  <2>1. LogInv(J, d)
    BY <1>9
  <2> HIDE DEF J
  <2>2. LogInv(J \o If(cb, "peak-altitude", s.alt), d)
    BY <2>1, <1>0, <1>6, <1>7, StaysQuiet, Zenon
  <2>3. QED
    BY <2>2 DEF J
<1> HIDE DEF M
<1>11. LogInv(L \o M, d)
  BY <1>8, <1>10, Zenon
<1>12. LogInv(L \o M, e)
  BY <1>11, <1>2, SameKnown, Zenon
<1>13. /\ \A name : name \notin {"peak-distance", "peak-altitude"} => Hits(M, name) = {}
       /\ Hits(M, "peak-distance") = IF ca THEN {Event("peak-distance", s.dist)} ELSE {}
       /\ Hits(M, "peak-altitude") = IF cb THEN {Event("peak-altitude", s.alt)} ELSE {}
  BY <1>8
<1>14. QED
  BY <1>1, <1>2, <1>5, <1>8, <1>12, <1>13, Zenon DEF ca, cb, higher, PlaceReport

LEMMA BatteryKeeps ==
    ASSUME clock \in Nat, NEW d \in Detector, NEW s \in Snapshots, NEW L, LogInv(L, d)
    PROVE  /\ checkBattery(d, s).log \in Seq(Entry) /\ LogInv(L \o checkBattery(d, s).log, checkBattery(d, s).d)
           /\ checkBattery(d, s).d \in Detector
           /\ \A f \in DOMAIN d \ {"battery"} : checkBattery(d, s).d[f] = d[f]
           /\ checkBattery(d, s).d.battery = IF s.cell > 0 THEN Band(s.cell) ELSE d.battery
           /\ \A name : name \notin {"battery-low", "battery-critical"} => Hits(checkBattery(d, s).log, name) = {}
           /\ Hits(checkBattery(d, s).log, "battery-critical") =
                IF s.cell > 0 /\ Band(s.cell) = 2 /\ d.battery # 2 THEN {Event("battery-critical", s.cell)} ELSE {}
           /\ Hits(checkBattery(d, s).log, "battery-low") =
                IF s.cell > 0 /\ Band(s.cell) = 1 /\ d.battery = 0 THEN {Event("battery-low", s.cell)} ELSE {}
<1>0. s.cell \in Int /\ d.battery \in 0..2 /\ Band(s.cell) \in 0..2 /\ L \in Seq(Entry)
  BY SnapshotFacts DEF Detector, Band, LogInv
<1>1. CASE s.cell <= 0
  <2>1. checkBattery(d, s).d = d /\ checkBattery(d, s).log = <<>>
    BY <1>1 DEF checkBattery
  <2>2. L \o <<>> = L /\ ~(s.cell > 0)
    BY <1>0, <1>1, ConcatEmptySeq
  <2>3. LogInv(L \o <<>>, d)
    BY <2>2, Zenon
  <2>4. QED
    BY <2>1, <2>2, <2>3, Empties, Zenon
<1>2. CASE ~(s.cell <= 0)
  <2> DEFINE band == Band(s.cell)
             e == [d EXCEPT !.battery = band]
             c == band > d.battery
             n == IF band = 2 THEN "battery-critical" ELSE "battery-low"
             M == If(c, n, s.cell)
  <2>1. checkBattery(d, s).d = e /\ checkBattery(d, s).log = M
    BY <1>2, Zenon DEF checkBattery
  <2>2. e \in Detector /\ e.sats = d.sats /\ e.locked = d.locked /\ e.homed = d.homed /\ e.link = d.link
        /\ e.battery = band /\ \A f \in DOMAIN d \ {"battery"} : e[f] = d[f]
    <3> HIDE DEF band
    <3>1. \A b \in 0..2 : [d EXCEPT !.battery = b] \in Detector
      BY DEF Detector
    <3>2. e \in Detector
      BY <3>1, <1>0 DEF band
    <3>3. DOMAIN d = {"sats", "locked", "homed", "peakDist", "peakAlt", "battery", "link", "mode", "rth", "failsafe"}
      BY DEF Detector
    <3>4. QED
      BY <3>2, <3>3
  <2>3. n \in Names /\ n \notin DOMAIN Ends
    BY EndsFacts DEF Names
  <2>4. c \in BOOLEAN /\ s.cell > 0
    BY <1>0, <1>2
  <2>5. /\ (c /\ n = "battery-critical") <=> (s.cell > 0 /\ Band(s.cell) = 2 /\ d.battery # 2)
        /\ (c /\ n = "battery-low") <=> (s.cell > 0 /\ Band(s.cell) = 1 /\ d.battery = 0)
        /\ n \in {"battery-low", "battery-critical"}
    BY <1>0, <2>4
  <2> HIDE DEF c, n, e, band
  <2>6. LogInv(L \o M, d)
    BY <1>0, <2>3, <2>4, StaysQuiet, Zenon
  <2>7. M \in Seq(Entry)
    BY <1>0, <2>3, PieceType, Zenon
  <2>8. \A name : Hits(M, name) = IF c /\ n = name THEN {Event(n, s.cell)} ELSE {}
    BY <1>0, <2>3, PieceHits, Zenon
  <2> HIDE DEF M
  <2>9. LogInv(L \o M, e)
    BY <2>6, <2>2, SameKnown, Zenon
  <2>10. /\ \A name : name \notin {"battery-low", "battery-critical"} => Hits(M, name) = {}
         /\ Hits(M, "battery-critical") = IF c /\ n = "battery-critical" THEN {Event("battery-critical", s.cell)} ELSE {}
         /\ Hits(M, "battery-low") = IF c /\ n = "battery-low" THEN {Event("battery-low", s.cell)} ELSE {}
    BY <2>5, <2>8, Zenon
  <2>11. QED
    BY <2>1, <2>2, <2>4, <2>5, <2>7, <2>9, <2>10, Zenon DEF band
<1>3. QED
  BY <1>1, <1>2, Zenon

LEMMA LinkKeeps ==
    ASSUME clock \in Nat, NEW d \in Detector, NEW s \in Snapshots, NEW L, LogInv(L, d)
    PROVE  /\ checkLink(d, s).log \in Seq(Entry) /\ LogInv(L \o checkLink(d, s).log, checkLink(d, s).d)
           /\ checkLink(d, s).d \in Detector
           /\ \A f \in DOMAIN d \ {"link"} : checkLink(d, s).d[f] = d[f]
           /\ \A name : name \notin {"link-degraded", "link-poor", "link-recovered"} => Hits(checkLink(d, s).log, name) = {}
<1>0. s.lq \in Int /\ d.link \in 0..2 /\ Quality(s.lq) \in 0..2 /\ L \in Seq(Entry) /\ Edges(L) /\ Known(L, d)
  BY SnapshotFacts DEF Detector, Quality, LogInv
<1>1. CASE s.lq < 0
  <2>1. checkLink(d, s).d = d /\ checkLink(d, s).log = <<>>
    BY <1>1 DEF checkLink
  <2>2. L \o <<>> = L
    BY <1>0, ConcatEmptySeq
  <2>3. LogInv(L \o <<>>, d)
    BY <2>2, Zenon
  <2>4. QED
    BY <2>1, <2>3, Empties, Zenon
<1>2. CASE ~(s.lq < 0)
  <2> DEFINE q == Quality(s.lq)
             cb == q < d.link /\ s.lq >= 90
             x == IF q > d.link \/ cb THEN q ELSE d.link
             e == [d EXCEPT !.link = IF q > @ \/ cb THEN q ELSE @]
             ca == q > d.link
             n == IF q = 2 THEN "link-poor" ELSE "link-degraded"
             A == If(ca, n, s.lq)
             B == If(cb, "link-recovered", s.lq)
             M == A \o B
  <2>1. checkLink(d, s).d = e /\ checkLink(d, s).log = M
    BY <1>2, Zenon DEF checkLink
  <2>2. e \in Detector /\ e.sats = d.sats /\ e.locked = d.locked /\ e.homed = d.homed /\ e.link = x
        /\ \A f \in DOMAIN d \ {"link"} : e[f] = d[f]
    <3>1. \A b \in 0..2 : [d EXCEPT !.link = b] \in Detector
      BY DEF Detector
    <3>2. x \in 0..2
      BY <1>0
    <3>3. e = [d EXCEPT !.link = x]
      BY DEF Detector
    <3>4. DOMAIN d = {"sats", "locked", "homed", "peakDist", "peakAlt", "battery", "link", "mode", "rth", "failsafe"}
      BY DEF Detector
    <3> HIDE DEF x, e
    <3>5. e \in Detector
      BY <3>1, <3>2, <3>3
    <3>6. QED
      BY <3>3, <3>4, <3>5
  <2>3. /\ n \in Names /\ "link-recovered" \in Names /\ n # "link-recovered"
        /\ n \in {"link-degraded", "link-poor"}
    BY DEF Names
  <2>4. /\ ca => ~cb /\ x = q
        /\ cb => x = q /\ q = 0 /\ d.link > 0
        /\ ~ca /\ ~cb => x = d.link
        /\ ca /\ n = "link-poor" => q = 2 /\ d.link < 2
        /\ ca /\ n = "link-degraded" => q = 1 /\ d.link = 0
        /\ ca => (n = "link-poor" /\ q = 2) \/ (n = "link-degraded" /\ q = 1)
    BY <1>0, <1>2 DEF Quality
  <2> HIDE DEF ca, cb, n, q, e, x
  <2>5. ca => Clear(L, n)
    BY <1>0, <2>3, <2>4 DEF Known
  <2>6. Extends(L, L \o A, ca, n)
    BY <1>0, <2>3, <2>5, EdgeIf, Zenon
  <2>7. cb => Clear(L, "link-recovered")
    BY <1>0, <2>4 DEF Known
  <2> DEFINE J == L \o A
  <2>8. Extends(L, J, ca, n)
    BY <2>6
  <2> HIDE DEF J
  <2>9. Extends(J, J \o B, cb, "link-recovered")
    <3>1. J \in Seq(Entry) /\ Edges(J)
      BY <2>8, Zenon DEF Extends
    <3>2. cb => Clear(J, "link-recovered")
      BY <2>3, <2>4, <2>7, <2>8 DEF Extends
    <3>3. QED
      BY <3>1, <3>2, <1>0, <2>3, EdgeIf, Zenon
  <2>10a. PairOf(L, M, ca, n, s.lq, cb, "link-recovered", s.lq)
    BY <1>0, <2>3, Pair, Zenon
  <2>10. /\ M \in Seq(Entry) /\ L \o M = J \o B
         /\ \A name : Hits(M, name) = (IF ca /\ n = name THEN {Event(n, s.lq)} ELSE {}) \cup
                                      (IF cb /\ "link-recovered" = name THEN {Event("link-recovered", s.lq)} ELSE {})
    BY <2>10a DEF J, PairOf
  <2> DEFINE K == J \o B
  <2>11. Extends(J, K, cb, "link-recovered")
    BY <2>9
  <2> HIDE DEF K, M, A, B
  <2>12. \A m : m \notin {"link-degraded", "link-poor", "link-recovered"} /\ Clear(L, m) => Clear(K, m)
    BY <2>3, <2>8, <2>11 DEF Extends
  <2>13. /\ x < 1 => Clear(K, "link-degraded")
         /\ x < 2 => Clear(K, "link-poor")
         /\ x > 0 => Clear(K, "link-recovered")
    <3>1. CASE ca
      <4>1. Clear(J, "link-recovered")
        BY <3>1, <2>3, <2>8, EndsFacts DEF Extends
      <4>2. Clear(K, "link-recovered")
        BY <4>1, <3>1, <2>4, <2>11 DEF Extends
      <4>3. n = "link-degraded" => x = 1 /\ d.link = 0
        BY <3>1, <2>4
      <4>4. n = "link-degraded" => Clear(J, "link-poor")
        BY <4>3, <1>0, <2>8 DEF Extends, Known
      <4>5. n = "link-degraded" => Clear(K, "link-poor")
        BY <4>4, <2>11 DEF Extends
      <4>6. n = "link-poor" => x = 2
        BY <3>1, <2>4
      <4>7. QED
        BY <4>2, <4>3, <4>5, <4>6, <3>1, <2>4
    <3>2. CASE cb
      <4>1. Clear(K, "link-degraded") /\ Clear(K, "link-poor")
        BY <3>2, <2>11, EndsFacts DEF Extends
      <4>2. ~(x > 0)
        BY <3>2, <2>4
      <4>3. QED
        BY <4>1, <4>2
    <3>3. CASE ~ca /\ ~cb
      <4>1. \A m : Clear(L, m) => Clear(K, m)
        BY <3>3, <2>8, <2>11 DEF Extends
      <4>2. x = d.link
        BY <3>3, <2>4
      <4>3. QED
        BY <4>1, <4>2, <1>0, Zenon DEF Known
    <3>4. QED
      BY <3>1, <3>2, <3>3
  <2>14. Known(K, e)
    BY <2>2, <2>12, <2>13, <1>0, Zenon DEF Known
  <2>15. LogInv(L \o M, e)
    BY <2>10, <2>11, <2>14, Zenon DEF LogInv, Extends, K
  <2>16. \A name : name \notin {"link-degraded", "link-poor", "link-recovered"} => Hits(M, name) = {}
    BY <2>3, <2>10
  <2>17. checkLink(d, s).d = e /\ checkLink(d, s).log = M
    BY <2>1 DEF M, A, B
  <2>18. QED
    BY <2>2, <2>10, <2>15, <2>16, <2>17, Zenon
<1>3. QED
  BY <1>1, <1>2

\* The log J is M and then N, and so after L.
Follows(L, M, N, J) ==
    /\ J \in Seq(Entry) /\ L \o J = (L \o M) \o N
    /\ \A name : Hits(J, name) = Hits(M, name) \cup Hits(N, name)

LEMMA OneMore ==
    ASSUME NEW L \in Seq(Entry), NEW M \in Seq(Entry), NEW N \in Seq(Entry)
    PROVE  Follows(L, M, N, M \o N)
<1>1. M \o N \in Seq(Entry) /\ L \o (M \o N) = (L \o M) \o N
  OBVIOUS
<1>2. QED
  BY <1>1, HitsJoined DEF Follows

\* What the checks of a sample log and leave, the detector's state e and the log J.
Reported(L, d, s, e, J) ==
    /\ J \in Seq(Entry) /\ LogInv(L \o J, e) /\ e \in Detector
    /\ e.peakDist = Maximum(d.peakDist, s.dist)
    /\ e.peakAlt = IF s.sats >= 0 THEN Maximum(d.peakAlt, s.alt) ELSE d.peakAlt
    /\ Hits(J, "peak-distance") =
         IF s.dist > d.peakDist /\ s.dist \div 50 > d.peakDist \div 50 THEN {Event("peak-distance", s.dist)} ELSE {}
    /\ Hits(J, "peak-altitude") =
         IF (s.sats >= 0 /\ s.alt > d.peakAlt) /\ s.alt \div 25 > d.peakAlt \div 25
         THEN {Event("peak-altitude", s.alt)} ELSE {}
    /\ e.battery = IF s.cell > 0 THEN Band(s.cell) ELSE d.battery
    /\ Hits(J, "battery-critical") =
         IF s.cell > 0 /\ Band(s.cell) = 2 /\ d.battery # 2 THEN {Event("battery-critical", s.cell)} ELSE {}
    /\ Hits(J, "battery-low") =
         IF s.cell > 0 /\ Band(s.cell) = 1 /\ d.battery = 0 THEN {Event("battery-low", s.cell)} ELSE {}
    /\ s.mode \in Failsafes => d.mode \in Failsafes \/ d.failsafe \/ Hits(J, "failsafe") # {}
    /\ Hits(J, "failsafe") # {} => s.mode \in Failsafes
    /\ e.mode \in Failsafes \/ e.failsafe => s.mode \in Failsafes \/ d.mode \in Failsafes \/ d.failsafe
    /\ s.mode = "RTH" => d.mode = "RTH" \/ d.rth \/ Hits(J, "rth-active") # {}
    /\ Hits(J, "rth-active") # {} => s.mode = "RTH"
    /\ e.mode = "RTH" \/ e.rth => s.mode = "RTH" \/ d.mode = "RTH" \/ d.rth

LEMMA ChecksReport ==
    ASSUME clock \in Nat, det \in Detector, NEW s \in Snapshots, NEW L, LogInv(L, det)
    PROVE  Reported(L, det, s, Checks(s).d, Checks(s).log)
<1> DEFINE r1 == checkGPS(det, s)
           d1 == r1.d
           J1 == r1.log
           r2 == checkHome(d1, s)
           d2 == r2.d
           l2 == r2.log
           r3 == checkMode(d2, s)
           d3 == r3.d
           l3 == r3.log
           r4 == checkPosition(d3, s)
           d4 == r4.d
           l4 == r4.log
           r5 == checkBattery(d4, s)
           d5 == r5.d
           l5 == r5.log
           r6 == checkLink(d5, s)
           d6 == r6.d
           l6 == r6.log
           J2 == J1 \o l2
           J3 == J2 \o l3
           J4 == J3 \o l4
           J5 == J4 \o l5
           J6 == J5 \o l6
           Fields == {"sats", "locked", "homed", "peakDist", "peakAlt", "battery", "link", "mode", "rth", "failsafe"}
<1>0. Checks(s).d = d6 /\ Checks(s).log = J6
  BY Zenon DEF Checks
<1>0a. L \in Seq(Entry)
  BY DEF LogInv
<1>0b. \A d \in Detector : DOMAIN d = Fields
  BY DEF Detector
<1> HIDE DEF Fields
<1>1. /\ J1 \in Seq(Entry) /\ LogInv(L \o J1, d1) /\ d1 \in Detector
      /\ \A f \in Fields \ {"sats", "locked"} : d1[f] = det[f]
      /\ \A name : name \notin {"first-sats", "gps-lock-acquired", "gps-lock-lost"} => Hits(J1, name) = {}
  BY <1>0b, GPSKeeps, Zenon
<1> HIDE DEF d1, J1
<1>2. /\ l2 \in Seq(Entry) /\ LogInv((L \o J1) \o l2, d2) /\ d2 \in Detector
      /\ \A f \in Fields \ {"homed"} : d2[f] = d1[f]
      /\ \A name : name # "home-set" => Hits(l2, name) = {}
  BY <1>0b, <1>1, HomeKeeps, Zenon
<1> HIDE DEF d2, l2
<1>2c. Follows(L, J1, l2, J2)
  BY <1>0a, <1>1, <1>2, OneMore, Zenon
<1> HIDE DEF J2
<1>2a. J2 \in Seq(Entry) /\ L \o J2 = (L \o J1) \o l2 /\ \A name : Hits(J2, name) = Hits(J1, name) \cup Hits(l2, name)
  BY <1>2c, Zenon DEF Follows
<1>2b. LogInv(L \o J2, d2)
  BY <1>2, <1>2a, Zenon
<1>3r. ModeReport(L \o J2, d2, s, d3, l3)
  BY <1>2, <1>2b, ModeKeeps, Zenon
<1> HIDE DEF d3, l3
<1>3. /\ l3 \in Seq(Entry) /\ LogInv((L \o J2) \o l3, d3) /\ d3 \in Detector
      /\ \A f \in Fields \ {"mode", "rth", "failsafe"} : d3[f] = d2[f]
      /\ \A name : name \notin {"mode-change", "rth-active", "failsafe"} => Hits(l3, name) = {}
      /\ s.mode \in Failsafes => d2.mode \in Failsafes \/ d2.failsafe \/ Hits(l3, "failsafe") # {}
      /\ Hits(l3, "failsafe") # {} => s.mode \in Failsafes
      /\ d3.mode \in Failsafes \/ d3.failsafe => s.mode \in Failsafes \/ d2.mode \in Failsafes \/ d2.failsafe
      /\ s.mode = "RTH" => d2.mode = "RTH" \/ d2.rth \/ Hits(l3, "rth-active") # {}
      /\ Hits(l3, "rth-active") # {} => s.mode = "RTH"
      /\ d3.mode = "RTH" \/ d3.rth => s.mode = "RTH" \/ d2.mode = "RTH" \/ d2.rth
  BY <1>3r, <1>0b, <1>2, Zenon DEF ModeReport
<1>3c. Follows(L, J2, l3, J3)
  BY <1>0a, <1>2a, <1>3, OneMore, Zenon
<1> HIDE DEF J3
<1>3a. J3 \in Seq(Entry) /\ L \o J3 = (L \o J2) \o l3 /\ \A name : Hits(J3, name) = Hits(J2, name) \cup Hits(l3, name)
  BY <1>3c, Zenon DEF Follows
<1>3b. LogInv(L \o J3, d3)
  BY <1>3, <1>3a, Zenon
<1>4r. PlaceReport(L \o J3, d3, s, d4, l4)
  BY <1>3, <1>3b, PositionKeeps, Zenon
<1> HIDE DEF d4, l4
<1>4. /\ l4 \in Seq(Entry) /\ LogInv((L \o J3) \o l4, d4) /\ d4 \in Detector
      /\ \A f \in Fields \ {"peakDist", "peakAlt"} : d4[f] = d3[f]
      /\ d4.peakDist = Maximum(d3.peakDist, s.dist)
      /\ d4.peakAlt = IF s.sats >= 0 THEN Maximum(d3.peakAlt, s.alt) ELSE d3.peakAlt
      /\ \A name : name \notin {"peak-distance", "peak-altitude"} => Hits(l4, name) = {}
      /\ Hits(l4, "peak-distance") =
           IF s.dist > d3.peakDist /\ s.dist \div 50 > d3.peakDist \div 50 THEN {Event("peak-distance", s.dist)} ELSE {}
      /\ Hits(l4, "peak-altitude") =
           IF (s.sats >= 0 /\ s.alt > d3.peakAlt) /\ s.alt \div 25 > d3.peakAlt \div 25
           THEN {Event("peak-altitude", s.alt)} ELSE {}
  BY <1>4r, <1>0b, <1>3, Zenon DEF PlaceReport
<1>4c. Follows(L, J3, l4, J4)
  BY <1>0a, <1>3a, <1>4, OneMore, Zenon
<1> HIDE DEF J4
<1>4a. J4 \in Seq(Entry) /\ L \o J4 = (L \o J3) \o l4 /\ \A name : Hits(J4, name) = Hits(J3, name) \cup Hits(l4, name)
  BY <1>4c, Zenon DEF Follows
<1>4b. LogInv(L \o J4, d4)
  BY <1>4, <1>4a, Zenon
<1>5. /\ l5 \in Seq(Entry) /\ LogInv((L \o J4) \o l5, d5) /\ d5 \in Detector
      /\ \A f \in Fields \ {"battery"} : d5[f] = d4[f]
      /\ d5.battery = IF s.cell > 0 THEN Band(s.cell) ELSE d4.battery
      /\ \A name : name \notin {"battery-low", "battery-critical"} => Hits(l5, name) = {}
      /\ Hits(l5, "battery-critical") =
           IF s.cell > 0 /\ Band(s.cell) = 2 /\ d4.battery # 2 THEN {Event("battery-critical", s.cell)} ELSE {}
      /\ Hits(l5, "battery-low") =
           IF s.cell > 0 /\ Band(s.cell) = 1 /\ d4.battery = 0 THEN {Event("battery-low", s.cell)} ELSE {}
  BY <1>0b, <1>4, <1>4b, BatteryKeeps, Zenon
<1> HIDE DEF d5, l5
<1>5c. Follows(L, J4, l5, J5)
  BY <1>0a, <1>4a, <1>5, OneMore, Zenon
<1> HIDE DEF J5
<1>5a. J5 \in Seq(Entry) /\ L \o J5 = (L \o J4) \o l5 /\ \A name : Hits(J5, name) = Hits(J4, name) \cup Hits(l5, name)
  BY <1>5c, Zenon DEF Follows
<1>5b. LogInv(L \o J5, d5)
  BY <1>5, <1>5a, Zenon
<1>6. /\ l6 \in Seq(Entry) /\ LogInv((L \o J5) \o l6, d6) /\ d6 \in Detector
      /\ \A f \in Fields \ {"link"} : d6[f] = d5[f]
      /\ \A name : name \notin {"link-degraded", "link-poor", "link-recovered"} => Hits(l6, name) = {}
  BY <1>0b, <1>5, <1>5b, LinkKeeps, Zenon
<1> HIDE DEF d6, l6
<1>6c. Follows(L, J5, l6, J6)
  BY <1>0a, <1>5a, <1>6, OneMore, Zenon
<1> HIDE DEF J6
<1>6a. J6 \in Seq(Entry) /\ L \o J6 = (L \o J5) \o l6 /\ \A name : Hits(J6, name) = Hits(J5, name) \cup Hits(l6, name)
  BY <1>6c, Zenon DEF Follows
<1>6b. LogInv(L \o J6, d6)
  BY <1>6, <1>6a, Zenon
<1>7. \A name : Hits(J6, name) = Hits(J1, name) \cup Hits(l2, name) \cup Hits(l3, name) \cup Hits(l4, name)
                                  \cup Hits(l5, name) \cup Hits(l6, name)
  BY <1>2a, <1>3a, <1>4a, <1>5a, <1>6a
<1>8. /\ Hits(J6, "peak-distance") = Hits(l4, "peak-distance") /\ Hits(J6, "peak-altitude") = Hits(l4, "peak-altitude")
      /\ Hits(J6, "battery-critical") = Hits(l5, "battery-critical") /\ Hits(J6, "battery-low") = Hits(l5, "battery-low")
      /\ Hits(J6, "failsafe") = Hits(l3, "failsafe") /\ Hits(J6, "rth-active") = Hits(l3, "rth-active")
  <2>1. ASSUME NEW n \in {"peak-distance", "peak-altitude"} PROVE Hits(J6, n) = Hits(l4, n)
    <3>1. Hits(J1, n) = {} /\ Hits(l2, n) = {} /\ Hits(l3, n) = {} /\ Hits(l5, n) = {} /\ Hits(l6, n) = {}
      BY <1>1, <1>2, <1>3, <1>5, <1>6
    <3>2. QED
      BY <3>1, <1>7
  <2>2. ASSUME NEW n \in {"battery-critical", "battery-low"} PROVE Hits(J6, n) = Hits(l5, n)
    <3>1. Hits(J1, n) = {} /\ Hits(l2, n) = {} /\ Hits(l3, n) = {} /\ Hits(l4, n) = {} /\ Hits(l6, n) = {}
      BY <1>1, <1>2, <1>3, <1>4, <1>6
    <3>2. QED
      BY <3>1, <1>7
  <2>3. ASSUME NEW n \in {"failsafe", "rth-active"} PROVE Hits(J6, n) = Hits(l3, n)
    <3>1. Hits(J1, n) = {} /\ Hits(l2, n) = {} /\ Hits(l4, n) = {} /\ Hits(l5, n) = {} /\ Hits(l6, n) = {}
      BY <1>1, <1>2, <1>4, <1>5, <1>6
    <3>2. QED
      BY <3>1, <1>7
  <2>4. QED
    BY <2>1, <2>2, <2>3
<1>9. /\ d2.mode = det.mode /\ d2.failsafe = det.failsafe /\ d2.rth = det.rth
      /\ d3.peakDist = det.peakDist /\ d3.peakAlt = det.peakAlt /\ d4.battery = det.battery
      /\ d6.peakDist = d4.peakDist /\ d6.peakAlt = d4.peakAlt /\ d6.battery = d5.battery
      /\ d6.mode = d3.mode /\ d6.failsafe = d3.failsafe /\ d6.rth = d3.rth
  <2>1. /\ \A f \in {"mode", "rth", "failsafe"} : d2[f] = det[f] /\ d6[f] = d3[f]
        /\ \A f \in {"peakDist", "peakAlt"} : d3[f] = det[f] /\ d6[f] = d4[f]
        /\ d4["battery"] = det["battery"] /\ d6["battery"] = d5["battery"]
    BY <1>1, <1>2, <1>3, <1>4, <1>5, <1>6 DEF Fields
  <2>2. QED
    BY <2>1
<1>10. Reported(L, det, s, d6, J6)
  <2>1. /\ d6.peakDist = Maximum(det.peakDist, s.dist)
        /\ d6.peakAlt = IF s.sats >= 0 THEN Maximum(det.peakAlt, s.alt) ELSE det.peakAlt
        /\ Hits(J6, "peak-distance") =
             IF s.dist > det.peakDist /\ s.dist \div 50 > det.peakDist \div 50 THEN {Event("peak-distance", s.dist)} ELSE {}
        /\ Hits(J6, "peak-altitude") =
             IF (s.sats >= 0 /\ s.alt > det.peakAlt) /\ s.alt \div 25 > det.peakAlt \div 25
             THEN {Event("peak-altitude", s.alt)} ELSE {}
    BY <1>4, <1>8, <1>9, Zenon
  <2>2. /\ d6.battery = IF s.cell > 0 THEN Band(s.cell) ELSE det.battery
        /\ Hits(J6, "battery-critical") =
             IF s.cell > 0 /\ Band(s.cell) = 2 /\ det.battery # 2 THEN {Event("battery-critical", s.cell)} ELSE {}
        /\ Hits(J6, "battery-low") =
             IF s.cell > 0 /\ Band(s.cell) = 1 /\ det.battery = 0 THEN {Event("battery-low", s.cell)} ELSE {}
    BY <1>5, <1>8, <1>9, Zenon
  <2>3. /\ s.mode \in Failsafes => det.mode \in Failsafes \/ det.failsafe \/ Hits(J6, "failsafe") # {}
        /\ Hits(J6, "failsafe") # {} => s.mode \in Failsafes
        /\ d6.mode \in Failsafes \/ d6.failsafe => s.mode \in Failsafes \/ det.mode \in Failsafes \/ det.failsafe
        /\ s.mode = "RTH" => det.mode = "RTH" \/ det.rth \/ Hits(J6, "rth-active") # {}
        /\ Hits(J6, "rth-active") # {} => s.mode = "RTH"
        /\ d6.mode = "RTH" \/ d6.rth => s.mode = "RTH" \/ det.mode = "RTH" \/ det.rth
    BY <1>3, <1>8, <1>9, Zenon
  <2>4. QED
    BY <2>1, <2>2, <2>3, <1>6, <1>6a, <1>6b, Zenon DEF Reported
<1>11. QED
  BY <1>0, <1>10, Zenon DEF Reported

-----------------------------------------------------------------------------
(* The log and the history agree.                                            *)

LEMMA OfHits ==
    ASSUME NEW L, NEW name
    PROVE  /\ Values(L, name) = {e.value : e \in Hits(L, name)}
           /\ Times(L, name) = {e.at : e \in Hits(L, name)}
  BY DEF Values, Times, Hits

LEMMA HitTypes ==
    ASSUME NEW L \in Seq(Entry), NEW name
    PROVE  /\ Hits(L, name) \subseteq Entry /\ Values(L, name) \subseteq Int /\ Times(L, name) \subseteq Nat
<1>1. \A i \in DOMAIN L : L[i] \in Entry
  BY LenProperties, ElementOfSeq
<1>2. Hits(L, name) \subseteq Entry
  BY <1>1 DEF Hits
<1>3. QED
  BY <1>2, OfHits DEF Entry

\* A peak in another bucket is told, one in the same is not.
LEMMA PeakGrows ==
    ASSUME NEW V \in SUBSET Int, NEW W, NEW of \in Nat, NEW v \in Int, NEW size \in {25, 50}, PeakOf(V, of, size),
           W = V \cup (IF v > of /\ v \div size > of \div size THEN {v} ELSE {})
    PROVE  PeakOf(W, Maximum(of, v), size)
<1>1. PICK m \in V \cup {0} : (\A w \in V \cup {0} : w <= m) /\ Within(m, of, size)
  BY DEF PeakOf
<1>2. m \in Nat
  BY <1>1
<1>3. \A a \in Nat, b \in Int : /\ Within(a, of, 50) /\ ~(b > of /\ b \div 50 > of \div 50) => Within(a, Maximum(of, b), 50)
                                /\ Within(a, of, 25) /\ ~(b > of /\ b \div 25 > of \div 25) => Within(a, Maximum(of, b), 25)
                                /\ b > of => Within(b, Maximum(of, b), 50) /\ Within(b, Maximum(of, b), 25)
  BY DEF Within, Maximum
<1>4. CASE v > of /\ v \div size > of \div size
  <2>1. W = V \cup {v}
    BY <1>4
  <2>2. \A w \in W \cup {0} : w <= v
    BY <2>1, <1>1, <1>2, <1>4 DEF Within
  <2>3. Within(v, Maximum(of, v), size)
    BY <1>3, <1>4
  <2>4. QED
    BY <2>1, <2>2, <2>3 DEF PeakOf
<1>5. CASE ~(v > of /\ v \div size > of \div size)
  <2>1. W = V
    BY <1>5
  <2>2. Within(m, Maximum(of, v), size)
    BY <1>1, <1>2, <1>3, <1>5
  <2>3. QED
    BY <2>1, <2>2, <1>1 DEF PeakOf
<1>6. QED
  BY <1>4, <1>5

\* The first moment stays the first.
LEMMA FirstStays ==
    ASSUME clock \in Nat, NEW T \in SUBSET Nat, NEW W, NEW t \in -1..clock, FirstOf(T, t), NEW c, NEW holds,
           W = T \cup (IF c THEN {clock} ELSE {}), c => holds, t < 0 /\ holds => c
    PROVE  /\ FirstOf(W, First(t, holds)) /\ First(t, holds) \in -1..clock
           /\ holds \/ t >= 0 => First(t, holds) >= 0
           /\ First(t, holds) < 0 => t < 0 /\ ~holds
<1>1. CASE t < 0 /\ holds
  <2>1. First(t, holds) = clock
    BY <1>1 DEF First
  <2>2. T = {}
    BY <1>1 DEF FirstOf
  <2>3. W = {clock}
    BY <1>1, <2>2
  <2>4. QED
    BY <2>1, <2>3, <1>1 DEF FirstOf
<1>2. CASE ~(t < 0 /\ holds)
  <2>1. First(t, holds) = t
    BY <1>2, Zenon DEF First
  <2>2. CASE c
    <3>1. t >= 0 /\ t <= clock /\ W = T \cup {clock}
      BY <1>2, <2>2
    <3>2. t \in T /\ \A u \in T : t <= u
      BY <3>1 DEF FirstOf
    <3>3. QED
      BY <2>1, <2>2, <3>1, <3>2 DEF FirstOf
  <2>3. CASE ~c
    <3>1. W = T
      BY <2>3
    <3>2. QED
      BY <2>1, <3>1, <1>2
  <2>4. QED
    BY <2>2, <2>3
<1>3. QED
  BY <1>1, <1>2

\* The checks of a sample leave the log in agreement with what they were given.
LEMMA ChecksAgree ==
    ASSUME clock \in Nat, NEW d \in Detector, NEW s \in Snapshots, NEW L, NEW w \in Account,
           Consistent(L, d, w, clock), NEW e, NEW J, Reported(L, d, s, e, J)
    PROVE  Witness(w, s) \in Account /\ Consistent(L \o J, e, Witness(w, s), clock)
<1> DEFINE M == L \o J
           x == Witness(w, s)
<1>0. /\ s.sats \in Int /\ s.dist \in Int /\ s.alt \in Int /\ s.cell \in Int
      /\ w.dist \in Nat /\ w.alt \in Nat /\ w.low \in Int /\ w.critical \in Int /\ w.rth \in BOOLEAN /\ w.failsafe \in BOOLEAN
      /\ d.battery \in 0..2 /\ Band(s.cell) \in 0..2
  BY SnapshotFacts DEF Account, Detector, Band
<1>1. L \in Seq(Entry) /\ J \in Seq(Entry) /\ M \in Seq(Entry)
  BY Joined DEF Consistent, LogInv, Reported
<1>2. \A name : Hits(M, name) = Hits(L, name) \cup Hits(J, name)
  BY <1>1, HitsJoined
<1>3. \A name : /\ Values(M, name) = Values(L, name) \cup {h.value : h \in Hits(J, name)}
                /\ Times(M, name) = Times(L, name) \cup {h.at : h \in Hits(J, name)}
  <2>1. \A name : /\ Values(M, name) = {h.value : h \in Hits(M, name)} /\ Values(L, name) = {h.value : h \in Hits(L, name)}
                  /\ Times(M, name) = {h.at : h \in Hits(M, name)} /\ Times(L, name) = {h.at : h \in Hits(L, name)}
    BY OfHits
  <2>2. QED
    BY <1>2, <2>1
<1>4. /\ x.dist = Maximum(w.dist, s.dist) /\ x.alt = (IF s.sats >= 0 THEN Maximum(w.alt, s.alt) ELSE w.alt)
      /\ x.low = First(w.low, s.cell > 0 /\ Band(s.cell) = 1)
      /\ x.critical = First(w.critical, s.cell > 0 /\ Band(s.cell) = 2)
      /\ (x.rth <=> w.rth \/ s.mode = "RTH")
      /\ (x.failsafe <=> w.failsafe \/ s.mode \in Failsafes)
  BY DEF Witness
<1>5. x \in Account
  <2> DEFINE i == Maximum(w.dist, s.dist)
             j == IF s.sats >= 0 THEN Maximum(w.alt, s.alt) ELSE w.alt
             k == First(w.low, s.cell > 0 /\ Band(s.cell) = 1)
             l == First(w.critical, s.cell > 0 /\ Band(s.cell) = 2)
             p == w.rth \/ s.mode = "RTH"
             q == w.failsafe \/ s.mode \in Failsafes
  <2>1. x = [dist |-> i, alt |-> j, low |-> k, critical |-> l, rth |-> p, failsafe |-> q]
    BY DEF Witness
  <2>2. i \in Nat /\ j \in Nat /\ k \in Int /\ l \in Int
    BY <1>0 DEF Maximum, First
  <2>3. p \in BOOLEAN /\ q \in BOOLEAN
    OBVIOUS
  <2> HIDE DEF i, j, k, l, p, q, x
  <2>4. [dist |-> i, alt |-> j, low |-> k, critical |-> l, rth |-> p, failsafe |-> q] \in Account
    BY <2>2, <2>3 DEF Account
  <2>5. QED
    BY <2>1, <2>4
<1>6. PeaksInv(M, e, x)
  <2>1. /\ d.peakDist = w.dist /\ d.peakAlt = w.alt
        /\ PeakOf(Values(L, "peak-distance"), w.dist, 50) /\ PeakOf(Values(L, "peak-altitude"), w.alt, 25)
    BY DEF Consistent, PeaksInv
  <2>2. Event("peak-distance", s.dist).value = s.dist /\ Event("peak-altitude", s.alt).value = s.alt
    BY DEF Event
  <2>3. Values(M, "peak-distance") =
          Values(L, "peak-distance") \cup (IF s.dist > w.dist /\ s.dist \div 50 > w.dist \div 50 THEN {s.dist} ELSE {})
    <3>1. Hits(J, "peak-distance") =
            IF s.dist > w.dist /\ s.dist \div 50 > w.dist \div 50 THEN {Event("peak-distance", s.dist)} ELSE {}
      BY <2>1, Zenon DEF Reported
    <3>2. {h.value : h \in Hits(J, "peak-distance")} =
            IF s.dist > w.dist /\ s.dist \div 50 > w.dist \div 50 THEN {s.dist} ELSE {}
      BY <3>1, <2>2
    <3>3. QED
      BY <3>2, <1>3, Zenon
  <2>4. PeakOf(Values(M, "peak-distance"), Maximum(w.dist, s.dist), 50)
    <3>1. Values(L, "peak-distance") \in SUBSET Int
      BY <1>1, HitTypes
    <3>2. QED
      BY <3>1, <2>1, <2>3, <1>0, PeakGrows
  <2>5. s.sats >= 0 => PeakOf(Values(M, "peak-altitude"), Maximum(w.alt, s.alt), 25)
    <3> SUFFICES ASSUME s.sats >= 0 PROVE PeakOf(Values(M, "peak-altitude"), Maximum(w.alt, s.alt), 25)
      OBVIOUS
    <3>1. Hits(J, "peak-altitude") =
            IF s.alt > w.alt /\ s.alt \div 25 > w.alt \div 25 THEN {Event("peak-altitude", s.alt)} ELSE {}
      BY <2>1, Zenon DEF Reported
    <3>2. {h.value : h \in Hits(J, "peak-altitude")} =
            IF s.alt > w.alt /\ s.alt \div 25 > w.alt \div 25 THEN {s.alt} ELSE {}
      BY <3>1, <2>2
    <3>3. Values(M, "peak-altitude") =
            Values(L, "peak-altitude") \cup (IF s.alt > w.alt /\ s.alt \div 25 > w.alt \div 25 THEN {s.alt} ELSE {})
      BY <3>2, <1>3, Zenon
    <3>4. Values(L, "peak-altitude") \in SUBSET Int
      BY <1>1, HitTypes
    <3>5. QED
      BY <3>3, <3>4, <2>1, <1>0, PeakGrows
  <2>6. ~(s.sats >= 0) => PeakOf(Values(M, "peak-altitude"), w.alt, 25)
    <3> SUFFICES ASSUME ~(s.sats >= 0) PROVE PeakOf(Values(M, "peak-altitude"), w.alt, 25)
      OBVIOUS
    <3>1. Hits(J, "peak-altitude") = {}
      BY Zenon DEF Reported
    <3>2. {h.value : h \in Hits(J, "peak-altitude")} = {}
      BY <3>1
    <3>3. Values(M, "peak-altitude") = Values(L, "peak-altitude")
      BY <3>2, <1>3
    <3>4. QED
      BY <3>3, <2>1
  <2>7. e.peakDist = x.dist /\ e.peakAlt = x.alt
    BY <2>1, <1>4 DEF Reported
  <2>8. QED
    BY <2>4, <2>5, <2>6, <2>7, <1>4, Zenon DEF PeaksInv
<1>7. ModeInv(M, e, x)
  <2>1. /\ (Hits(L, "failsafe") # {}) <=> w.failsafe
        /\ d.mode \in Failsafes \/ d.failsafe => w.failsafe
        /\ (Hits(L, "rth-active") # {}) <=> w.rth
        /\ d.mode = "RTH" \/ d.rth => w.rth
    BY Zenon DEF Consistent, ModeInv
  <2>2. /\ (Hits(M, "failsafe") # {}) <=> (Hits(L, "failsafe") # {} \/ Hits(J, "failsafe") # {})
        /\ (Hits(M, "rth-active") # {}) <=> (Hits(L, "rth-active") # {} \/ Hits(J, "rth-active") # {})
    BY <1>2
  <2>3. /\ s.mode \in Failsafes => d.mode \in Failsafes \/ d.failsafe \/ Hits(J, "failsafe") # {}
        /\ Hits(J, "failsafe") # {} => s.mode \in Failsafes
        /\ e.mode \in Failsafes \/ e.failsafe => s.mode \in Failsafes \/ d.mode \in Failsafes \/ d.failsafe
        /\ s.mode = "RTH" => d.mode = "RTH" \/ d.rth \/ Hits(J, "rth-active") # {}
        /\ Hits(J, "rth-active") # {} => s.mode = "RTH"
        /\ e.mode = "RTH" \/ e.rth => s.mode = "RTH" \/ d.mode = "RTH" \/ d.rth
    BY Zenon DEF Reported
  <2>4. /\ x.rth <=> w.rth \/ s.mode = "RTH"
        /\ x.failsafe <=> w.failsafe \/ s.mode \in Failsafes
    BY <1>4, Zenon
  <2> HIDE DEF x, M
  <2>5. /\ (Hits(M, "failsafe") # {}) <=> x.failsafe
        /\ e.mode \in Failsafes \/ e.failsafe => x.failsafe
    BY <2>1, <2>2, <2>3, <2>4, Zenon
  <2>6. /\ (Hits(M, "rth-active") # {}) <=> x.rth
        /\ e.mode = "RTH" \/ e.rth => x.rth
    BY <2>1, <2>2, <2>3, <2>4, Zenon
  <2>7. QED
    BY <2>5, <2>6, Zenon DEF ModeInv
<1>8. BatteryInv(M, e, x, clock)
  <2> DEFINE ha == s.cell > 0 /\ Band(s.cell) = 2
             hb == s.cell > 0 /\ Band(s.cell) = 1
             ca == ha /\ d.battery # 2
             cb == hb /\ d.battery = 0
  <2>1. /\ w.low \in -1..clock /\ w.critical \in -1..clock
        /\ d.battery = 2 => w.critical >= 0
        /\ d.battery = 1 => w.low >= 0 \/ w.critical >= 0
        /\ FirstOf(Times(L, "battery-critical"), w.critical)
        /\ w.critical < 0 => FirstOf(Times(L, "battery-low"), w.low)
    BY DEF Consistent, BatteryInv
  <2>2. Event("battery-critical", s.cell).at = clock /\ Event("battery-low", s.cell).at = clock
    BY DEF Event
  <2>3. Hits(J, "battery-critical") = (IF ca THEN {Event("battery-critical", s.cell)} ELSE {})
        /\ Hits(J, "battery-low") = (IF cb THEN {Event("battery-low", s.cell)} ELSE {})
        /\ e.battery = IF s.cell > 0 THEN Band(s.cell) ELSE d.battery
    BY DEF Reported
  <2>4. /\ ca => ha
        /\ cb => hb
        /\ w.critical < 0 /\ ha => ca
        /\ w.critical < 0 /\ w.low < 0 /\ hb => cb
        /\ e.battery = 2 => ha \/ d.battery = 2
        /\ e.battery = 1 => hb \/ d.battery = 1
    BY <2>1, <2>3, <1>0
  <2> HIDE DEF ha, hb, ca, cb
  <2>5. /\ {h.at : h \in Hits(J, "battery-critical")} = IF ca THEN {clock} ELSE {}
        /\ {h.at : h \in Hits(J, "battery-low")} = IF cb THEN {clock} ELSE {}
    BY <2>2, <2>3
  <2>6. /\ Times(M, "battery-critical") = Times(L, "battery-critical") \cup (IF ca THEN {clock} ELSE {})
        /\ Times(M, "battery-low") = Times(L, "battery-low") \cup (IF cb THEN {clock} ELSE {})
    BY <1>3, <2>5, Zenon
  <2>7. Times(L, "battery-critical") \in SUBSET Nat /\ Times(L, "battery-low") \in SUBSET Nat
    BY <1>1, HitTypes
  <2>8. x.critical = First(w.critical, ha) /\ x.low = First(w.low, hb)
    BY <1>4, Zenon DEF ha, hb
  <2>9. /\ FirstOf(Times(M, "battery-critical"), x.critical) /\ x.critical \in -1..clock
        /\ ha \/ w.critical >= 0 => x.critical >= 0
        /\ x.critical < 0 => w.critical < 0 /\ ~ha
    <3>1. w.critical < 0 /\ ha => ca
      BY <2>4
    <3>2. /\ FirstOf(Times(M, "battery-critical"), First(w.critical, ha)) /\ First(w.critical, ha) \in -1..clock
          /\ ha \/ w.critical >= 0 => First(w.critical, ha) >= 0
          /\ First(w.critical, ha) < 0 => w.critical < 0 /\ ~ha
      BY <3>1, <2>1, <2>4, <2>6, <2>7, FirstStays, Zenon
    <3>3. QED
      BY <3>2, <2>8, Zenon
  <2>10. /\ x.low \in -1..clock
         /\ hb \/ w.low >= 0 => x.low >= 0
    BY <2>1, <2>8 DEF First
  <2>11. x.critical < 0 => FirstOf(Times(M, "battery-low"), x.low)
    <3> SUFFICES ASSUME x.critical < 0 PROVE FirstOf(Times(M, "battery-low"), First(w.low, hb))
      BY <2>8, Zenon
    <3>1. w.critical < 0
      BY <2>9, Zenon
    <3>2. FirstOf(Times(L, "battery-low"), w.low)
      BY <2>1, <3>1, Zenon
    <3>3. w.low < 0 /\ hb => cb
      BY <3>1, <2>4, Zenon
    <3>4. QED
      BY <3>2, <3>3, <2>1, <2>4, <2>6, <2>7, FirstStays, Zenon
  <2> HIDE DEF x, M
  <2>12. e.battery = 2 => x.critical >= 0
    BY <2>1, <2>4, <2>9, Zenon
  <2>13. e.battery = 1 => x.low >= 0 \/ x.critical >= 0
    BY <2>1, <2>4, <2>9, <2>10, Zenon
  <2>14. QED
    BY <2>9, <2>10, <2>11, <2>12, <2>13, Zenon DEF BatteryInv
<1>9. LogInv(M, e)
  BY DEF Reported
<1>10. QED
  BY <1>5, <1>6, <1>7, <1>8, <1>9, Zenon DEF Consistent

-----------------------------------------------------------------------------
(* Numbers, cut into tracks.                                                 *)

SumAt(s, f, i) == IF i = 0 THEN 0 ELSE f[i - 1] + s[i]

\* The sum of the first i of at most four.
Upto(s, i) ==
    IF i = 0 THEN 0 ELSE IF i = 1 THEN s[1] ELSE IF i = 2 THEN s[1] + s[2]
    ELSE IF i = 3 THEN s[1] + s[2] + s[3] ELSE s[1] + s[2] + s[3] + s[4]

LEMMA SumShort ==
    ASSUME NEW s \in Seq(Nat), Len(s) <= 4
    PROVE  SumOf(s) = Upto(s, Len(s)) /\ SumOf(s) \in Nat
<1> DEFINE n == Len(s)
           f == [i \in 0..n |-> Upto(s, i)]
           g == CHOOSE h : h = [i \in 0..n |-> SumAt(s, h, i)]
<1>0. n \in 0..4 /\ \A i \in 1..n : s[i] \in Nat
  <2>1. n \in Nat
    BY LenProperties
  <2>2. \A i \in 1..n : s[i] \in Nat
    BY ElementOfSeq
  <2>3. \A k \in Nat : k <= 4 => k \in 0..4
    OBVIOUS
  <2>4. n \in 0..4
    BY <2>1, <2>3, Zenon
  <2>5. QED
    BY <2>2, <2>4, Zenon
<1>1. ASSUME NEW i \in 0..n PROVE Upto(s, i) = SumAt(s, f, i)
  <2>1. CASE i = 0
    BY <2>1 DEF Upto, SumAt
  <2>2. CASE i # 0
    <3>1. i - 1 \in 0..n /\ f[i - 1] = Upto(s, i - 1)
      BY <2>2, <1>0
    <3>2. Upto(s, i) = Upto(s, i - 1) + s[i]
      BY <2>2, <1>0 DEF Upto
    <3>3. QED
      BY <2>2, <3>1, <3>2, Zenon DEF SumAt
  <2>3. QED
    BY <2>1, <2>2
<1>2. f = [i \in 0..n |-> SumAt(s, f, i)]
  <2> HIDE DEF n
  <2>1. QED
    BY <1>1
<1>3. g = [i \in 0..n |-> SumAt(s, g, i)]
  <2> HIDE DEF f
  <2>1. QED
    BY <1>2, Zenon
<1>4. SumOf(s) = g[n]
  BY DEF SumOf, SumAt
<1> HIDE DEF g, f
<1>5. \A i \in 0..n : g[i] = IF i = 0 THEN 0 ELSE g[i - 1] + s[i]
  <2> HIDE DEF n
  <2>1. \A i \in 0..n : g[i] = SumAt(s, g, i)
    BY <1>3
  <2>2. QED
    BY <2>1 DEF SumAt
<1>6. g[n] = Upto(s, n) /\ Upto(s, n) \in Nat
  <2>1. g[0] = 0
    BY <1>0, <1>5
  <2>2. n >= 1 => g[1] = s[1] /\ s[1] \in Nat
    BY <1>0, <1>5, <2>1
  <2>3. n >= 2 => g[2] = s[1] + s[2] /\ s[2] \in Nat
    BY <1>0, <1>5, <2>2
  <2>4. n >= 3 => g[3] = s[1] + s[2] + s[3] /\ s[3] \in Nat
    BY <1>0, <1>5, <2>3
  <2>5. n >= 4 => g[4] = s[1] + s[2] + s[3] + s[4] /\ s[4] \in Nat
    BY <1>0, <1>5, <2>4
  <2>6. n = 0 \/ n = 1 \/ n = 2 \/ n = 3 \/ n = 4
    BY <1>0
  <2> HIDE DEF n
  <2>7. CASE n = 0
    BY <2>1, <2>7 DEF Upto
  <2>8. CASE n = 1
    BY <2>2, <2>8 DEF Upto
  <2>9. CASE n = 2
    BY <2>2, <2>3, <2>9 DEF Upto
  <2>10. CASE n = 3
    BY <2>2, <2>3, <2>4, <2>10 DEF Upto
  <2>11. CASE n = 4
    <3>1. /\ s[1] \in Nat /\ s[2] \in Nat /\ s[3] \in Nat /\ s[4] \in Nat
          /\ g[4] = s[1] + s[2] + s[3] + s[4]
      BY <2>2, <2>3, <2>4, <2>5, <2>11
    <3>2. Upto(s, 4) = s[1] + s[2] + s[3] + s[4]
      BY DEF Upto
    <3>3. \A h, i, j, k \in Nat : h + i + j + k \in Nat
      OBVIOUS
    <3>4. s[1] + s[2] + s[3] + s[4] \in Nat
      BY <3>1, <3>3, Zenon
    <3>5. QED
      BY <2>11, <3>1, <3>2, <3>4, Zenon
  <2>12. QED
    BY <2>6, <2>7, <2>8, <2>9, <2>10, <2>11
<1>7. QED
  BY <1>4, <1>6

\* Parts p whose sum is x, at most m of them, from the tracks of T.
Cut(p, m, x, T) == p \in Seq(Nat) /\ Len(p) <= m /\ SumOf(p) = x /\ ToSet(p) \subseteq T

LEMMA PartAdded ==
    ASSUME NEW p, NEW m \in 0..3, NEW x \in Nat, NEW T, Cut(p, m, x, T), NEW a \in Nat, a = 0 \/ a \in T
    PROVE  Cut(p \o Part(a), m + 1, x + a, T)
<1>0. p \in Seq(Nat) /\ Len(p) <= m /\ SumOf(p) = x /\ ToSet(p) \subseteq T /\ Len(p) \in Nat
  BY LenProperties DEF Cut
<1>1. CASE a = 0
  <2>1. Part(a) = <<>>
    BY <1>1 DEF Part
  <2>2. p \o <<>> = p
    BY <1>0, ConcatEmptySeq
  <2>3. Len(p) <= m + 1 /\ x + a = x
    BY <1>0, <1>1
  <2>4. p \o Part(a) = p
    BY <2>1, <2>2
  <2>5. QED
    BY <1>0, <2>3, <2>4, Zenon DEF Cut
<1>2. CASE a # 0
  <2> DEFINE q == p \o <<a>>
             n == Len(p)
  <2>1. Part(a) = <<a>>
    BY <1>2 DEF Part
  <2>2. <<a>> \in Seq(Nat) /\ Len(<<a>>) = 1 /\ <<a>>[1] = a
    OBVIOUS
  <2>3. /\ q \in Seq(Nat) /\ Len(q) = n + 1
        /\ \A i \in 1..n + 1 : q[i] = IF i <= n THEN p[i] ELSE <<a>>[i - n]
    BY <2>2, <1>0, ConcatProperties
  <2>4. q[n + 1] = a /\ \A i \in 1..n : q[i] = p[i]
    <3>1. n \in Nat
      BY <1>0
    <3>2. \A i \in 1..n : i \in 1..n + 1 /\ i <= n
      BY <1>0
    <3> HIDE DEF q, n
    <3>2a. ASSUME NEW j, j = n + 1 PROVE q[j] = a
      <4>1. j \in 1..n + 1 /\ ~(j <= n) /\ j - n = 1
        BY <3>1, <3>2a
      <4>2. q[j] = IF j <= n THEN p[j] ELSE <<a>>[j - n]
        BY <2>3, <4>1
      <4>3. QED
        BY <2>2, <4>1, <4>2
    <3>3. q[n + 1] = a
      BY <3>2a
    <3>4. QED
      BY <2>2, <2>3, <3>2, <3>3
  <2>5. DOMAIN q = 1..n + 1 /\ DOMAIN p = 1..n
    BY <2>3, <1>0, LenProperties
  <2>6. \A i \in 1..n : p[i] \in Nat
    BY <1>0, ElementOfSeq
  <2> HIDE DEF q, n
  <2>7. ToSet(q) \subseteq T
    <3>1. ASSUME NEW i \in DOMAIN q PROVE q[i] \in T
      <4>1. CASE i = n + 1
        BY <4>1, <2>4, <1>2
      <4>2. CASE i # n + 1
        <5>1. i \in 1..n
          BY <4>2, <2>5, <1>0 DEF n
        <5>2. p[i] \in ToSet(p)
          BY <5>1, <2>5 DEF ToSet
        <5>3. QED
          BY <5>1, <5>2, <2>4, <1>0
      <4>3. QED
        BY <4>1, <4>2
    <3>2. QED
      BY <3>1 DEF ToSet
  <2>8. SumOf(q) = x + a
    <3>0. n \in 0..3 /\ Len(p) <= 4
      <4>1. \A k \in Nat, j \in 0..3 : k <= j => k \in 0..3 /\ k <= 4
        OBVIOUS
      <4>2. QED
        BY <4>1, <1>0, Zenon DEF n
    <3>1. SumOf(p) = Upto(p, n) /\ n \in 0..3
      BY <3>0, <1>0, SumShort, Zenon DEF n
    <3>2. SumOf(q) = Upto(q, n + 1)
      <4>1. Len(q) <= 4
        BY <2>3, <3>1
      <4>2. QED
        BY <4>1, <2>3, SumShort
    <3>3. Upto(q, n + 1) = Upto(p, n) + a
      <4>1. n = 0 \/ n = 1 \/ n = 2 \/ n = 3
        BY <3>1
      <4>2. CASE n = 0
        BY <4>2, <2>4 DEF Upto
      <4>3. CASE n = 1
        BY <4>3, <2>4, <2>6 DEF Upto
      <4>4. CASE n = 2
        BY <4>4, <2>4, <2>6 DEF Upto
      <4>5. CASE n = 3
        BY <4>5, <2>4, <2>6 DEF Upto
      <4>6. QED
        BY <4>1, <4>2, <4>3, <4>4, <4>5
    <3>4. QED
      BY <3>1, <3>2, <3>3, <1>0
  <2>9. Len(q) <= m + 1
    BY <2>3, <1>0 DEF n
  <2>10. QED
    BY <2>1, <2>3, <2>7, <2>8, <2>9 DEF Cut, q
<1>3. QED
  BY <1>1, <1>2

LEMMA EmptyCut == \A T : Cut(<<>>, 0, 0, T)
<1>1. <<>> \in Seq(Nat) /\ Len(<<>>) = 0 /\ ToSet(<<>>) = {}
  BY EmptySeq DEF ToSet
<1>2. SumOf(<<>>) = 0
  <2>1. Len(<<>>) <= 4
    BY <1>1
  <2>2. SumOf(<<>>) = Upto(<<>>, Len(<<>>))
    BY <1>1, <2>1, SumShort, Zenon
  <2>3. QED
    BY <1>1, <2>2 DEF Upto
<1>3. QED
  BY <1>1, <1>2 DEF Cut

LEMMA OnePart == ASSUME NEW a \in Nat PROVE Cut(<<a>>, 1, a, {a})
<1> DEFINE t == <<a>>
<1>1. t \in Seq(Nat) /\ Len(t) = 1 /\ t[1] = a /\ ToSet(t) = {a}
  BY DEF ToSet
<1> HIDE DEF t
<1>2. Len(t) <= 4
  BY <1>1
<1>3. SumOf(t) = Upto(t, Len(t))
  BY <1>1, <1>2, SumShort
<1>4. Cut(t, 1, a, {a})
  BY <1>1, <1>3 DEF Upto, Cut
<1>5. QED
  BY <1>4 DEF t

LEMMA FourParts ==
    ASSUME NEW T, NEW a \in Nat, NEW b \in Nat, NEW c \in Nat, NEW d \in Nat,
           a = 0 \/ a \in T, b = 0 \/ b \in T, c = 0 \/ c \in T, d = 0 \/ d \in T
    PROVE  Cut(((Part(a) \o Part(b)) \o Part(c)) \o Part(d), 4, a + b + c + d, T)
<1>1. Cut(Part(a), 1, a, T)
  <2>1. Cut(<<>> \o Part(a), 0 + 1, 0 + a, T)
    <3>1. 0 \in 0..3 /\ 0 \in Nat
      OBVIOUS
    <3>2. Cut(<<>>, 0, 0, T)
      BY EmptyCut
    <3>3. QED
      BY <3>1, <3>2, PartAdded, Zenon
  <2>2. Part(a) \in Seq(Nat)
    <3>1. <<a>> \in Seq(Nat) /\ <<>> \in Seq(Nat)
      OBVIOUS
    <3>2. QED
      BY <3>1, Zenon DEF Part
  <2>3. <<>> \o Part(a) = Part(a)
    BY <2>2, ConcatEmptySeq
  <2>4. 0 + 1 = 1 /\ 0 + a = a
    OBVIOUS
  <2>5. QED
    BY <2>1, <2>3, <2>4
<1>2. Cut(Part(a) \o Part(b), 2, a + b, T)
  <2>1. 1 \in 0..3 /\ 1 + 1 = 2
    OBVIOUS
  <2>2. Cut(Part(a) \o Part(b), 1 + 1, a + b, T)
    BY <2>1, <1>1, PartAdded, Zenon
  <2>3. QED
    BY <2>1, <2>2
<1>3. Cut((Part(a) \o Part(b)) \o Part(c), 3, a + b + c, T)
  <2>1. 2 \in 0..3 /\ 2 + 1 = 3 /\ a + b \in Nat
    OBVIOUS
  <2>2. Cut((Part(a) \o Part(b)) \o Part(c), 2 + 1, (a + b) + c, T)
    BY <2>1, <1>2, PartAdded, Zenon
  <2>3. QED
    BY <2>1, <2>2
<1>4. Cut(((Part(a) \o Part(b)) \o Part(c)) \o Part(d), 4, a + b + c + d, T)
  <2>1. 3 \in 0..3 /\ 3 + 1 = 4 /\ a + b + c \in Nat
    OBVIOUS
  <2>2. Cut(((Part(a) \o Part(b)) \o Part(c)) \o Part(d), 3 + 1, (a + b + c) + d, T)
    BY <2>1, <1>3, PartAdded, Zenon
  <2>3. QED
    BY <2>1, <2>2
<1>5. QED
  BY <1>4

LEMMA ManyFragments ==
    ASSUME NEW n \in Nat, ~(n <= 30)
    PROVE  NumberFragments(n) =
             LET thousands == IF n >= 10000 THEN 9000 ELSE (n \div 1000) * 1000
                 hundreds  == ((n - thousands) \div 100) * 100
                 rest      == n - thousands - hundreds
                 tens      == IF rest >= 30 THEN (rest \div 10) * 10 ELSE 0
             IN Part(thousands) \o Part(hundreds) \o Part(tens) \o Part(rest - tens)
  BY SMT DEF NumberFragments

FourDigits(n) == n < 10000

\* A number of at most four digits is spoken with tracks that exist and add up
\* to it (narrator.go numberFragments).
THEOREM NumberIsSpoken ==
    ASSUME NEW n \in Nat, FourDigits(n)
    PROVE  SumOf(NumberFragments(n)) = n /\ ToSet(NumberFragments(n)) \subseteq Tracks
<1> DEFINE a == IF n >= 10000 THEN 9000 ELSE (n \div 1000) * 1000
           b == ((n - a) \div 100) * 100
           r == n - a - b
           c == IF r >= 30 THEN (r \div 10) * 10 ELSE 0
           d == r - c
<1>0. n \in Nat /\ ~(n >= 10000)
  BY DEF FourDigits
<1>1. CASE n <= 30
  <2>1. NumberFragments(n) = <<n>>
    BY <1>1 DEF NumberFragments
  <2>2. SumOf(<<n>>) = n /\ ToSet(<<n>>) \subseteq {n}
    BY <1>0, OnePart DEF Cut
  <2>4. n \in Tracks
    <3>1. n \in 0..30
      BY <1>0, <1>1
    <3>2. QED
      BY <3>1 DEF Tracks
  <2>5. QED
    BY <2>1, <2>2, <2>4
<1>2. CASE ~(n <= 30)
  <2>1. NumberFragments(n) = ((Part(a) \o Part(b)) \o Part(c)) \o Part(d)
    BY <1>2, ManyFragments
  <2>2. /\ a \in Nat /\ n - a \in 0..999 /\ a = (n \div 1000) * 1000 /\ n \div 1000 \in 0..9
    <3>1. \A z \in Nat : z < 10000 => /\ (z \div 1000) * 1000 \in Nat /\ z - (z \div 1000) * 1000 \in 0..999
                                      /\ z \div 1000 \in 0..9
      OBVIOUS
    <3>1a. n < 10000
      BY <1>0
    <3>2. a = (n \div 1000) * 1000
      BY <1>0
    <3> HIDE DEF a
    <3>3. QED
      BY <3>1, <3>1a, <3>2, <1>0
  <2>3. /\ b \in Nat /\ r \in 0..99 /\ b = ((n - a) \div 100) * 100 /\ (n - a) \div 100 \in 0..9
    <3> DEFINE x == n - a
    <3>1. x \in 0..999
      BY <2>2
    <3> HIDE DEF x
    <3>2. (x \div 100) * 100 \in Nat /\ x - (x \div 100) * 100 \in 0..99 /\ x \div 100 \in 0..9
      BY <3>1
    <3>3. QED
      BY <3>2 DEF x
  <2>4. /\ c \in Nat /\ d \in 0..29
        /\ c = 0 \/ (c = (r \div 10) * 10 /\ r \div 10 \in 3..9)
    <3> HIDE DEF r
    <3>1. QED
      BY <2>3
  <2>5. a + b + c + d = n /\ a \in Nat /\ b \in Nat /\ c \in Nat /\ d \in Nat
    <3>1. n - a - b = r /\ r - c = d
      OBVIOUS
    <3>2. a \in Nat /\ b \in Nat /\ r \in Nat /\ c \in Nat /\ d \in Nat
      BY <2>2, <2>3, <2>4
    <3> HIDE DEF a, b, c, d, r
    <3>3. QED
      BY <3>1, <3>2
  <2>6. a = 0 \/ a \in Tracks
    <3> DEFINE k == n \div 1000
    <3>1. a = k * 1000 /\ k \in 0..9
      BY <2>2
    <3> HIDE DEF a, k
    <3>2. QED
      BY <3>1 DEF Tracks
  <2>7. b = 0 \/ b \in Tracks
    <3> DEFINE k == (n - a) \div 100
    <3>1. b = k * 100 /\ k \in 0..9
      BY <2>3
    <3> HIDE DEF b, k
    <3>2. QED
      BY <3>1 DEF Tracks
  <2>8. c = 0 \/ c \in Tracks
    <3> DEFINE k == r \div 10
    <3>1. c = 0 \/ (c = k * 10 /\ k \in 3..9)
      BY <2>4
    <3> HIDE DEF c, k
    <3>2. QED
      BY <3>1 DEF Tracks
  <2>9. d = 0 \/ d \in Tracks
    BY <2>4 DEF Tracks
  <2> HIDE DEF a, b, c, d, r
  <2>14. Cut(((Part(a) \o Part(b)) \o Part(c)) \o Part(d), 4, a + b + c + d, Tracks)
    BY <2>5, <2>6, <2>7, <2>8, <2>9, FourParts, Zenon
  <2>15. QED
    BY <2>1, <2>5, <2>14 DEF Cut
<1>3. QED
  BY <1>1, <1>2

-----------------------------------------------------------------------------
(* The highest and the earliest.                                             *)

LEMMA HighestIs ==
    ASSUME NEW V \in SUBSET Int, NEW m \in V \cup {0}, \A w \in V \cup {0} : w <= m
    PROVE  Highest(V) = m
<1>1. \A k \in V \cup {0} : (\A w \in V \cup {0} : w <= k) => k = m
  <2>1. ASSUME NEW k \in V \cup {0}, \A w \in V \cup {0} : w <= k PROVE k = m
    <3>1. m <= k /\ k <= m /\ k \in Int /\ m \in Int
      BY <2>1
    <3>2. QED
      BY <3>1
  <2>2. QED
    BY <2>1
<1> DEFINE h == CHOOSE v \in V \cup {0} : \A w \in V \cup {0} : w <= v
<1>2. h \in V \cup {0} /\ \A w \in V \cup {0} : w <= h
  BY Zenon
<1>3. Highest(V) = h
  BY DEF Highest
<1> HIDE DEF h
<1>4. QED
  BY <1>1, <1>2, <1>3, Zenon

LEMMA HighestBelow ==
    ASSUME NEW V \in SUBSET Int, NEW limit \in Nat \ {0}, \A v \in V : v < limit
    PROVE  /\ Highest(V) \in V \cup {0} /\ Highest(V) \in Nat /\ Highest(V) < limit
           /\ \A v \in V : v <= Highest(V)
<1> DEFINE T == {limit - v : v \in V \cup {0}}
<1>1. \A v \in V \cup {0} : v \in Int /\ v < limit
  OBVIOUS
<1>2. T \in SUBSET Int /\ \A x \in T : x > 0
  BY <1>1
<1>2a. T \in SUBSET Nat /\ limit \in T
  <2>1. limit - 0 = limit
    OBVIOUS
  <2>2. limit \in T
    BY <2>1
  <2> HIDE DEF T
  <2>3. QED
    BY <1>2, <2>2
<1>3. PICK x \in T : \A y \in T : x <= y
  <2> HIDE DEF T
  <2>1. T # {}
    BY <1>2a
  <2>2. QED
    BY <1>2a, <2>1, LeastNat
<1>4. PICK m \in V \cup {0} : x = limit - m
  OBVIOUS
<1>5. ASSUME NEW w \in V \cup {0} PROVE w <= m
  <2>1. limit - w \in T
    OBVIOUS
  <2>2. x <= limit - w
    BY <2>1, <1>3
  <2>3. limit \in Int /\ m \in Int /\ w \in Int /\ limit - m <= limit - w
    BY <1>1, <1>4, <2>2
  <2> HIDE DEF T
  <2>4. QED
    BY <2>3
<1>6. Highest(V) = m
  BY <1>5, HighestIs
<1>7. m \in Nat /\ m < limit
  <2>1. m \in Int /\ m < limit /\ 0 <= m
    BY <1>1, <1>5
  <2>2. QED
    BY <2>1
<1>8. QED
  BY <1>4, <1>5, <1>6, <1>7

LEMMA EarliestIs ==
    ASSUME NEW T \in SUBSET Nat, NEW t, FirstOf(T, t)
    PROVE  Earliest(T) = t
<1>1. CASE T = {}
  BY <1>1, Zenon DEF FirstOf, Earliest
<1>2. CASE T # {}
  <2>1. t \in T /\ \A u \in T : t <= u
    BY <1>2, Zenon DEF FirstOf
  <2> DEFINE k == CHOOSE i \in T : \A u \in T : i <= u
  <2>2. Earliest(T) = k
    BY <1>2 DEF Earliest
  <2>3. k \in T /\ \A u \in T : k <= u
    BY <2>1, Zenon
  <2> HIDE DEF k
  <2>4. k <= t /\ t <= k /\ k \in Int /\ t \in Int
    BY <2>1, <2>3
  <2>5. k = t
    BY <2>4
  <2>6. QED
    BY <2>2, <2>5
<1>3. QED
  BY <1>1, <1>2

LEMMA EarliestIn == ASSUME NEW T \in SUBSET Nat, T # {} PROVE Earliest(T) \in T
<1>1. PICK t \in T : \A u \in T : t <= u
  BY LeastNat
<1>2. FirstOf(T, t)
  BY <1>1 DEF FirstOf
<1>3. QED
  BY <1>2, EarliestIs

-----------------------------------------------------------------------------
(* The tracks of a flight.                                                   *)

Spans(t) == t < 600000
LowEnough(m) == m < 9995
Units == {"minutes", "seconds", "meters", "kmh", "percent", "criticals", "warnings"}
Phrases == {Phrase(n, u) : n \in {k \in Nat : FourDigits(k)}, u \in Units}

\* The numbers said with a unit.
Said(p, unit) == {SumOf(p[i].number) : i \in {j \in DOMAIN p : p[j].unit = unit}}

\* Both say what the third says.
SayBoth(p, q, J) == J \in Seq(Phrases) /\ \A u : Said(J, u) = Said(p, u) \cup Said(q, u)

LEMMA SaidJoined ==
    ASSUME NEW p \in Seq(Phrases), NEW q \in Seq(Phrases), NEW unit
    PROVE  p \o q \in Seq(Phrases) /\ Said(p \o q, unit) = Said(p, unit) \cup Said(q, unit)
<1> DEFINE J == p \o q
           m == Len(p)
           n == Len(q)
<1>1. /\ J \in Seq(Phrases) /\ Len(J) = m + n /\ \A i \in 1..m + n : J[i] = IF i <= m THEN p[i] ELSE q[i - m]
  BY ConcatProperties
<1>2. m \in Nat /\ n \in Nat /\ DOMAIN p = 1..m /\ DOMAIN q = 1..n /\ DOMAIN J = 1..m + n
  BY <1>1, LenProperties
<1> HIDE DEF J, m, n
<1>3. \A i \in 1..m : i \in 1..m + n /\ J[i] = p[i]
  <2>1. \A i \in 1..m : i \in 1..m + n /\ i <= m
    BY <1>2
  <2>2. QED
    BY <1>1, <2>1
<1>4. ASSUME NEW i \in 1..n PROVE m + i \in 1..m + n /\ J[m + i] = q[i]
  <2>1. ASSUME NEW j, j = m + i PROVE j \in 1..m + n /\ J[j] = q[i]
    <3>1. j \in 1..m + n /\ ~(j <= m)
      BY <1>2, <2>1
    <3>2. J[j] = q[j - m]
      BY <1>1, <3>1, Zenon
    <3>3. j - m = i
      BY <1>2, <2>1
    <3>4. QED
      BY <3>1, <3>2, <3>3
  <2>2. QED
    BY <2>1, Zenon
<1>5. ASSUME NEW x \in Said(J, unit) PROVE x \in Said(p, unit) \cup Said(q, unit)
  <2>1. PICK i \in DOMAIN J : J[i].unit = unit /\ x = SumOf(J[i].number)
    BY DEF Said
  <2>2. CASE i \in 1..m
    BY <2>1, <2>2, <1>2, <1>3 DEF Said
  <2>3. CASE i \notin 1..m
    <3>1. i - m \in 1..n /\ m + (i - m) = i
      BY <2>3, <1>2
    <3>2. J[i] = q[i - m]
      BY <3>1, <1>4
    <3>3. QED
      BY <3>1, <3>2, <2>1, <1>2 DEF Said
  <2>4. QED
    BY <2>2, <2>3
<1>6. Said(p, unit) \subseteq Said(J, unit)
  BY <1>2, <1>3 DEF Said
<1>7. Said(q, unit) \subseteq Said(J, unit)
  BY <1>2, <1>4 DEF Said
<1>8. QED
  BY <1>1, <1>5, <1>6, <1>7 DEF J

LEMMA BothSaid == ASSUME NEW p \in Seq(Phrases), NEW q \in Seq(Phrases) PROVE SayBoth(p, q, p \o q)
<1>1. ASSUME NEW u PROVE p \o q \in Seq(Phrases) /\ Said(p \o q, u) = Said(p, u) \cup Said(q, u)
  BY SaidJoined
<1>2. p \o q \in Seq(Phrases)
  BY <1>1, Zenon
<1>3. QED
  BY <1>1, <1>2, Zenon DEF SayBoth

\* A number that may be said.
MaySay(c, n, unit) == IF c THEN <<Phrase(n, unit)>> ELSE <<>>

LEMMA MaySayFacts ==
    ASSUME NEW c, NEW n, c => n \in Nat /\ FourDigits(n), NEW unit \in Units
    PROVE  /\ MaySay(c, n, unit) \in Seq(Phrases)
           /\ \A u : Said(MaySay(c, n, unit), u) = IF c /\ u = unit THEN {n} ELSE {}
<1>1. CASE c
  <2> DEFINE e == Phrase(n, unit)
             p == <<e>>
  <2>1. n \in Nat /\ FourDigits(n)
    BY <1>1, Zenon
  <2>2. e \in Phrases
    BY <2>1 DEF Phrases
  <2>3. e.unit = unit /\ SumOf(e.number) = n
    <3>1. e.unit = unit /\ e.number = NumberFragments(n)
      BY DEF Phrase
    <3>2. QED
      BY <2>1, <3>1, NumberIsSpoken
  <2> HIDE DEF e
  <2>4. p \in Seq(Phrases) /\ DOMAIN p = {1} /\ p[1] = e
    BY <2>2
  <2> HIDE DEF p
  <2>5. \A u : Said(p, u) = IF u = unit THEN {n} ELSE {}
    BY <2>3, <2>4 DEF Said
  <2>6. MaySay(c, n, unit) = p
    BY <1>1, Zenon DEF MaySay, p, e
  <2>7. QED
    BY <1>1, <2>4, <2>5, <2>6, Zenon
<1>2. CASE ~c
  <2>1. MaySay(c, n, unit) = <<>>
    BY <1>2, Zenon DEF MaySay
  <2>2. DOMAIN <<>> = {}
    OBVIOUS
  <2>3. \A u : Said(<<>>, u) = {}
    BY <2>2, Zenon DEF Said
  <2>4. QED
    BY <1>2, <2>1, <2>3, EmptySeq, Zenon
<1>3. QED
  BY <1>1, <1>2

LEMMA PercentBounds == ASSUME NEW from \in Int, NEW to \in Int PROVE UsedPercent(from, to) \in 0..100
<1> DEFINE cells == CHOOSE n \in 1..12 : n = 12 \/ (420 * n >= from /\ (n = 1 \/ 420 * (n - 1) < from))
           Charge(v) == IF v < 330 * cells THEN 0 ELSE IF v > 420 * cells THEN 90 * cells ELSE v - 330 * cells
           u == (200 * (Charge(from) - Charge(to)) + 90 * cells) \div (180 * cells)
<1>1. cells \in 1..12
  <2>1. 12 \in 1..12 /\ 12 = 12
    OBVIOUS
  <2>2. \E n \in 1..12 : n = 12 \/ (420 * n >= from /\ (n = 1 \/ 420 * (n - 1) < from))
    BY <2>1
  <2>3. QED
    BY <2>2, Zenon
<1>2. UsedPercent(from, to) = Maximum(0, u)
  BY DEF UsedPercent
<1> HIDE DEF cells
<1>3. Charge(from) \in 0..90 * cells /\ Charge(to) \in 0..90 * cells
  BY <1>1
<1> DEFINE x == Charge(from)
           y == Charge(to)
<1>4. x \in Int /\ y \in Int /\ x >= 0 /\ y >= 0 /\ x <= 90 * cells /\ y <= 90 * cells
  BY <1>1, <1>3
<1> HIDE DEF x, y
<1>5. \A m \in Int, k \in 1..12 : m <= 18090 * k => m \div (180 * k) <= 100 /\ m \div (180 * k) \in Int
  <2>1. ASSUME NEW m \in Int, NEW k \in 1..12, m <= 18090 * k
        PROVE  m \div (180 * k) <= 100 /\ m \div (180 * k) \in Int
    <3>1. k = 1 \/ k = 2 \/ k = 3 \/ k = 4 \/ k = 5 \/ k = 6 \/ k = 7 \/ k = 8 \/ k = 9 \/ k = 10 \/ k = 11 \/ k = 12
      OBVIOUS
    <3>2. QED
      BY <2>1, <3>1
  <2>2. QED
    BY <2>1
<1>6. 200 * (x - y) + 90 * cells \in Int /\ 200 * (x - y) + 90 * cells <= 18090 * cells
  BY <1>1, <1>4
<1>7. u <= 100 /\ u \in Int
  BY <1>1, <1>5, <1>6 DEF x, y
<1> HIDE DEF u
<1>8. QED
  BY <1>2, <1>7 DEF Maximum

AltitudeSaid(m) == IF m > 100 THEN RoundToStep(m, 10) ELSE m

TimeSaid(t) == MaySay(t >= 60, t \div 60, "minutes") \o MaySay(t % 60 > 0, t % 60, "seconds")
HeightSaid(alt) == MaySay(alt > 0, AltitudeSaid(alt), "meters")
SpeedSaid(kmh) == MaySay(kmh > 0, kmh, "kmh")
PowerSaid(used) == MaySay(used > 0, RoundToStep(used, 5), "percent")
AlarmsSaid(c, w) == MaySay(c > 1, c, "criticals") \o MaySay(c = 0 /\ w > 1, w, "warnings")

AllSaid(t, alt, kmh, used, c, w) ==
    (((TimeSaid(t) \o HeightSaid(alt)) \o SpeedSaid(kmh)) \o PowerSaid(used)) \o AlarmsSaid(c, w)

LEMMA MayJoin == \A e : <<e>> \o <<>> = <<e>> /\ <<>> \o <<e>> = <<e>> /\ <<>> \o <<>> = <<>>
<1>1. ASSUME NEW e PROVE <<e>> \o <<>> = <<e>> /\ <<>> \o <<e>> = <<e>> /\ <<>> \o <<>> = <<>>
  <2> DEFINE q == <<e>>
  <2>1. q \in Seq({e}) /\ <<>> \in Seq({e})
    OBVIOUS
  <2> HIDE DEF q
  <2>2. q \o <<>> = q /\ <<>> \o q = q /\ <<>> \o <<>> = <<>>
    BY <2>1, ConcatEmptySeq
  <2>3. QED
    BY <2>2 DEF q
<1>2. QED
  BY <1>1

LEMMA TimeIsSaid ==
    ASSUME NEW t \in Nat
    PROVE  (IF t > 0 THEN DurationFragments(t) ELSE <<>>) = TimeSaid(t)
<1>1. t \in Nat /\ t \div 60 \in Nat /\ t % 60 \in 0..59 /\ (t < 60 => t % 60 = t)
  OBVIOUS
<1> DEFINE m == Phrase(t \div 60, "minutes")
           x == Phrase(t % 60, "seconds")
<1>2. TimeSaid(t) = (IF t >= 60 THEN <<m>> ELSE <<>>) \o (IF t % 60 > 0 THEN <<x>> ELSE <<>>)
  BY Zenon DEF TimeSaid, MaySay
<1>3. CASE t = 0
  <2>1. ~(t >= 60) /\ ~(t % 60 > 0) /\ ~(t > 0)
    BY <1>3
  <2>2. TimeSaid(t) = <<>>
    BY <2>1, <1>2, MayJoin, Zenon
  <2>3. QED
    BY <2>1, <2>2, Zenon
<1>4. CASE t > 0 /\ t < 60
  <2>1. ~(t >= 60) /\ t % 60 > 0 /\ t > 0 /\ t < 60 /\ t % 60 = t
    BY <1>1, <1>4
  <2>2. TimeSaid(t) = <<x>>
    BY <2>1, <1>2, MayJoin, Zenon
  <2>3. DurationFragments(t) = <<Phrase(t, "seconds")>>
    BY <2>1, Zenon DEF DurationFragments
  <2>4. QED
    BY <2>1, <2>2, <2>3, Zenon
<1>5. CASE t >= 60
  <2>1. t >= 60 /\ ~(t < 60) /\ t > 0
    BY <1>5
  <2>2. DurationFragments(t) = <<m>> \o (IF t % 60 > 0 THEN <<x>> ELSE <<>>)
    BY <2>1, Zenon DEF DurationFragments
  <2>3. QED
    BY <2>1, <2>2, <1>2, Zenon
<1>6. QED
  BY <1>1, <1>3, <1>4, <1>5

LEMMA AlarmsAreSaid == \A c, w \in Nat : AlarmFragments(c, w) = AlarmsSaid(c, w)
<1>1. ASSUME NEW c \in Nat, NEW w \in Nat PROVE AlarmFragments(c, w) = AlarmsSaid(c, w)
  <2>1. CASE c > 1
    <3>1. c > 1 /\ ~(c = 0 /\ w > 1)
      BY <2>1
    <3>2. QED
      BY <3>1, MayJoin, Zenon DEF AlarmFragments, AlarmsSaid, MaySay
  <2>2. CASE c = 0 /\ w > 1
    <3>1. ~(c > 1) /\ c = 0 /\ w > 1
      BY <2>2
    <3>2. QED
      BY <3>1, MayJoin, Zenon DEF AlarmFragments, AlarmsSaid, MaySay
  <2>3. CASE ~(c > 1) /\ ~(c = 0 /\ w > 1)
    BY <2>3, MayJoin, Zenon DEF AlarmFragments, AlarmsSaid, MaySay
  <2>4. QED
    BY <2>1, <2>2, <2>3, Zenon
<1>2. QED
  BY <1>1, Zenon

\* The numbers of alarms that may be told.
Counts == {n \in Nat : FourDigits(n)}

FewAlarms == 0..9999

LEMMA AlarmFacts == \A alarms \in Alarms : alarms[1] \in Counts /\ alarms[2] \in Counts
<1>1. Alarms \subseteq FewAlarms \X FewAlarms
  BY SMT, StoryAssumption DEF FewAlarms
<1>2. ASSUME NEW n \in FewAlarms PROVE n \in Nat /\ FourDigits(n)
  BY SMT DEF FewAlarms, FourDigits
<1>3. \A n \in FewAlarms : n \in Counts
  BY SMT, <1>2 DEF Counts
<1>4. QED
  BY SMT, <1>1, <1>3

LEMMA StrungIs ==
    ASSUME NEW s, s.seconds \in Nat, NEW alarms \in Alarms
    PROVE  Strung(s, alarms) =
             AllSaid(s.seconds, s.alt, s.kmh, UsedPercent(s.from, s.to), alarms[1], alarms[2])
<1>1. alarms[1] \in Nat /\ alarms[2] \in Nat
  BY AlarmFacts, Zenon DEF Counts
<1>2. (IF s.seconds > 0 THEN DurationFragments(s.seconds) ELSE <<>>) = TimeSaid(s.seconds)
  BY TimeIsSaid, Zenon
<1>3. AlarmFragments(alarms[1], alarms[2]) = AlarmsSaid(alarms[1], alarms[2])
  BY <1>1, AlarmsAreSaid, Zenon
<1>4. (IF s.alt > 0 THEN <<AltitudeFragments(s.alt)>> ELSE <<>>) = HeightSaid(s.alt)
  BY Zenon DEF HeightSaid, MaySay, AltitudeFragments, AltitudeSaid
<1>5. (IF s.kmh > 0 THEN <<Phrase(s.kmh, "kmh")>> ELSE <<>>) = SpeedSaid(s.kmh)
  BY Zenon DEF SpeedSaid, MaySay
<1> DEFINE used == UsedPercent(s.from, s.to)
<1>6. (IF used > 0 THEN <<Phrase(RoundToStep(used, 5), "percent")>> ELSE <<>>) = PowerSaid(used)
  BY Zenon DEF PowerSaid, MaySay
<1>7. Strung(s, alarms) =
        (IF s.seconds > 0 THEN DurationFragments(s.seconds) ELSE <<>>)
        \o (IF s.alt > 0 THEN <<AltitudeFragments(s.alt)>> ELSE <<>>)
        \o (IF s.kmh > 0 THEN <<Phrase(s.kmh, "kmh")>> ELSE <<>>)
        \o (IF used > 0 THEN <<Phrase(RoundToStep(used, 5), "percent")>> ELSE <<>>)
        \o AlarmFragments(alarms[1], alarms[2])
  BY DEF Strung
<1>8. QED
  BY <1>2, <1>3, <1>4, <1>5, <1>6, <1>7, Zenon DEF AllSaid


LEMMA HeightFacts ==
    ASSUME NEW m \in Int, LowEnough(m), m > 0
    PROVE  AltitudeSaid(m) \in Nat /\ AltitudeSaid(m) > 0 /\ FourDigits(AltitudeSaid(m))
           /\ AltitudeSaid(m) - m \in -5..5
<1>1. CASE m > 100
  <2>1. AltitudeSaid(m) = IF 2 * (m % 10) >= 10 THEN m + 10 - (m % 10) ELSE m - (m % 10)
    BY <1>1 DEF AltitudeSaid, RoundToStep
  <2>2. m % 10 \in 0..9
    OBVIOUS
  <2>3. QED
    BY <2>1, <2>2, <1>1 DEF FourDigits, LowEnough
<1>2. CASE ~(m > 100)
  BY <1>2 DEF AltitudeSaid, FourDigits, LowEnough
<1>3. QED
  BY <1>1, <1>2

\* Whether a sequence of phrases says the number, with that unit and no other.
Says(p, c, n, unit) == p \in Seq(Phrases) /\ \A u : Said(p, u) = IF c /\ u = unit THEN {n} ELSE {}

LEMMA MaySays ==
    ASSUME NEW c, NEW n, c => n \in Nat /\ FourDigits(n), NEW unit \in Units
    PROVE  Says(MaySay(c, n, unit), c, n, unit)
  BY MaySayFacts, Zenon DEF Says

AllSay(J, p1, p2, p3, p4, p5, p6, p7) ==
    /\ J \in Seq(Phrases)
    /\ \A u : Said(J, u) = Said(p1, u) \cup Said(p2, u) \cup Said(p3, u) \cup Said(p4, u)
                           \cup Said(p5, u) \cup (Said(p6, u) \cup Said(p7, u))

LEMMA SevenSaid ==
    ASSUME NEW p1 \in Seq(Phrases), NEW p2 \in Seq(Phrases), NEW p3 \in Seq(Phrases), NEW p4 \in Seq(Phrases),
           NEW p5 \in Seq(Phrases), NEW p6 \in Seq(Phrases), NEW p7 \in Seq(Phrases),
           NEW J, J = ((((p1 \o p2) \o p3) \o p4) \o p5) \o (p6 \o p7)
    PROVE  AllSay(J, p1, p2, p3, p4, p5, p6, p7)
<1> DEFINE a == p1 \o p2
           b == a \o p3
           c == b \o p4
           d == c \o p5
           e == p6 \o p7
<1>1. SayBoth(p1, p2, a)
  BY BothSaid, Zenon
<1>2. SayBoth(a, p3, b)
  BY <1>1, BothSaid, Zenon DEF SayBoth
<1>3. SayBoth(b, p4, c)
  BY <1>2, BothSaid, Zenon DEF SayBoth
<1>4. SayBoth(c, p5, d)
  BY <1>3, BothSaid, Zenon DEF SayBoth
<1>5. SayBoth(p6, p7, e)
  BY BothSaid, Zenon
<1>6. SayBoth(d, e, J)
  <2>1. J = d \o e
    BY Zenon DEF a, b, c, d, e
  <2>2. SayBoth(d, e, d \o e)
    BY <1>4, <1>5, BothSaid, Zenon DEF SayBoth
  <2>3. QED
    BY <2>1, <2>2, Zenon
<1> HIDE DEF a, b, c, d, e
<1>7. QED
  BY <1>1, <1>2, <1>3, <1>4, <1>5, <1>6 DEF SayBoth, AllSay

\* Every piece of a telling can be said.
LEMMA PiecesFit ==
    ASSUME NEW t \in Nat, Spans(t), NEW alt \in Int, LowEnough(alt), NEW kmh \in Int, FourDigits(kmh),
           NEW used \in 0..100, NEW c \in Counts, NEW w \in Counts
    PROVE  /\ t \div 60 \in Nat /\ FourDigits(t \div 60)
           /\ t % 60 \in Nat /\ FourDigits(t % 60)
           /\ alt > 0 => AltitudeSaid(alt) \in Nat /\ FourDigits(AltitudeSaid(alt))
           /\ kmh > 0 => kmh \in Nat /\ FourDigits(kmh)
           /\ RoundToStep(used, 5) \in Nat /\ FourDigits(RoundToStep(used, 5))
           /\ c \in Nat /\ FourDigits(c) /\ w \in Nat /\ FourDigits(w)
<1>1. t \div 60 \in Nat /\ t \div 60 < 10000 /\ t % 60 \in Nat /\ t % 60 < 60
  BY DEF Spans
<1>2. used \in Nat /\ used <= 100 /\ used % 5 \in 0..4
  OBVIOUS
<1>3. RoundToStep(used, 5) \in Nat /\ RoundToStep(used, 5) < 10000
  BY <1>2 DEF RoundToStep
<1>4. alt > 0 => AltitudeSaid(alt) \in Nat /\ FourDigits(AltitudeSaid(alt))
  BY HeightFacts
<1>5. kmh > 0 => kmh \in Nat
  OBVIOUS
<1>6. c \in Nat /\ FourDigits(c) /\ w \in Nat /\ FourDigits(w)
  BY Zenon DEF Counts
<1>7. QED
  BY <1>1, <1>3, <1>4, <1>5, <1>6 DEF FourDigits

LEMMA AllIsSaid ==
    ASSUME NEW t \in Nat, Spans(t), NEW alt \in Int, LowEnough(alt), NEW kmh \in Int, FourDigits(kmh),
           NEW used \in 0..100, NEW c \in Counts, NEW w \in Counts,
           NEW J, J = AllSaid(t, alt, kmh, used, c, w)
    PROVE  /\ J \in Seq(Phrases)
           /\ Said(J, "minutes") = IF t >= 60 THEN {t \div 60} ELSE {}
           /\ Said(J, "seconds") = IF t % 60 > 0 THEN {t % 60} ELSE {}
           /\ Said(J, "meters") = IF alt > 0 THEN {AltitudeSaid(alt)} ELSE {}
           /\ Said(J, "kmh") = IF kmh > 0 THEN {kmh} ELSE {}
<1> DEFINE p1 == MaySay(t >= 60, t \div 60, "minutes")
           p2 == MaySay(t % 60 > 0, t % 60, "seconds")
           p3 == HeightSaid(alt)
           p4 == SpeedSaid(kmh)
           p5 == PowerSaid(used)
           p6 == MaySay(c > 1, c, "criticals")
           p7 == MaySay(c = 0 /\ w > 1, w, "warnings")
<1>0. "minutes" \in Units /\ "seconds" \in Units /\ "meters" \in Units /\ "kmh" \in Units
      /\ "percent" \in Units /\ "criticals" \in Units /\ "warnings" \in Units
  BY DEF Units
<1>a. /\ t \div 60 \in Nat /\ FourDigits(t \div 60)
      /\ t % 60 \in Nat /\ FourDigits(t % 60)
      /\ alt > 0 => AltitudeSaid(alt) \in Nat /\ FourDigits(AltitudeSaid(alt))
      /\ kmh > 0 => kmh \in Nat /\ FourDigits(kmh)
      /\ RoundToStep(used, 5) \in Nat /\ FourDigits(RoundToStep(used, 5))
      /\ c \in Nat /\ FourDigits(c) /\ w \in Nat /\ FourDigits(w)
  BY PiecesFit
<1>1. Says(p1, t >= 60, t \div 60, "minutes")
  BY <1>0, <1>a, MaySays, Zenon
<1>2. Says(p2, t % 60 > 0, t % 60, "seconds")
  BY <1>0, <1>a, MaySays, Zenon
<1>3. Says(p3, alt > 0, AltitudeSaid(alt), "meters")
  BY <1>0, <1>a, MaySays, Zenon DEF HeightSaid
<1>4. Says(p4, kmh > 0, kmh, "kmh")
  BY <1>0, <1>a, MaySays, Zenon DEF SpeedSaid
<1>5. Says(p5, used > 0, RoundToStep(used, 5), "percent")
  BY <1>0, <1>a, MaySays, Zenon DEF PowerSaid
<1>6. Says(p6, c > 1, c, "criticals")
  BY <1>0, <1>a, MaySays, Zenon
<1>7. Says(p7, c = 0 /\ w > 1, w, "warnings")
  BY <1>0, <1>a, MaySays, Zenon
<1>8. J = ((((p1 \o p2) \o p3) \o p4) \o p5) \o (p6 \o p7)
  BY Zenon DEF AllSaid, TimeSaid, AlarmsSaid
<1> HIDE DEF p1, p2, p3, p4, p5, p6, p7
<1>9. AllSay(J, p1, p2, p3, p4, p5, p6, p7)
  <2>1. p1 \in Seq(Phrases) /\ p2 \in Seq(Phrases) /\ p3 \in Seq(Phrases) /\ p4 \in Seq(Phrases)
        /\ p5 \in Seq(Phrases) /\ p6 \in Seq(Phrases) /\ p7 \in Seq(Phrases)
    BY <1>1, <1>2, <1>3, <1>4, <1>5, <1>6, <1>7, Zenon DEF Says
  <2>2. QED
    BY <2>1, <1>8, SevenSaid, Zenon
<1>10. \A u : /\ u # "minutes" => Said(p1, u) = {}
              /\ u # "seconds" => Said(p2, u) = {}
              /\ u # "meters" => Said(p3, u) = {}
              /\ u # "kmh" => Said(p4, u) = {}
              /\ u # "percent" => Said(p5, u) = {}
              /\ u # "criticals" => Said(p6, u) = {}
              /\ u # "warnings" => Said(p7, u) = {}
  BY <1>1, <1>2, <1>3, <1>4, <1>5, <1>6, <1>7, Zenon DEF Says
<1>11. /\ Said(p1, "minutes") = IF t >= 60 THEN {t \div 60} ELSE {}
       /\ Said(p2, "seconds") = IF t % 60 > 0 THEN {t % 60} ELSE {}
       /\ Said(p3, "meters") = IF alt > 0 THEN {AltitudeSaid(alt)} ELSE {}
       /\ Said(p4, "kmh") = IF kmh > 0 THEN {kmh} ELSE {}
  BY <1>1, <1>2, <1>3, <1>4, Zenon DEF Says
<1>12. Said(J, "minutes") = Said(p1, "minutes")
  <2>1. "minutes" # "seconds" /\ "minutes" # "meters" /\ "minutes" # "kmh"
        /\ "minutes" # "percent" /\ "minutes" # "criticals" /\ "minutes" # "warnings"
    OBVIOUS
  <2>2. Said(p2, "minutes") = {} /\ Said(p3, "minutes") = {} /\ Said(p4, "minutes") = {}
        /\ Said(p5, "minutes") = {} /\ Said(p6, "minutes") = {} /\ Said(p7, "minutes") = {}
    BY <2>1, <1>10, Zenon
  <2>3. QED
    BY <2>2, <1>9 DEF AllSay
<1>13. Said(J, "seconds") = Said(p2, "seconds")
  <2>1. "seconds" # "minutes" /\ "seconds" # "meters" /\ "seconds" # "kmh"
        /\ "seconds" # "percent" /\ "seconds" # "criticals" /\ "seconds" # "warnings"
    OBVIOUS
  <2>2. Said(p1, "seconds") = {} /\ Said(p3, "seconds") = {} /\ Said(p4, "seconds") = {}
        /\ Said(p5, "seconds") = {} /\ Said(p6, "seconds") = {} /\ Said(p7, "seconds") = {}
    BY <2>1, <1>10, Zenon
  <2>3. QED
    BY <2>2, <1>9 DEF AllSay
<1>14. Said(J, "meters") = Said(p3, "meters")
  <2>1. "meters" # "minutes" /\ "meters" # "seconds" /\ "meters" # "kmh"
        /\ "meters" # "percent" /\ "meters" # "criticals" /\ "meters" # "warnings"
    OBVIOUS
  <2>2. Said(p1, "meters") = {} /\ Said(p2, "meters") = {} /\ Said(p4, "meters") = {}
        /\ Said(p5, "meters") = {} /\ Said(p6, "meters") = {} /\ Said(p7, "meters") = {}
    BY <2>1, <1>10, Zenon
  <2>3. QED
    BY <2>2, <1>9 DEF AllSay
<1>15. Said(J, "kmh") = Said(p4, "kmh")
  <2>1. "kmh" # "minutes" /\ "kmh" # "seconds" /\ "kmh" # "meters"
        /\ "kmh" # "percent" /\ "kmh" # "criticals" /\ "kmh" # "warnings"
    OBVIOUS
  <2>2. Said(p1, "kmh") = {} /\ Said(p2, "kmh") = {} /\ Said(p3, "kmh") = {}
        /\ Said(p5, "kmh") = {} /\ Said(p6, "kmh") = {} /\ Said(p7, "kmh") = {}
    BY <2>1, <1>10, Zenon
  <2>3. QED
    BY <2>2, <1>9 DEF AllSay
<1>16. QED
  BY <1>9, <1>11, <1>12, <1>13, <1>14, <1>15, Zenon DEF AllSay

\* TracksAddUp, of these tracks, rows and time.
TopsOf(q, name) == {q[i][name] : i \in {j \in DOMAIN q : q[j].sats >= 0}}
AddsUp(p, q, t) ==
    p # <<>> =>
      /\ \A i \in DOMAIN p : ToSet(p[i].number) \subseteq Tracks
      /\ 60 * Highest(Said(p, "minutes")) + Highest(Said(p, "seconds")) = t
      /\ Highest(Said(p, "kmh")) = Highest(TopsOf(q, "kmh"))
      /\ Highest(Said(p, "meters")) - Highest(TopsOf(q, "alt")) \in -5..5

LEMMA OneHighest == \A c : \A n \in Nat : Highest(IF c THEN {n} ELSE {}) = IF c THEN n ELSE 0
<1>1. \A n \in Nat : Highest({n}) = n
  <2>1. ASSUME NEW n \in Nat PROVE Highest({n}) = n
    <3>1. {n} \in SUBSET Int /\ n \in {n} \cup {0} /\ \A w \in {n} \cup {0} : w <= n
      OBVIOUS
    <3>2. QED
      BY <3>1, HighestIs
  <2>2. QED
    BY <2>1
<1>2. Highest({}) = 0
  <2>1. {} \in SUBSET Int /\ 0 \in {} \cup {0} /\ \A w \in {} \cup {0} : w <= 0
    OBVIOUS
  <2>2. QED
    BY <2>1, HighestIs
<1>3. QED
  BY <1>1, <1>2, Zenon

LEMMA TracksExist ==
    ASSUME NEW p \in Seq(Phrases) PROVE \A i \in DOMAIN p : ToSet(p[i].number) \subseteq Tracks
<1>1. ASSUME NEW i \in DOMAIN p PROVE ToSet(p[i].number) \subseteq Tracks
  <2>1. p[i] \in Phrases
    BY ElementOfSeq, LenProperties
  <2>2. PICK n \in {k \in Nat : FourDigits(k)}, u \in Units : p[i] = Phrase(n, u)
    BY <2>1 DEF Phrases
  <2>3. p[i].number = NumberFragments(n) /\ n \in Nat /\ FourDigits(n)
    BY <2>2 DEF Phrase
  <2>4. QED
    BY <2>3, NumberIsSpoken
<1>2. QED
  BY <1>1

\* The saved rows, summarised.
LEMMA Summarized ==
    ASSUME rows \in Seq(Snapshots)
    PROVE  /\ Summarize.seconds = clock
           /\ Summarize.alt = Highest(TopsOf(rows, "alt")) /\ Summarize.alt \in Nat /\ LowEnough(Summarize.alt)
           /\ Summarize.kmh = Highest(TopsOf(rows, "kmh")) /\ Summarize.kmh \in Nat /\ FourDigits(Summarize.kmh)
           /\ Summarize.from \in Int /\ Summarize.to \in Int
<1> DEFINE fixes   == {i \in DOMAIN rows : rows[i].sats >= 0}
           powered == {i \in DOMAIN rows : rows[i].cell > 0}
           Pack(i) == IF powered = {} THEN 0 ELSE 4 * rows[i].cell
           alts    == {rows[i].alt : i \in fixes}
           speeds  == {rows[i].kmh : i \in fixes}
<1>1. /\ Summarize.seconds = clock
      /\ Summarize.alt = Highest(alts) /\ Summarize.kmh = Highest(speeds)
      /\ Summarize.from = Pack(Earliest(powered)) /\ Summarize.to = Pack(Highest(powered))
  BY DEF Summarize
<1>2. \A i \in DOMAIN rows : /\ rows[i].alt \in Int /\ rows[i].alt < 9995 /\ rows[i].kmh \in Int /\ rows[i].kmh < 10000
                             /\ rows[i].cell \in Int
  <2>1. ASSUME NEW i \in DOMAIN rows
        PROVE  /\ rows[i].alt \in Int /\ rows[i].alt < 9995 /\ rows[i].kmh \in Int /\ rows[i].kmh < 10000
               /\ rows[i].cell \in Int
    <3>1. rows[i] \in Snapshots
      BY ElementOfSeq, LenProperties
    <3>2. QED
      BY <3>1, StoryAssumption
  <2>2. QED
    BY <2>1
<1>3. alts = TopsOf(rows, "alt") /\ speeds = TopsOf(rows, "kmh")
  BY DEF TopsOf
<1>4. alts \in SUBSET Int /\ speeds \in SUBSET Int /\ (\A v \in alts : v < 9995) /\ \A v \in speeds : v < 10000
  BY <1>2
<1>5. powered \in SUBSET (1..Len(rows)) /\ Len(rows) \in Nat /\ powered \subseteq DOMAIN rows
  BY LenProperties
<1>6. powered # {} => Earliest(powered) \in powered /\ Highest(powered) \in powered
  <2>1. powered \in SUBSET Nat /\ powered \in SUBSET Int /\ (\A i \in powered : i >= 1 /\ i < Len(rows) + 1)
        /\ Len(rows) + 1 \in Nat \ {0}
    BY <1>5
  <2> HIDE DEF powered
  <2>2. powered # {} => Earliest(powered) \in powered
    BY <2>1, EarliestIn
  <2>3. /\ Highest(powered) \in powered \cup {0} /\ Highest(powered) \in Nat
        /\ \A v \in powered : v <= Highest(powered)
    BY <2>1, HighestBelow
  <2>4. powered # {} => Highest(powered) \in powered
    <3> DEFINE h == Highest(powered)
    <3>1. SUFFICES ASSUME powered # {} PROVE h \in powered
      OBVIOUS
    <3>2. PICK v \in powered : TRUE
      BY <3>1
    <3>3. h \in powered \cup {0} /\ h \in Nat /\ v <= h /\ v >= 1 /\ v \in Nat
      BY <2>1, <2>3
    <3> HIDE DEF h
    <3>4. h # 0
      BY <3>3
    <3>5. QED
      BY <3>3, <3>4
  <2>5. QED
    BY <2>2, <2>4, Zenon
<1>7. Pack(Earliest(powered)) \in Int /\ Pack(Highest(powered)) \in Int
  <2>1. CASE powered = {}
    <3>1. Pack(Earliest(powered)) = 0 /\ Pack(Highest(powered)) = 0
      BY <2>1, Zenon
    <3>2. QED
      BY <3>1
  <2>2. CASE powered # {}
    <3>1. \A i \in powered : 4 * rows[i].cell \in Int
      BY <1>2, <1>5
    <3>2. QED
      BY <3>1, <2>2, <1>6, Zenon
  <2>3. QED
    BY <2>1, <2>2
<1> HIDE DEF alts, speeds, powered, Pack
<1>8. Highest(alts) \in Nat /\ Highest(alts) < 9995
  BY <1>4, HighestBelow
<1>9. Highest(speeds) \in Nat /\ Highest(speeds) < 10000
  BY <1>4, HighestBelow
<1>10. QED
  BY SMT, <1>1, <1>3, <1>7, <1>8, <1>9 DEF FourDigits, LowEnough

LEMMA TellingAddsUp ==
    ASSUME rows \in Seq(Snapshots), clock \in Nat, Spans(clock), NEW alarms \in Alarms
    PROVE  AddsUp(Strung(Summarize, alarms), rows, clock)
<1> DEFINE s == Summarize
           J == Strung(Summarize, alarms)
           used == UsedPercent(s.from, s.to)
<1>1. /\ s.seconds = clock
      /\ s.alt = Highest(TopsOf(rows, "alt")) /\ s.alt \in Nat /\ LowEnough(s.alt)
      /\ s.kmh = Highest(TopsOf(rows, "kmh")) /\ s.kmh \in Nat /\ FourDigits(s.kmh)
      /\ s.from \in Int /\ s.to \in Int
  BY Summarized, Zenon
<1>2. used \in 0..100
  BY <1>1, PercentBounds
<1>3. alarms[1] \in Counts /\ alarms[2] \in Counts
  BY AlarmFacts, Zenon
<1> HIDE DEF used, s
<1>4. J = AllSaid(s.seconds, s.alt, s.kmh, used, alarms[1], alarms[2])
  BY <1>1, StrungIs, Zenon DEF used, s
<1> HIDE DEF J
<1>5. /\ J \in Seq(Phrases)
      /\ Said(J, "minutes") = IF clock >= 60 THEN {clock \div 60} ELSE {}
      /\ Said(J, "seconds") = IF clock % 60 > 0 THEN {clock % 60} ELSE {}
      /\ Said(J, "meters") = IF s.alt > 0 THEN {AltitudeSaid(s.alt)} ELSE {}
      /\ Said(J, "kmh") = IF s.kmh > 0 THEN {s.kmh} ELSE {}
  <2>1. s.alt \in Int /\ s.kmh \in Int
    BY <1>1
  <2>2. J = AllSaid(clock, s.alt, s.kmh, used, alarms[1], alarms[2])
    BY <1>1, <1>4, Zenon
  <2> DEFINE alt == s.alt
             kmh == s.kmh
  <2>3. alt \in Int /\ LowEnough(alt) /\ kmh \in Int /\ FourDigits(kmh)
    BY <1>1, <2>1
  <2>4. QED
    BY <2>2, <2>3, <1>2, <1>3, AllIsSaid
<1>6. 60 * Highest(Said(J, "minutes")) + Highest(Said(J, "seconds")) = clock
  <2>1. clock \div 60 \in Nat /\ clock % 60 \in Nat
    OBVIOUS
  <2>2. /\ Highest(Said(J, "minutes")) = IF clock >= 60 THEN clock \div 60 ELSE 0
        /\ Highest(Said(J, "seconds")) = IF clock % 60 > 0 THEN clock % 60 ELSE 0
    BY <2>1, <1>5, OneHighest, Zenon
  <2>3. QED
    BY <2>2
<1>7. Highest(Said(J, "kmh")) = Highest(TopsOf(rows, "kmh"))
  <2>1. Highest(Said(J, "kmh")) = IF s.kmh > 0 THEN s.kmh ELSE 0
    BY <1>1, <1>5, OneHighest, Zenon
  <2>2. QED
    BY <2>1, <1>1
<1>8. Highest(Said(J, "meters")) - Highest(TopsOf(rows, "alt")) \in -5..5
  <2>1. CASE s.alt > 0
    <3>1. AltitudeSaid(s.alt) \in Nat /\ AltitudeSaid(s.alt) - s.alt \in -5..5
      BY <1>1, <2>1, HeightFacts
    <3>2. Highest(Said(J, "meters")) = AltitudeSaid(s.alt)
      BY <3>1, <2>1, <1>5, OneHighest
    <3>3. QED
      BY <3>1, <3>2, <1>1
  <2>2. CASE ~(s.alt > 0)
    <3>1. Said(J, "meters") = {}
      BY <2>2, <1>5, Zenon
    <3>2. Highest({}) = 0
      BY OneHighest
    <3>3. s.alt = 0
      BY <2>2, <1>1
    <3>4. Highest(Said(J, "meters")) = 0 /\ Highest(TopsOf(rows, "alt")) = 0
      BY <3>1, <3>2, <3>3, <1>1, Zenon
    <3>5. QED
      BY <3>4
  <2>3. QED
    BY <2>1, <2>2
<1>9. \A i \in DOMAIN J : ToSet(J[i].number) \subseteq Tracks
  BY <1>5, TracksExist
<1>10. QED
  BY <1>6, <1>7, <1>8, <1>9, Zenon DEF AddsUp, J

-----------------------------------------------------------------------------
(* The steps.                                                                *)

\* StoryIsTrue, of this text and history.
Truly(text, w) ==
    /\ Within(text.distance, w.dist, 50) /\ Within(text.altitude, w.alt, 25)
    /\ text.failsafe = w.failsafe /\ text.rth = w.rth
    /\ text.critical = w.critical
    /\ text.low = IF w.critical >= 0 THEN -1 ELSE w.low

LEMMA PeakTold == ASSUME NEW V \in SUBSET Int, NEW of, NEW size, PeakOf(V, of, size) PROVE Within(Highest(V), of, size)
<1>1. PICK v \in V \cup {0} : (\A w \in V \cup {0} : w <= v) /\ Within(v, of, size)
  BY Zenon DEF PeakOf
<1>2. Highest(V) = v
  BY <1>1, HighestIs
<1>3. QED
  BY <1>1, <1>2, Zenon

LEMMA TextIsTrue ==
    ASSUME NEW L, NEW d, NEW w \in Account, NEW now \in Nat, Consistent(L, d, w, now)
    PROVE  Truly(Text(L), w)
<1> DEFINE criticals == Times(L, "battery-critical")
           lows == Times(L, "battery-low")
<1>1. L \in Seq(Entry) /\ PeaksInv(L, d, w) /\ ModeInv(L, d, w) /\ BatteryInv(L, d, w, now)
  BY Zenon DEF Consistent, LogInv
<1>2. \A name : Values(L, name) \in SUBSET Int /\ Times(L, name) \in SUBSET Nat
  BY <1>1, HitTypes
<1>3. Within(Highest(Values(L, "peak-distance")), w.dist, 50) /\ Within(Highest(Values(L, "peak-altitude")), w.alt, 25)
  BY <1>1, <1>2, PeakTold, Zenon DEF PeaksInv
<1>4. ASSUME NEW name PROVE (Times(L, name) # {}) <=> (Hits(L, name) # {})
  <2>1. Times(L, name) = {e.at : e \in Hits(L, name)}
    BY OfHits, Zenon
  <2>2. QED
    BY <2>1
<1>5. w.failsafe \in BOOLEAN /\ w.rth \in BOOLEAN /\ w.critical \in Int /\ w.low \in Int
  BY DEF Account
<1>6. (Times(L, "failsafe") # {}) = w.failsafe
  <2>1. (Times(L, "failsafe") # {}) <=> w.failsafe
    BY <1>1, <1>4, Zenon DEF ModeInv
  <2>2. QED
    BY <2>1, <1>5, Zenon
<1>7. (Times(L, "rth-active") # {}) = w.rth
  <2>1. (Times(L, "rth-active") # {}) <=> w.rth
    BY <1>1, <1>4, Zenon DEF ModeInv
  <2>2. QED
    BY <2>1, <1>5, Zenon
<1>8. FirstOf(criticals, w.critical) /\ (w.critical < 0 => FirstOf(lows, w.low))
  BY <1>1, Zenon DEF BatteryInv
<1>9. Earliest(criticals) = w.critical
  BY <1>2, <1>8, EarliestIs
<1>10. (IF criticals = {} THEN Earliest(lows) ELSE -1) = IF w.critical >= 0 THEN -1 ELSE w.low
  <2>1. CASE criticals = {}
    <3>1. w.critical = -1
      BY <2>1, <1>8, Zenon DEF FirstOf
    <3>2. w.critical < 0 /\ ~(w.critical >= 0)
      BY <3>1
    <3>3. Earliest(lows) = w.low
      BY <3>2, <1>2, <1>8, EarliestIs
    <3>4. QED
      BY <2>1, <3>2, <3>3, Zenon
  <2>2. CASE criticals # {}
    <3>1. w.critical \in criticals
      BY <2>2, <1>8, Zenon DEF FirstOf
    <3>2. w.critical \in Nat
      BY <3>1, <1>2
    <3>3. w.critical >= 0
      BY <3>2
    <3>4. QED
      BY <2>2, <3>3, Zenon
  <2>3. QED
    BY <2>1, <2>2
<1>11. /\ Text(L).distance = Highest(Values(L, "peak-distance"))
       /\ Text(L).altitude = Highest(Values(L, "peak-altitude"))
       /\ Text(L).critical = Earliest(criticals)
       /\ Text(L).low = IF criticals = {} THEN Earliest(lows) ELSE -1
  BY DEF Text
<1>12. Text(L).failsafe = (Times(L, "failsafe") # {}) /\ Text(L).rth = (Times(L, "rth-active") # {})
  BY DEF Text
<1> HIDE DEF criticals, lows
<1>13. QED
  BY <1>3, <1>6, <1>7, <1>9, <1>10, <1>11, <1>12, Zenon DEF Truly

\* StoryIsTold, of these values of the variables.
Told(text, phrases, w, L, q, t) == (text # NoText => Truly(text, w)) /\ Edges(L) /\ AddsUp(phrases.tracks, q, t)

LEMMA ToldNow == StoryIsTold <=> Told(told, spoken, witnessed, session, rows, clock)
<1>1. StoryIsTrue <=> (told # NoText => Truly(told, witnessed))
  BY Zenon DEF StoryIsTrue, Truly
<1>2. EventsAreEdges <=> Edges(session)
  BY Zenon DEF EventsAreEdges, Edges
<1>3. TracksAddUp <=> AddsUp(spoken.tracks, rows, clock)
  BY Zenon DEF TracksAddUp, AddsUp, Spoken, Said, Tops, TopsOf
<1>4. QED
  BY <1>1, <1>2, <1>3, Zenon DEF StoryIsTold, Told

LEMMA ToldNext == StoryIsTold' <=> Told(told', spoken', witnessed', session', rows', clock')
<1>1. StoryIsTrue' <=> (told' # NoText => Truly(told', witnessed'))
  BY Zenon DEF StoryIsTrue, Truly, NoText
<1>2. EventsAreEdges' <=> Edges(session')
  BY Zenon DEF EventsAreEdges, Edges
<1>3. TracksAddUp' <=> AddsUp(spoken'.tracks, rows', clock')
  BY Zenon DEF TracksAddUp, AddsUp, Spoken, Said, Tops, TopsOf
<1>4. QED
  BY <1>1, <1>2, <1>3, Zenon DEF StoryIsTold, Told, NoText

\* While the session lasts nothing is told, and afterwards nothing is written.
LEMMA ToldBefore == \A w, L, q, t : Edges(L) => Told(NoText, Silence, w, L, q, t)
<1>1. Silence.tracks = <<>>
  BY DEF Silence
<1>2. QED
  BY <1>1, Zenon DEF Told, AddsUp

LEMMA NoEdges == Edges(NoSession)
<1>1. DOMAIN NoSession = {}
  BY DEF NoSession
<1>2. QED
  BY <1>1, Zenon DEF Edges

LEMMA ClockFacts ==
    /\ \A n \in Nat : Pace * n \in Nat /\ Pace * (n + 1) = Pace * n + Pace
    /\ \A n \in Nat : n <= MaxSamples => Spans(Pace * n)
    /\ Pace \in Nat /\ MaxSamples \in Nat
<1>1. Pace \in Nat /\ MaxSamples \in Nat /\ Pace * MaxSamples < 600000
  BY StoryAssumption
<1>2. \A p, n \in Nat : p * n \in Nat /\ p * (n + 1) = p * n + p
  OBVIOUS
<1>3. \A p, n, m \in Nat : n <= m => p * n <= p * m
  OBVIOUS
<1>4. ASSUME NEW n \in Nat, n <= MaxSamples PROVE Spans(Pace * n)
  <2>1. Pace * n <= Pace * MaxSamples
    BY <1>1, <1>3, <1>4
  <2>2. Pace * n \in Nat /\ Pace * MaxSamples \in Nat
    BY <1>1, <1>2
  <2>3. QED
    BY <1>1, <2>1, <2>2 DEF Spans
<1>5. QED
  BY <1>1, <1>2, <1>4

\* StoryInv without the part about what was told.
Holds(da, dt, sa, L, w, q, t, text, phrases) ==
    /\ da \in BOOLEAN /\ dt \in Detector /\ sa \in Snapshots \cup {NoSample}
    /\ L \in Seq(Entry) /\ w \in Account
    /\ q \in Seq(Snapshots) /\ Len(q) <= MaxSamples /\ t = Pace * Len(q)
    /\ da => L # NoSession
    /\ L # NoSession => text = NoText /\ phrases = Silence /\ Consistent(L, dt, w, t)

LEMMA HoldsNow == StoryInv <=>
    /\ Holds(detArmed, det, sample, session, witnessed, rows, clock, told, spoken)
    /\ Told(told, spoken, witnessed, session, rows, clock)
  BY ToldNow, Zenon DEF StoryInv, StoryTypes, Holds

LEMMA HoldsNext == StoryInv' <=>
    /\ Holds(detArmed', det', sample', session', witnessed', rows', clock', told', spoken')
    /\ Told(told', spoken', witnessed', session', rows', clock')
<1>1. StoryTypes' <=>
        /\ detArmed' \in BOOLEAN /\ det' \in Detector /\ sample' \in Snapshots \cup {NoSample}
        /\ session' \in Seq(Entry) /\ witnessed' \in Account
        /\ rows' \in Seq(Snapshots) /\ Len(rows') <= MaxSamples /\ clock' = Pace * Len(rows')
        /\ detArmed' => session' # NoSession
  BY Zenon DEF StoryTypes, Detector, ModesRead, NoSample, Entry, Names, Account, NoSession
<1>2. QED
  BY <1>1, ToldNext, Zenon DEF StoryInv, Holds, NoSession, NoText, Silence

\* While the session lasts, the rest of StoryInv gives what it says of the telling.
LEMMA NothingTold ==
    ASSUME NEW dt, NEW L, NEW w, NEW q, NEW t, Consistent(L, dt, w, t)
    PROVE  Told(NoText, Silence, w, L, q, t)
  BY ToldBefore, Zenon DEF Consistent, LogInv

\* The battery's part of it does not mind time passing.
LEMMA TimePasses ==
    ASSUME NEW L, NEW d, NEW w, NEW now \in Nat, NEW later \in Nat, now <= later, Consistent(L, d, w, now)
    PROVE  Consistent(L, d, w, later)
<1>1. \A x \in -1..now : x \in -1..later
  OBVIOUS
<1>2. BatteryInv(L, d, w, later)
  BY <1>1, Zenon DEF Consistent, BatteryInv
<1>3. QED
  BY <1>2, Zenon DEF Consistent

\* A flight begins with one event and a detector that has seen nothing.
LEMMA FlightBegins ==
    ASSUME NEW L, L = <<[name |-> "armed", value |-> 0, at |-> 0]>>
    PROVE  L \in Seq(Entry) /\ L # NoSession /\ FreshFlight \in Detector /\ Nothing \in Account
           /\ Consistent(L, FreshFlight, Nothing, 0)
<1> DEFINE e == [name |-> "armed", value |-> 0, at |-> 0]
<1>1. e \in Entry /\ e.name = "armed"
  BY DEF Entry, Names
<1> HIDE DEF e
<1>2. L \in Seq(Entry) /\ Len(L) = 1 /\ DOMAIN L = {1} /\ L[1] = e
  BY <1>1 DEF e
<1>3. L # NoSession
  BY <1>2 DEF NoSession
<1>4. FreshFlight \in Detector
  BY DEF FreshFlight, Detector, ModesRead
<1>5. Nothing \in Account
  BY DEF Nothing, Account
<1>6. \A name : name # "armed" => Hits(L, name) = {}
  BY <1>1, <1>2 DEF Hits
<1>7. \A name : name # "armed" => Values(L, name) = {} /\ Times(L, name) = {}
  BY <1>6, OfHits
<1>8. /\ "failsafe" # "armed" /\ "rth-active" # "armed" /\ "peak-distance" # "armed" /\ "peak-altitude" # "armed"
      /\ "battery-critical" # "armed" /\ "battery-low" # "armed"
  OBVIOUS
<1>9. LogInv(L, FreshFlight)
  <2>1. \A i, j \in DOMAIN L : ~(i < j)
    BY <1>2
  <2>2. Edges(L)
    BY <2>1, Zenon DEF Edges
  <2>3. \A name : name # "armed" => Clear(L, name)
    BY <1>1, <1>2 DEF Clear
  <2>4. Known(L, FreshFlight)
    BY <2>3 DEF Known, FreshFlight
  <2>5. QED
    BY <1>2, <2>2, <2>4, Zenon DEF LogInv
<1>10. PeakOf({}, 0, 50) /\ PeakOf({}, 0, 25)
  BY DEF PeakOf, Within
<1>11. PeaksInv(L, FreshFlight, Nothing)
  <2>1. FreshFlight.peakDist = 0 /\ FreshFlight.peakAlt = 0 /\ Nothing.dist = 0 /\ Nothing.alt = 0
    BY DEF FreshFlight, Nothing
  <2>2. QED
    BY <2>1, <1>7, <1>8, <1>10, Zenon DEF PeaksInv
<1>12. ModeInv(L, FreshFlight, Nothing)
  <2>1. Hits(L, "failsafe") = {} /\ Hits(L, "rth-active") = {}
    BY <1>6, <1>8, Zenon
  <2>2. FreshFlight.mode = "" /\ "" \notin Failsafes /\ "" # "RTH"
    BY DEF FreshFlight, Failsafes
  <2>3. ~FreshFlight.failsafe /\ ~FreshFlight.rth /\ ~Nothing.failsafe /\ ~Nothing.rth
    BY DEF FreshFlight, Nothing
  <2>4. QED
    BY <2>1, <2>2, <2>3, Zenon DEF ModeInv
<1>13. BatteryInv(L, FreshFlight, Nothing, 0)
  <2>1. FreshFlight.battery = 0 /\ Nothing.low = -1 /\ Nothing.critical = -1 /\ -1 \in -1..0 /\ 0 # 1 /\ 0 # 2
    BY DEF FreshFlight, Nothing
  <2>2. Times(L, "battery-critical") = {} /\ Times(L, "battery-low") = {}
    BY <1>7, <1>8, Zenon
  <2>3. FirstOf({}, -1)
    BY Zenon DEF FirstOf
  <2>4. QED
    BY <2>1, <2>2, <2>3, Zenon DEF BatteryInv
<1>14. QED
  BY <1>2, <1>3, <1>4, <1>5, <1>9, <1>11, <1>12, <1>13, Zenon DEF Consistent

\* The event of the disarm changes nothing of what is told.
LEMMA DisarmEnds ==
    ASSUME clock \in Nat, NEW L, NEW d, NEW w, Consistent(L, d, w, clock), NEW M, M = Append(L, Event("disarmed", 0))
    PROVE  M \in Seq(Entry) /\ M # NoSession /\ Consistent(M, d, w, clock)
<1> DEFINE e == Event("disarmed", 0)
           J == If(TRUE, "disarmed", 0)
<1>1. L \in Seq(Entry) /\ LogInv(L, d)
  BY Zenon DEF Consistent, LogInv
<1>2. J = <<e>>
  BY Zenon DEF If
<1>3. J \in Seq(Entry) /\ \A name : name # "disarmed" => Hits(J, name) = {}
  <2>1. "disarmed" \in Names /\ 0 \in Int
    BY DEF Names
  <2>2. J \in Seq(Entry)
    BY <2>1, PieceType, Zenon
  <2>3. \A name : Hits(J, name) = IF TRUE /\ "disarmed" = name THEN {e} ELSE {}
    BY <2>1, PieceHits, Zenon
  <2>4. QED
    BY <2>2, <2>3, Zenon
<1>4. M = L \o J
  <2> HIDE DEF e
  <2>1. e \in Entry
    BY DEF e, Event, Entry, Names
  <2>2. Append(L, e) = L \o <<e>>
    BY <1>1, <2>1
  <2>3. QED
    BY <1>2, <2>2 DEF e
<1>5. "disarmed" \notin DOMAIN Ends /\ "disarmed" \in Names /\ TRUE \in BOOLEAN /\ 0 \in Int
  BY DEF Ends, Names
<1>6. LogInv(M, d)
  BY <1>1, <1>4, <1>5, StaysQuiet, Zenon
<1>7. M \in Seq(Entry) /\ M # NoSession
  <2>1. M \in Seq(Entry)
    BY <1>6, Zenon DEF LogInv
  <2>2. Len(J) = 1 /\ Len(L \o J) = Len(L) + Len(J) /\ Len(L) \in Nat
    BY <1>1, <1>2, <1>3, Joined
  <2>3. Len(M) # 0 /\ Len(NoSession) = 0
    BY <1>4, <2>2 DEF NoSession
  <2>4. QED
    BY <2>1, <2>3
<1> HIDE DEF J
<1>8. ASSUME NEW name, name # "disarmed" PROVE Hits(M, name) = Hits(L, name)
  <2>1. Hits(M, name) = Hits(L, name) \cup Hits(J, name)
    <3>1. Hits(L \o J, name) = Hits(L, name) \cup Hits(J, name)
      BY <1>1, <1>3, HitsJoined
    <3>2. QED
      BY <3>1, <1>4
  <2>2. Hits(J, name) = {}
    BY <1>3, <1>8, Zenon
  <2>3. QED
    BY <2>1, <2>2
<1>9. \A name : name # "disarmed" => Values(M, name) = Values(L, name) /\ Times(M, name) = Times(L, name)
  BY <1>8, OfHits
<1>10. /\ Hits(M, "failsafe") = Hits(L, "failsafe") /\ Hits(M, "rth-active") = Hits(L, "rth-active")
       /\ Values(M, "peak-distance") = Values(L, "peak-distance")
       /\ Values(M, "peak-altitude") = Values(L, "peak-altitude")
       /\ Times(M, "battery-critical") = Times(L, "battery-critical")
       /\ Times(M, "battery-low") = Times(L, "battery-low")
  BY <1>8, <1>9
<1>11. QED
  BY <1>6, <1>7, <1>10, Zenon DEF Consistent, PeaksInv, ModeInv, BatteryInv

LEMMA StoryStarts == StoryInit => StoryInv
<1> SUFFICES ASSUME StoryInit PROVE StoryInv
  OBVIOUS
<1>1. /\ detArmed = FALSE /\ det = FreshFlight /\ sample = NoSample /\ session = NoSession /\ rows = <<>>
      /\ clock = 0 /\ witnessed = Nothing /\ told = NoText /\ spoken = Silence
  BY Zenon DEF StoryInit
<1>2. FreshFlight \in Detector /\ Nothing \in Account
  BY FlightBegins
<1>3. NoSession \in Seq(Entry) /\ <<>> \in Seq(Snapshots) /\ Len(<<>>) = 0
  BY EmptySeq DEF NoSession
<1>4. 0 <= MaxSamples /\ 0 = Pace * 0
  <2>1. Pace \in Nat /\ MaxSamples \in Nat
    BY ClockFacts, Zenon
  <2>2. QED
    BY <2>1
<1>5. Holds(detArmed, det, sample, session, witnessed, rows, clock, told, spoken)
  BY <1>1, <1>2, <1>3, <1>4, Zenon DEF Holds
<1>6. Told(told, spoken, witnessed, session, rows, clock)
  BY <1>1, NoEdges, ToldBefore, Zenon
<1>7. QED
  BY <1>5, <1>6, HoldsNow, Zenon

\* What StoryInv gives to every step.
LEMMA StoryNow ==
    ASSUME StoryInv
    PROVE  /\ detArmed \in BOOLEAN /\ det \in Detector /\ sample \in Snapshots \cup {NoSample}
           /\ session \in Seq(Entry) /\ witnessed \in Account
           /\ rows \in Seq(Snapshots) /\ Len(rows) \in Nat /\ Len(rows) <= MaxSamples /\ clock = Pace * Len(rows)
           /\ clock \in Nat /\ Spans(clock)
           /\ detArmed => session # NoSession
           /\ session # NoSession => told = NoText /\ spoken = Silence /\ Consistent(session, det, witnessed, clock)
           /\ Told(told, spoken, witnessed, session, rows, clock)
<1>1. Holds(detArmed, det, sample, session, witnessed, rows, clock, told, spoken)
      /\ Told(told, spoken, witnessed, session, rows, clock)
  BY HoldsNow, Zenon
<1>2. Len(rows) \in Nat
  BY <1>1, LenProperties, Zenon DEF Holds
<1>3. clock \in Nat /\ Spans(clock)
  BY <1>1, <1>2, ClockFacts, Zenon DEF Holds
<1>4. QED
  BY <1>1, <1>2, <1>3, Zenon DEF Holds

LEMMA TakeSampleKeeps ==
    ASSUME StoryInv, NEW s \in Snapshots, TakeSample(s)
    PROVE  StoryInv'
<1>1. /\ detArmed \in BOOLEAN /\ det \in Detector /\ sample \in Snapshots \cup {NoSample}
      /\ session \in Seq(Entry) /\ witnessed \in Account
      /\ rows \in Seq(Snapshots) /\ Len(rows) \in Nat /\ clock = Pace * Len(rows) /\ clock \in Nat
      /\ session # NoSession => told = NoText /\ spoken = Silence /\ Consistent(session, det, witnessed, clock)
      /\ detArmed => session # NoSession
  BY StoryNow, Zenon
<1>2. /\ session # NoSession /\ Len(rows) < MaxSamples /\ rows' = Append(rows, s) /\ clock' = clock + Pace
      /\ sample' = IF detArmed THEN s ELSE NoSample
      /\ detArmed' = detArmed /\ det' = det /\ session' = session /\ witnessed' = witnessed
      /\ told' = told /\ spoken' = spoken
  BY Zenon DEF TakeSample
<1>3. rows' \in Seq(Snapshots) /\ Len(rows') = Len(rows) + 1
  BY <1>1, <1>2, AppendProperties
<1>4. Len(rows') <= MaxSamples
  <2>1. MaxSamples \in Nat
    BY ClockFacts, Zenon
  <2>2. QED
    BY <1>1, <1>2, <1>3, <2>1
<1>5. clock' = Pace * Len(rows')
  BY <1>1, <1>2, <1>3, ClockFacts, Zenon
<1>6. clock' \in Nat /\ clock <= clock'
  <2>1. Pace \in Nat
    BY ClockFacts, Zenon
  <2>2. QED
    BY <1>1, <1>2, <2>1
<1>7. Consistent(session, det, witnessed, clock')
  BY <1>1, <1>2, <1>6, TimePasses, Zenon
<1>8. sample' \in Snapshots \cup {NoSample}
  BY <1>2, Zenon
<1>9. Holds(detArmed', det', sample', session', witnessed', rows', clock', told', spoken')
  BY <1>1, <1>2, <1>3, <1>4, <1>5, <1>7, <1>8, Zenon DEF Holds
<1>10. Told(told', spoken', witnessed', session', rows', clock')
  BY <1>1, <1>2, <1>7, NothingTold, Zenon
<1>11. QED
  BY <1>9, <1>10, HoldsNext, Zenon

LEMMA RunChecksKeeps == ASSUME StoryInv, RunChecks PROVE StoryInv'
<1>1. /\ detArmed \in BOOLEAN /\ det \in Detector /\ sample \in Snapshots \cup {NoSample}
      /\ session \in Seq(Entry) /\ witnessed \in Account
      /\ rows \in Seq(Snapshots) /\ Len(rows) <= MaxSamples /\ clock = Pace * Len(rows) /\ clock \in Nat
      /\ session # NoSession => told = NoText /\ spoken = Silence /\ Consistent(session, det, witnessed, clock)
      /\ detArmed => session # NoSession
      /\ Told(told, spoken, witnessed, session, rows, clock)
  BY StoryNow, Zenon
<1>2. /\ sample # NoSample /\ sample' = NoSample /\ det' = Checks(sample).d
      /\ detArmed' = detArmed /\ rows' = rows /\ clock' = clock /\ told' = told /\ spoken' = spoken
      /\ session = NoSession => session' = session /\ witnessed' = witnessed
      /\ session # NoSession =>
           session' = session \o Checks(sample).log /\ witnessed' = Witness(witnessed, sample)
  BY Zenon DEF RunChecks
<1>3. sample \in Snapshots /\ sample' \in Snapshots \cup {NoSample}
  BY <1>1, <1>2, Zenon
<1>4. CASE session = NoSession
  <2>1. LogInv(NoSession, det)
    <3>1. DOMAIN NoSession = {}
      BY DEF NoSession
    <3>2. \A m : Clear(NoSession, m)
      BY <3>1, Zenon DEF Clear
    <3>3. Known(NoSession, det)
      BY <3>2, Zenon DEF Known
    <3>4. QED
      BY <3>3, <1>1, <1>4, NoEdges, Zenon DEF LogInv
  <2>2. Reported(NoSession, det, sample, Checks(sample).d, Checks(sample).log)
    BY <2>1, <1>1, <1>3, ChecksReport, Zenon
  <2>3. det' \in Detector
    BY <2>2, <1>2, Zenon DEF Reported
  <2>4. Holds(detArmed', det', sample', session', witnessed', rows', clock', told', spoken')
    BY <2>3, <1>1, <1>2, <1>3, <1>4, Zenon DEF Holds
  <2>5. Told(told', spoken', witnessed', session', rows', clock')
    BY <1>1, <1>2, <1>4, Zenon
  <2>6. QED
    BY <2>4, <2>5, HoldsNext, Zenon
<1>5. CASE session # NoSession
  <2> DEFINE J == Checks(sample).log
             M == session \o J
  <2>1. told = NoText /\ spoken = Silence /\ Consistent(session, det, witnessed, clock)
    BY <1>1, <1>5, Zenon
  <2>2. Reported(session, det, sample, Checks(sample).d, J)
    <3>1. LogInv(session, det)
      BY <2>1, Zenon DEF Consistent
    <3>2. QED
      BY <3>1, <1>1, <1>3, ChecksReport, Zenon
  <2>3. Witness(witnessed, sample) \in Account
        /\ Consistent(M, Checks(sample).d, Witness(witnessed, sample), clock)
    BY <2>1, <2>2, <1>1, <1>3, ChecksAgree, Zenon
  <2>4. Checks(sample).d \in Detector /\ J \in Seq(Entry)
    BY <2>2, Zenon DEF Reported
  <2>5. M \in Seq(Entry) /\ M # NoSession
    <3> HIDE DEF J
    <3>1. M \in Seq(Entry) /\ Len(M) = Len(session) + Len(J) /\ Len(session) \in Nat /\ Len(J) \in Nat
      BY <2>4, <1>1, Joined
    <3>2. Len(session) # 0
      BY <1>1, <1>5, EmptySeq DEF NoSession
    <3>3. Len(M) # 0 /\ Len(NoSession) = 0
      BY <3>1, <3>2 DEF NoSession
    <3>4. QED
      BY <3>1, <3>3
  <2>6. session' = M /\ witnessed' = Witness(witnessed, sample) /\ det' = Checks(sample).d
    BY <1>2, <1>5, Zenon
  <2>7. session' \in Seq(Entry) /\ session' # NoSession /\ witnessed' \in Account /\ det' \in Detector
        /\ Consistent(session', det', witnessed', clock)
    BY <2>3, <2>4, <2>5, <2>6, Zenon
  <2>8. Holds(detArmed', det', sample', session', witnessed', rows', clock', told', spoken')
    BY <2>1, <2>7, <1>1, <1>2, <1>3, Zenon DEF Holds
  <2>9. Told(told', spoken', witnessed', session', rows', clock')
    BY <2>1, <2>7, <1>2, NothingTold, Zenon
  <2>10. QED
    BY <2>8, <2>9, HoldsNext, Zenon
<1>6. QED
  BY <1>4, <1>5

LEMMA BeginFlightKeeps == ASSUME StoryInv, BeginFlight PROVE StoryInv'
<1>1. sample \in Snapshots \cup {NoSample}
  BY StoryNow, Zenon
<1>2. /\ detArmed' = TRUE /\ det' = FreshFlight /\ clock' = 0 /\ witnessed' = Nothing
      /\ session' = <<[name |-> "armed", value |-> 0, at |-> 0]>> /\ rows' = <<>>
      /\ told' = NoText /\ spoken' = Silence /\ sample' = sample
  BY Zenon DEF BeginFlight
<1>3. session' \in Seq(Entry) /\ session' # NoSession /\ FreshFlight \in Detector /\ Nothing \in Account
      /\ Consistent(session', FreshFlight, Nothing, 0)
  BY <1>2, FlightBegins, Zenon
<1>4. <<>> \in Seq(Snapshots) /\ Len(<<>>) = 0
  BY EmptySeq
<1>5. 0 <= MaxSamples /\ 0 = Pace * 0
  <2>1. Pace \in Nat /\ MaxSamples \in Nat
    BY ClockFacts, Zenon
  <2>2. QED
    BY <2>1
<1>6. Holds(detArmed', det', sample', session', witnessed', rows', clock', told', spoken')
  BY <1>1, <1>2, <1>3, <1>4, <1>5, Zenon DEF Holds
<1>7. Told(told', spoken', witnessed', session', rows', clock')
  BY <1>2, <1>3, NothingTold, Zenon
<1>8. QED
  BY <1>6, <1>7, HoldsNext, Zenon

LEMMA StopDetectorKeeps == ASSUME StoryInv, StopDetector PROVE StoryInv'
<1>1. /\ det \in Detector /\ sample \in Snapshots \cup {NoSample} /\ witnessed \in Account
      /\ rows \in Seq(Snapshots) /\ Len(rows) <= MaxSamples /\ clock = Pace * Len(rows) /\ clock \in Nat
      /\ session # NoSession => told = NoText /\ spoken = Silence /\ Consistent(session, det, witnessed, clock)
      /\ detArmed => session # NoSession
  BY StoryNow, Zenon
<1>2. /\ detArmed /\ detArmed' = FALSE /\ session' = Append(session, Event("disarmed", 0))
      /\ det' = det /\ sample' = sample /\ rows' = rows /\ clock' = clock /\ witnessed' = witnessed
      /\ told' = told /\ spoken' = spoken
  BY Zenon DEF StopDetector
<1>3. told = NoText /\ spoken = Silence /\ Consistent(session, det, witnessed, clock)
  BY <1>1, <1>2, Zenon
<1>4. session' \in Seq(Entry) /\ session' # NoSession /\ Consistent(session', det, witnessed, clock)
  BY <1>1, <1>2, <1>3, DisarmEnds, Zenon
<1>5. Holds(detArmed', det', sample', session', witnessed', rows', clock', told', spoken')
  BY <1>1, <1>2, <1>3, <1>4, Zenon DEF Holds
<1>6. Told(told', spoken', witnessed', session', rows', clock')
  BY <1>2, <1>3, <1>4, NothingTold, Zenon
<1>7. QED
  BY <1>5, <1>6, HoldsNext, Zenon

LEMMA TellFlightKeeps == ASSUME StoryInv, TellFlight PROVE StoryInv'
<1>1. /\ detArmed \in BOOLEAN /\ det \in Detector /\ sample \in Snapshots \cup {NoSample} /\ witnessed \in Account
      /\ rows \in Seq(Snapshots) /\ Len(rows) <= MaxSamples /\ clock = Pace * Len(rows) /\ clock \in Nat
      /\ session # NoSession => told = NoText /\ spoken = Silence /\ Consistent(session, det, witnessed, clock)
  BY StoryNow, Zenon
<1>2. /\ ~detArmed /\ session # NoSession /\ session' = NoSession /\ told' = Text(session)
      /\ detArmed' = detArmed /\ det' = det /\ sample' = sample /\ rows' = rows /\ clock' = clock
      /\ witnessed' = witnessed /\ spoken' = spoken
  BY Zenon DEF TellFlight
<1>3. spoken = Silence /\ Consistent(session, det, witnessed, clock)
  BY <1>1, <1>2, Zenon
<1>4. Truly(told', witnessed')
  BY <1>1, <1>2, <1>3, TextIsTrue, Zenon
<1>5. AddsUp(spoken'.tracks, rows', clock')
  <2>1. spoken'.tracks = <<>>
    BY <1>2, <1>3 DEF Silence
  <2>2. QED
    BY <2>1, Zenon DEF AddsUp
<1>6. Told(told', spoken', witnessed', session', rows', clock')
  BY <1>2, <1>4, <1>5, NoEdges, Zenon DEF Told
<1>7. NoSession \in Seq(Entry)
  BY EmptySeq DEF NoSession
<1>8. Holds(detArmed', det', sample', session', witnessed', rows', clock', told', spoken')
  BY <1>1, <1>2, <1>7, Zenon DEF Holds
<1>9. QED
  BY <1>6, <1>8, HoldsNext, Zenon

LEMMA TellSummaryKeeps == ASSUME StoryInv, NEW alarms \in Alarms, TellSummary(alarms) PROVE StoryInv'
<1>1. /\ detArmed \in BOOLEAN /\ det \in Detector /\ sample \in Snapshots \cup {NoSample} /\ witnessed \in Account
      /\ rows \in Seq(Snapshots) /\ Len(rows) <= MaxSamples /\ clock = Pace * Len(rows) /\ clock \in Nat
      /\ Spans(clock)
      /\ session # NoSession => told = NoText
  BY StoryNow, Zenon
<1>2. /\ ~detArmed /\ session # NoSession /\ session' = NoSession
      /\ spoken' = [tracks |-> Strung(Summarize, alarms)]
      /\ detArmed' = detArmed /\ det' = det /\ sample' = sample /\ rows' = rows /\ clock' = clock
      /\ witnessed' = witnessed /\ told' = told
  BY Zenon DEF TellSummary
<1>3. AddsUp(Strung(Summarize, alarms), rows, clock)
  BY <1>1, TellingAddsUp, Zenon
<1>4. AddsUp(spoken'.tracks, rows', clock')
  <2>1. spoken'.tracks = Strung(Summarize, alarms)
    BY <1>2
  <2>2. QED
    BY <2>1, <1>2, <1>3, Zenon
<1>5. Told(told', spoken', witnessed', session', rows', clock')
  BY <1>1, <1>2, <1>4, NoEdges, Zenon DEF Told
<1>6. NoSession \in Seq(Entry)
  BY EmptySeq DEF NoSession
<1>7. Holds(detArmed', det', sample', session', witnessed', rows', clock', told', spoken')
  BY <1>1, <1>2, <1>6, Zenon DEF Holds
<1>8. QED
  BY <1>5, <1>7, HoldsNext, Zenon

LEMMA StoryKeeps == StoryInv /\ [StoryNext]_storyVars => StoryInv'
<1> SUFFICES ASSUME StoryInv, [StoryNext]_storyVars PROVE StoryInv'
  OBVIOUS
<1>1. CASE \E s \in Snapshots : TakeSample(s)
  BY <1>1, TakeSampleKeeps, Zenon
<1>2. CASE \E alarms \in Alarms : TellSummary(alarms)
  BY <1>2, TellSummaryKeeps, Zenon
<1>3. CASE RunChecks
  BY <1>3, RunChecksKeeps, Zenon
<1>4. CASE BeginFlight
  BY <1>4, BeginFlightKeeps, Zenon
<1>5. CASE StopDetector
  BY <1>5, StopDetectorKeeps, Zenon
<1>6. CASE TellFlight
  BY <1>6, TellFlightKeeps, Zenon
<1>7. CASE UNCHANGED storyVars
  <2>1. /\ detArmed' = detArmed /\ det' = det /\ sample' = sample /\ session' = session /\ rows' = rows
        /\ clock' = clock /\ witnessed' = witnessed /\ told' = told /\ spoken' = spoken
    BY <1>7 DEF storyVars
  <2>2. QED
    BY <2>1, HoldsNow, HoldsNext, Zenon
<1>8. QED
  BY <1>1, <1>2, <1>3, <1>4, <1>5, <1>6, <1>7, Zenon DEF StoryNext

\* What the operator reads and hears after a flight is what happened in it, the
\* numbers included, in every flight of whatever snapshots and alarms
\* (flight_events.go, narrator.go, recorder.go Summarize).
THEOREM StoryTold == StorySpec => []StoryIsTold
<1>1. StoryInv => StoryIsTold
  BY Zenon DEF StoryInv
<1>2. QED
  BY <1>1, StoryStarts, StoryKeeps, PTL DEF StorySpec
================================================================================
