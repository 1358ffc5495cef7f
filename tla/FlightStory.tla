---------------------------- MODULE FlightStory ----------------------------
(***************************************************************************)
(* What is told of a flight: the detector that turns telemetry snapshots   *)
(* into events (cmd/zerotxd/flight_events.go), the events of the session,  *)
(* and the narrator that makes one text of them after the disarm, or       *)
(* strings recorded numbers together when there are none                   *)
(* (internal/narrator, internal/phrasebook).                               *)
(*                                                                         *)
(* The sampler reads the armed flag, then makes its checks; the arm-event  *)
(* handler sets the flag on another goroutine.  A snapshot is a record of  *)
(* the readings the checks look at, -1 for none; how sessions are saved is *)
(* in Recorder and FlightLog.                                              *)
(***************************************************************************)
EXTENDS Integers, SequencesExt

CONSTANTS Snapshots,  \* what the sampler may find
          Alarms,     \* <<criticals, warnings>> that may have been sounded in a flight
          Pace,       \* seconds between two samples
          MaxSamples  \* bound: samples in a flight

\* A reading that is told has at most four digits, rounding included: numberFragments
\* has tracks for no more, "1000-9999" (narrator.go:428), and so for the minutes.
ASSUME StoryAssumption ==
    /\ Pace \in Nat \ {0} /\ MaxSamples \in Nat /\ Pace * MaxSamples < 600000
    /\ Snapshots \subseteq [sats : Int, dist : Int, alt : Int, kmh : Int, cell : Int, lq : Int, mode : STRING]
    /\ \A s \in Snapshots : s.alt < 9995 /\ s.kmh < 10000
    /\ Alarms \subseteq (0..9999) \X (0..9999)

VARIABLES detArmed,  \* flightEventDetector.armed
          det,       \* its per-flight state
          sample,    \* the snapshot of a Tick that has read armed
          session,   \* events of the session, or NoSession
          rows,      \* telemetry rows of the session
          clock,     \* seconds since the session began
          witnessed, \* history: what the checks were given in this session
          told,      \* the text spoken last, or NoText
          spoken     \* the tracks strung together last

storyVars == <<detArmed, det, sample, session, rows, clock, witnessed, told, spoken>>

NoSample  == [dist |-> -2]
NoSession == <<>>
NoText    == [seconds |-> -1]
Silence   == [tracks |-> <<>>]

Maximum(a, b) == IF a > b THEN a ELSE b

\* resetFlightState.
FreshFlight == [sats |-> -1, locked |-> FALSE, homed |-> FALSE, peakDist |-> 0, peakAlt |-> 0,
                battery |-> 0, link |-> 0, mode |-> "", rth |-> FALSE, failsafe |-> FALSE]

Nothing == [dist |-> 0, alt |-> 0, low |-> -1, critical |-> -1, rth |-> FALSE, failsafe |-> FALSE]

----------------------------------------------------------------------------
(* The checks.  Each yields the detector's new state and the events, in a  *)
(* sequence of at most two.                                                *)

Event(name, value) == [name |-> name, value |-> value, at |-> clock]
If(condition, name, value) == IF condition THEN <<Event(name, value)>> ELSE <<>>

checkGPS(d, s) ==
    IF s.sats < 0 THEN [d |-> d, log |-> <<>>]
    ELSE LET locked == s.sats >= 6
         IN [d |-> [d EXCEPT !.sats = s.sats, !.locked = locked],
             log |-> If(d.sats < 0 /\ s.sats > 0, "first-sats", s.sats)
                     \o If(locked /\ ~d.locked, "gps-lock-acquired", s.sats)
                     \o If(~locked /\ d.locked, "gps-lock-lost", s.sats)]

checkHome(d, s) == [d |-> [d EXCEPT !.homed = @ \/ s.dist >= 0], log |-> If(~d.homed /\ s.dist >= 0, "home-set", 0)]

Failsafes == {"FS", "!FS", "!ERR"}

\* Whether the mode is stale does not matter here.
checkMode(d, s) ==
    IF s.mode \in {"", d.mode} THEN [d |-> d, log |-> <<>>]
    ELSE LET rth == s.mode = "RTH"
             failsafe == s.mode \in Failsafes
         IN [d |-> [d EXCEPT !.mode = s.mode, !.rth = rth, !.failsafe = failsafe],
             log |-> <<Event("mode-change", 0)>> \o If(rth /\ ~d.rth, "rth-active", 0)
                     \o If(failsafe /\ ~d.failsafe, "failsafe", 0)]

\* A peak is logged when it enters another bucket, and kept in any case.
checkPosition(d, s) ==
    LET farther == s.dist > d.peakDist
        higher  == s.sats >= 0 /\ s.alt > d.peakAlt
    IN [d |-> [d EXCEPT !.peakDist = Maximum(@, s.dist), !.peakAlt = IF higher THEN s.alt ELSE @],
        log |-> If(farther /\ s.dist \div 50 > d.peakDist \div 50, "peak-distance", s.dist)
                \o If(higher /\ s.alt \div 25 > d.peakAlt \div 25, "peak-altitude", s.alt)]

\* Bands of the cell voltage, in hundredths: 0 fine, 1 low, 2 critical.
Band(cell) == IF cell < 340 THEN 2 ELSE IF cell < 360 THEN 1 ELSE 0

checkBattery(d, s) ==
    IF s.cell <= 0 THEN [d |-> d, log |-> <<>>]
    ELSE LET band == Band(s.cell)
         IN [d |-> [d EXCEPT !.battery = band],
             log |-> If(band > d.battery, IF band = 2 THEN "battery-critical" ELSE "battery-low", s.cell)]

Quality(lq) == IF lq < 50 THEN 2 ELSE IF lq < 80 THEN 1 ELSE 0

checkLink(d, s) ==
    IF s.lq < 0 THEN [d |-> d, log |-> <<>>]
    ELSE LET q == Quality(s.lq)
             recovered == q < d.link /\ s.lq >= 90
         IN [d |-> [d EXCEPT !.link = IF q > @ \/ recovered THEN q ELSE @],
             log |-> If(q > d.link, IF q = 2 THEN "link-poor" ELSE "link-degraded", s.lq)
                     \o If(recovered, "link-recovered", s.lq)]

\* Tick, after its test of armed.
Checks(s) ==
    LET gps   == checkGPS(det, s)
        homed == checkHome(gps.d, s)
        mode  == checkMode(homed.d, s)
        place == checkPosition(mode.d, s)
        power == checkBattery(place.d, s)
        link  == checkLink(power.d, s)
    IN [d |-> link.d, log |-> gps.log \o homed.log \o mode.log \o place.log \o power.log \o link.log]

First(time, holds) == IF time < 0 /\ holds THEN clock ELSE time

Witness(w, s) ==
    [dist |-> Maximum(w.dist, s.dist), alt |-> IF s.sats >= 0 THEN Maximum(w.alt, s.alt) ELSE w.alt,
     low |-> First(w.low, s.cell > 0 /\ Band(s.cell) = 1), critical |-> First(w.critical, s.cell > 0 /\ Band(s.cell) = 2),
     rth |-> w.rth \/ s.mode = "RTH", failsafe |-> w.failsafe \/ s.mode \in Failsafes]

----------------------------------------------------------------------------
(* The sampler.                                                            *)

\* LogTelemetry keeps a row of the session, then Tick reads the armed flag.
TakeSample(s) ==
    /\ sample = NoSample /\ session # NoSession /\ Len(rows) < MaxSamples
    /\ rows' = Append(rows, s) /\ clock' = clock + Pace
    /\ sample' = IF detArmed THEN s ELSE NoSample
    /\ UNCHANGED <<detArmed, det, session, witnessed, told, spoken>>

\* Without a session LogEvent's rows are never read.
RunChecks ==
    /\ sample # NoSample /\ sample' = NoSample /\ det' = Checks(sample).d
    /\ IF session = NoSession THEN UNCHANGED <<session, witnessed>>
       ELSE session' = session \o Checks(sample).log /\ witnessed' = Witness(witnessed, sample)
    /\ UNCHANGED <<detArmed, rows, clock, told, spoken>>

----------------------------------------------------------------------------
(* The text.                                                               *)

Values(log, name) == {log[i].value : i \in {j \in DOMAIN log : log[j].name = name}}
Times(log, name)  == {log[i].at : i \in {j \in DOMAIN log : log[j].name = name}}
Highest(values)   == CHOOSE v \in values \cup {0} : \A w \in values \cup {0} : w <= v

Earliest(times) == IF times = {} THEN -1 ELSE CHOOSE t \in times : \A u \in times : t <= u

\* buildPostFlightTTS.
Text(log) ==
    [seconds  |-> Last(log).at - Head(log).at,
     distance |-> Highest(Values(log, "peak-distance")),
     altitude |-> Highest(Values(log, "peak-altitude")),
     failsafe |-> Times(log, "failsafe") # {},
     rth      |-> Times(log, "rth-active") # {},
     critical |-> Earliest(Times(log, "battery-critical")),
     low      |-> IF Times(log, "battery-critical") = {} THEN Earliest(Times(log, "battery-low")) ELSE -1]

----------------------------------------------------------------------------
(* Tracks: <<number>> of the dictionary or <<unit>>, strung together.      *)

Part(n) == IF n = 0 THEN <<>> ELSE <<n>>

NumberFragments(n) ==
    LET thousands == IF n >= 10000 THEN 9000 ELSE (n \div 1000) * 1000
        hundreds  == ((n - thousands) \div 100) * 100
        rest      == n - thousands - hundreds
        tens      == IF rest >= 30 THEN (rest \div 10) * 10 ELSE 0
    IN IF n <= 30 THEN <<n>> ELSE Part(thousands) \o Part(hundreds) \o Part(tens) \o Part(rest - tens)

RoundToStep(n, step) == IF 2 * (n % step) >= step THEN n + step - (n % step) ELSE n - (n % step)

\* A phrase: the tracks of a number and its unit.
Phrase(n, unit) == [number |-> NumberFragments(n), unit |-> unit]

DurationFragments(seconds) ==
    IF seconds < 60 THEN <<Phrase(seconds, "seconds")>>
    ELSE <<Phrase(seconds \div 60, "minutes")>>
         \o (IF seconds % 60 > 0 THEN <<Phrase(seconds % 60, "seconds")>> ELSE <<>>)

AltitudeFragments(meters) == Phrase(IF meters > 100 THEN RoundToStep(meters, 10) ELSE meters, "meters")

\* batteryUsedPercent, in hundredths of a volt; a cell has 0.9 V to give.
UsedPercent(from, to) ==
    LET cells     == CHOOSE n \in 1..12 : n = 12 \/ (420 * n >= from /\ (n = 1 \/ 420 * (n - 1) < from))
        Charge(v) == IF v < 330 * cells THEN 0 ELSE IF v > 420 * cells THEN 90 * cells ELSE v - 330 * cells
    IN Maximum(0, (200 * (Charge(from) - Charge(to)) + 90 * cells) \div (180 * cells))

\* One alarm of a kind is told without its number.
AlarmFragments(criticals, warnings) ==
    IF criticals > 1 THEN <<Phrase(criticals, "criticals")>>
    ELSE IF criticals = 0 /\ warnings > 1 THEN <<Phrase(warnings, "warnings")>> ELSE <<>>

\* recorder.Summarize: rows without a reading do not count; the pack has four cells.
Summarize ==
    LET fixes   == {i \in DOMAIN rows : rows[i].sats >= 0}
        powered == {i \in DOMAIN rows : rows[i].cell > 0}
        Pack(i) == IF powered = {} THEN 0 ELSE 4 * rows[i].cell
    IN [seconds |-> clock, alt |-> Highest({rows[i].alt : i \in fixes}), kmh |-> Highest({rows[i].kmh : i \in fixes}),
        from |-> Pack(Earliest(powered)), to |-> Pack(Highest(powered))]

\* buildPostFlightSequence.
Strung(s, alarms) ==
    LET used == UsedPercent(s.from, s.to)
    IN (IF s.seconds > 0 THEN DurationFragments(s.seconds) ELSE <<>>)
       \o (IF s.alt > 0 THEN <<AltitudeFragments(s.alt)>> ELSE <<>>)
       \o (IF s.kmh > 0 THEN <<Phrase(s.kmh, "kmh")>> ELSE <<>>)
       \o (IF used > 0 THEN <<Phrase(RoundToStep(used, 5), "percent")>> ELSE <<>>)
       \o AlarmFragments(alarms[1], alarms[2])

----------------------------------------------------------------------------
(* flightArmedHandler.                                                     *)

\* Mutant: the detector goes on from the flight before.
BeginFlight_NoReset ==
    /\ ~detArmed /\ session = NoSession
    /\ detArmed' = TRUE /\ det' = det /\ clock' = 0 /\ witnessed' = Nothing
    /\ session' = <<[name |-> "armed", value |-> 0, at |-> 0]>> /\ rows' = <<>>
    /\ told' = NoText /\ spoken' = Silence /\ UNCHANGED sample

\* OnArm and SetArmed(true).
BeginFlight ==
    /\ ~detArmed /\ session = NoSession
    /\ detArmed' = TRUE /\ det' = FreshFlight /\ clock' = 0 /\ witnessed' = Nothing
    /\ session' = <<[name |-> "armed", value |-> 0, at |-> 0]>> /\ rows' = <<>>
    /\ told' = NoText /\ spoken' = Silence /\ UNCHANGED sample

\* SetArmed(false); a Tick that has read armed may still make its checks.
StopDetector ==
    /\ detArmed /\ detArmed' = FALSE /\ session' = Append(session, Event("disarmed", 0))
    /\ UNCHANGED <<det, sample, rows, clock, witnessed, told, spoken>>

\* CurrentSessionEvents and SpeakPostFlight, in any order of the rows of one moment.
TellFlight ==
    /\ ~detArmed /\ session # NoSession /\ session' = NoSession
    /\ told' = Text(session)
    /\ UNCHANGED <<detArmed, det, sample, rows, clock, witnessed, spoken>>

\* The events could not be read; the saved file is summarised instead.
TellSummary(alarms) ==
    /\ ~detArmed /\ session # NoSession /\ session' = NoSession
    /\ spoken' = [tracks |-> Strung(Summarize, alarms)]
    /\ UNCHANGED <<detArmed, det, sample, rows, clock, witnessed, told>>

StoryInit ==
    /\ detArmed = FALSE /\ det = FreshFlight /\ sample = NoSample /\ session = NoSession /\ rows = <<>>
    /\ clock = 0 /\ witnessed = Nothing /\ told = NoText /\ spoken = Silence

StoryNext ==
    \/ \E s \in Snapshots : TakeSample(s)
    \/ \E alarms \in Alarms : TellSummary(alarms)
    \/ RunChecks \/ BeginFlight \/ StopDetector \/ TellFlight

StorySpec == StoryInit /\ [][StoryNext]_storyVars

----------------------------------------------------------------------------
Within(peak, of, step) == peak <= of /\ of < (peak \div step) * step + step

\* What the operator is told is what happened: the peaks to the bucket, every
\* failsafe and return, and the first moment of the worst state of the battery,
\* whatever the flight before left in the detector (flight_events.go checks,
\* narrator.go buildPostFlightTTS).
StoryIsTrue ==
    told # NoText =>
      /\ Within(told.distance, witnessed.dist, 50) /\ Within(told.altitude, witnessed.alt, 25)
      /\ told.failsafe = witnessed.failsafe /\ told.rth = witnessed.rth
      /\ told.critical = witnessed.critical
      /\ told.low = IF witnessed.critical >= 0 THEN -1 ELSE witnessed.low

\* What has to happen between two events of the same name.
Ends == [n \in {"first-sats", "home-set", "gps-lock-acquired", "gps-lock-lost",
               "link-degraded", "link-poor", "link-recovered"} |->
           CASE n = "gps-lock-acquired" -> {"gps-lock-lost"}
             [] n = "gps-lock-lost" -> {"gps-lock-acquired"}
             [] n \in {"link-degraded", "link-poor"} -> {"link-recovered"}
             [] n = "link-recovered" -> {"link-degraded", "link-poor"}
             [] OTHER -> {}]

\* No event repeats what the operator has read already: a lock is lost between
\* two acquisitions and the reverse, a link that degrades again has recovered,
\* and one that recovers again had degraded (flight_events.go, "edge-triggered").
EventsAreEdges ==
    \A i, j \in DOMAIN session :
      i < j /\ session[i].name = session[j].name /\ session[i].name \in DOMAIN Ends
        => \E k \in i..j : session[k].name \in Ends[session[i].name]

Tracks == (0..30) \cup {10 * k : k \in 4..9} \cup {100 * k : k \in 1..9} \cup {1000 * k : k \in 1..9}

SumOf(s) == LET sum[i \in 0..Len(s)] == IF i = 0 THEN 0 ELSE sum[i - 1] + s[i] IN sum[Len(s)]
Spoken(unit) == {SumOf(spoken.tracks[i].number) : i \in {j \in DOMAIN spoken.tracks : spoken.tracks[j].unit = unit}}

Tops(name) == {rows[i][name] : i \in {j \in DOMAIN rows : rows[j].sats >= 0}}

\* Every number is spoken with tracks that exist (sounds/dictionary.yml) and
\* adds up to what was flown: minutes and seconds to the time since the arming,
\* the speed to the fastest row, the height to the highest, give or take the
\* rounding (narrator.go buildPostFlightSequence over recorder.go Summarize).
TracksAddUp ==
    spoken.tracks # <<>> =>
      /\ \A i \in DOMAIN spoken.tracks : ToSet(spoken.tracks[i].number) \subseteq Tracks
      /\ 60 * Highest(Spoken("minutes")) + Highest(Spoken("seconds")) = clock
      /\ Highest(Spoken("kmh")) = Highest(Tops("kmh"))
      /\ Highest(Spoken("meters")) - Highest(Tops("alt")) \in -5..5

\* The flight, as the operator reads and hears it afterwards: the parts above.
StoryIsTold == StoryIsTrue /\ EventsAreEdges /\ TracksAddUp
=============================================================================
