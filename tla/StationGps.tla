----------------------------- MODULE StationGps -----------------------------
(***************************************************************************)
(* The receiver of the operator's own position (internal/gps).  One        *)
(* goroutine reads NMEA lines from the serial port, works on a copy of the *)
(* last state and publishes it with one atomic store; the others read that *)
(* state whenever they like: the watcher that announces the first fix once *)
(* (cmd/zerotxd/station_gps_watcher.go), the weather, the event of an      *)
(* arming.                                                                 *)
(*                                                                         *)
(* The receiver sends GGA and RMC in turn.  Without a fix its coordinates  *)
(* are empty or the last it knew.  A line may be garbled (bounded by       *)
(* MaxGarbled), the port may be unplugged, or send so much without a line  *)
(* end that the scanner gives up: the goroutine ends for good.  Places are *)
(* pairs of signed minutes of arc.                                         *)
(***************************************************************************)
EXTENDS Integers

CONSTANTS Stands,    \* where the station may stand, <<latitude, longitude>>
          Sights,    \* satellites in use the sky may offer, 0 for no fix
          Years,     \* years the receiver may believe in
          MaxGarbled \* bound: garbled lines

\* Two digits are all the receiver sends of a year (parseRMCTime).
ASSUME GpsAssumption ==
    /\ Stands # {} /\ Stands \subseteq Int \X Int /\ Sights \subseteq Nat
    /\ Years \subseteq 1980..2079 /\ MaxGarbled \in Nat

VARIABLES place,    \* where the station stands
          sats,     \* satellites the receiver uses
          turn,     \* sentence the receiver sends next
          sentence, \* line on the way, or NoLine
          state,    \* Reader.state
          running,  \* Reader.run has not returned
          shut,     \* Reader.closed
          heard,    \* history: the last place and year of an intact sentence
          watching, \* runStationGPSWatcher has not returned
          greeted,  \* announcements of a fix
          garbled   \* lines garbled so far

gpsVars == <<place, sats, turn, sentence, state, running, shut, heard, watching, greeted, garbled>>

NoLine   == [id |-> "none"]
Garbage  == [id |-> "garbage"]
Empty    == -1
NoCoords == <<>>

Size(v) == IF v < 0 THEN -v ELSE v

\* ddmm and the hemisphere.
Coordinate(v, positive, negative) ==
    [digits |-> 100 * (Size(v) \div 60) + (Size(v) % 60), hemi |-> IF v < 0 THEN negative ELSE positive]

----------------------------------------------------------------------------
(* Parsing.  An empty field leaves the state as it is.                     *)

\* Mutant: the sign is given to the degrees before the minutes are added.
parseLatLon_SignFirst(c) ==
    LET degrees == c.digits \div 100
    IN (IF c.hemi \in {"S", "W"} THEN -60 * degrees ELSE 60 * degrees) + (c.digits % 100)

parseLatLon(c) ==
    LET minutes == 60 * (c.digits \div 100) + (c.digits % 100)
    IN IF c.hemi \in {"S", "W"} THEN -minutes ELSE minutes

\* Two digits for the year.
parseRMCTime(yy) == IF yy >= 80 THEN 1900 + yy ELSE 2000 + yy

Moved(s, l) ==
    IF l.lat = NoCoords THEN s ELSE [s EXCEPT !.place = <<parseLatLon(l.lat), parseLatLon(l.lon)>>]

applyGGA(s, l) ==
    LET fix == IF l.quality <= 0 THEN "none" ELSE IF l.sats \in 0..3 THEN "2D" ELSE "3D"
    IN Moved(IF l.quality = Empty THEN s
             ELSE [s EXCEPT !.fix = fix, !.sats = IF l.sats = Empty THEN @ ELSE l.sats], l)

\* The status field is not looked at.
applyRMC(s, l) == Moved(IF l.yy = Empty THEN s ELSE [s EXCEPT !.year = parseRMCTime(l.yy)], l)

\* ParseSentence rejects what its checksum does not cover.
Applied(s, l) ==
    CASE l.id = "GGA" -> applyGGA(s, l)
      [] l.id = "RMC" -> applyRMC(s, l)
      [] OTHER -> s

----------------------------------------------------------------------------
(* The receiver and its cable.                                             *)

GpsUnchanged == UNCHANGED <<state, running, shut, heard, watching, greeted>>

Coordinates(where) == [lat |-> Coordinate(where[1], "N", "S"), lon |-> Coordinate(where[2], "E", "W"), at |-> where]
NoPosition == [lat |-> NoCoords, lon |-> NoCoords, at |-> NoCoords]

\* GGA: quality, satellites, position.  RMC: date and position.
Sentences ==
    LET positions == IF sats > 0 THEN {Coordinates(place)}
                     ELSE {NoPosition} \cup (IF heard.place = NoCoords THEN {} ELSE {Coordinates(heard.place)})
    IN IF turn = "GGA"
       THEN {[id |-> "GGA", quality |-> q, sats |-> n, lat |-> p.lat, lon |-> p.lon, at |-> p.at] :
               q \in IF sats > 0 THEN {1} ELSE {0}, n \in {sats, Empty}, p \in positions}
       ELSE {[id |-> "RMC", yy |-> y, lat |-> p.lat, lon |-> p.lon, at |-> p.at] :
               y \in {z % 100 : z \in Years} \cup {Empty}, p \in positions}

SendSentence ==
    /\ sentence = NoLine /\ running
    /\ sentence' \in Sentences /\ turn' = (IF turn = "GGA" THEN "RMC" ELSE "GGA")
    /\ GpsUnchanged /\ UNCHANGED <<place, sats, garbled>>

Garble ==
    /\ sentence \notin {NoLine, Garbage} /\ garbled < MaxGarbled
    /\ sentence' = Garbage /\ garbled' = garbled + 1
    /\ GpsUnchanged /\ UNCHANGED <<place, sats, turn>>

MoveStation ==
    /\ \E p \in Stands, n \in Sights : <<p, n>> # <<place, sats>> /\ place' = p /\ sats' = n
    /\ GpsUnchanged /\ UNCHANGED <<turn, sentence, garbled>>

----------------------------------------------------------------------------
(* Reader.                                                                 *)

\* One turn of run's loop: a line that comes after Close is not applied.
ReadLine ==
    /\ running /\ sentence # NoLine /\ sentence' = NoLine
    /\ IF shut THEN running' = FALSE /\ UNCHANGED <<state, heard>>
       ELSE /\ state' = Applied(state, sentence) /\ UNCHANGED running
            /\ heard' = [place |-> IF sentence.id \in {"GGA", "RMC"} /\ sentence.at # NoCoords THEN sentence.at ELSE heard.place,
                         year |-> IF sentence.id = "RMC" /\ sentence.yy # Empty
                                  THEN CHOOSE y \in Years : y % 100 = sentence.yy ELSE heard.year]
    /\ UNCHANGED <<place, sats, turn, shut, watching, greeted, garbled>>

\* End of file, a read error or an over-long line: scanner.Scan is false.
LoseSource ==
    /\ running /\ running' = FALSE /\ sentence' = NoLine
    /\ UNCHANGED <<place, sats, turn, state, shut, heard, watching, greeted, garbled>>

CloseReader ==
    /\ ~shut /\ shut' = TRUE
    /\ UNCHANGED <<place, sats, turn, sentence, state, running, heard, watching, greeted, garbled>>

\* runStationGPSWatcher.
WatchFix ==
    /\ watching /\ state.fix # "none"
    /\ watching' = FALSE /\ greeted' = greeted + 1
    /\ UNCHANGED <<place, sats, turn, sentence, state, running, shut, heard, garbled>>

GpsInit ==
    /\ place \in Stands /\ sats = 0 /\ turn = "GGA" /\ sentence = NoLine
    /\ state = [fix |-> "none", sats |-> 0, place |-> NoCoords, year |-> 0]
    /\ running = TRUE /\ shut = FALSE /\ heard = [place |-> NoCoords, year |-> 0]
    /\ watching = TRUE /\ greeted = 0 /\ garbled = 0

GpsNext == SendSentence \/ Garble \/ MoveStation \/ ReadLine \/ LoseSource \/ CloseReader \/ WatchFix

GpsFairness == WF_gpsVars(SendSentence) /\ WF_gpsVars(ReadLine) /\ WF_gpsVars(WatchFix)

GpsSpec == GpsInit /\ [][GpsNext]_gpsVars /\ GpsFairness

----------------------------------------------------------------------------
\* The published position and date are those of the last intact sentence that
\* had any, whatever hemisphere the station is in and however sentences with
\* empty fields, lost fixes and garbled lines came in between (nmea.go
\* parseLatLon, parseRMCTime, applyGGA, applyRMC).
StationIsTrue == state.place = heard.place /\ state.year = heard.year

\* While the goroutine reads, a lost fix does not stay published, and a fix that
\* stays is announced (gps.go run, station_gps_watcher.go).
FixIsFollowed ==
    /\ (running /\ ~shut /\ sats = 0) ~> (state.fix = "none" \/ sats > 0 \/ ~running \/ shut)
    /\ (running /\ ~shut /\ sats > 0) ~> (greeted = 1 \/ sats = 0 \/ ~running \/ shut)
=============================================================================
