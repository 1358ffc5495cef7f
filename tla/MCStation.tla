------------------------------- MODULE MCStation -------------------------------
(***************************************************************************)
(* The components of the ground station that share no variable: each of    *)
(* them meets the others only in calls whose outcomes its own module takes *)
(* as free inputs, so that putting two of them into one state adds nothing *)
(* to what either can do.  Instead of their product one run explores them  *)
(* one after the other: focus, chosen at the start, names the one that     *)
(* acts, and the rest stays as it was initialised.                         *)
(***************************************************************************)
EXTENDS AudioPlayer, Voice, WeatherAlerts, PeriodicNarrator, IoHub, Framing, Health,
        Controllers, HeartbeatLed, Telemetry, CrsfTee, SatDownload, MapTiles, NetClass,
        StationGps, WsHub, TLC

VARIABLE focus

MCWords == ("failsafe" :> {"failsafe"}) @@ ("bat-low" :> {"low"})

MCBank  == ("failsafe" :> "mp3") @@ ("w-bat" :> "none") @@ ("low" :> "wav") @@ ("bat-low" :> "none")
MCParts == ("failsafe" :> << >>) @@ ("bat-low" :> <<"w-bat", "low">>)

Fine  == [wind |-> 5, gust |-> 8, dir |-> 10, aloft |-> 8, aloftDir |-> 350, precip |-> <<10>>, code |-> 1]
Sheared == [Fine EXCEPT !.aloft = 30]
Storm == [Sheared EXCEPT !.gust = 40, !.precip = <<10, 20, 90>>, !.code = 45, !.wind = 25]
MCSkies  == {Fine, Sheared, Storm}
MCSuns   == {[left |-> 200, elevation |-> 40, falling |-> FALSE],
             [left |-> 20, elevation |-> 4, falling |-> TRUE]}
MCLimits == [gust |-> 30, wind |-> 20, precip |-> 60, sunset |-> 30, shearDir |-> 45,
             shearRatio |-> 2, elevation |-> 6]

MCFlags   == [interval |-> 1, fields |-> {"battery"}]
MCConfigs == {[interval |-> 0, fields |-> {}], [interval |-> 2, fields |-> {"time-aloft"}],
              [interval |-> 1, fields |-> {"battery", "time-aloft"}]}

MCPayloads == {<<0>>, <<1, 3, 1>>, <<2, 0, 1, 2>>}

MCWindow == [d \in Devices |-> 1]

MCReadings == [gps |-> {"field", "tree"}, flightMode |-> {"ANGL", "!ERR"}]
MCFreshFor == [gps |-> 1, flightMode |-> 1]

MCGrids  == (1 :> {<<0, 0>>, <<1, 0>>}) @@ (2 :> {<<1, 3>>})
MCRegion == <<"lake", "field">>
MCStands == {<<-1413, -2803>>, <<2880, 25>>}

Components == {"audio", "voice", "alerts", "narrator", "hub", "framing", "health", "controllers",
               "led", "telemetry", "tee", "download", "tiles", "netclass", "gps", "ws"}

\* A component out of focus starts in one of its initial states only.
Parked ==
    /\ focus # "audio"       => threshold = "notice"
    /\ focus # "hub"         => address = "serial" /\ glass /\ plugged
    /\ focus # "health"      => attached = {} /\ ~loaded /\ settling = Done
                                /\ expected = CHOOSE e \in Baselines : TRUE
    /\ focus # "controllers" => listed = {}
    /\ focus # "tiles"       => ~fallback
    /\ focus # "gps"         => place = CHOOSE s \in Stands : TRUE

StationInit ==
    /\ focus \in Components
    /\ AudioInit /\ VoiceInit /\ AlertsInit /\ NarratorInit /\ HubInit
    /\ FramingInit /\ HealthInit /\ ControllersInit /\ LedInit /\ TelemetryInit /\ TeeInit
    /\ DownloadInit /\ TilesInit /\ NetClassInit /\ GpsInit /\ WsInit
    /\ Parked

Others ==
    /\ focus # "audio"       => UNCHANGED playerVars
    /\ focus # "voice"       => UNCHANGED voiceVars
    /\ focus # "alerts"      => UNCHANGED alertVars
    /\ focus # "narrator"    => UNCHANGED narratorVars
    /\ focus # "hub"         => UNCHANGED hubVars
    /\ focus # "framing"     => UNCHANGED framingVars
    /\ focus # "health"      => UNCHANGED healthVars
    /\ focus # "controllers" => UNCHANGED stickVars
    /\ focus # "led"         => UNCHANGED ledVars
    /\ focus # "telemetry"   => UNCHANGED telemetryVars
    /\ focus # "tee"         => UNCHANGED teeVars
    /\ focus # "download"    => UNCHANGED downloadVars
    /\ focus # "tiles"       => UNCHANGED tilesVars
    /\ focus # "netclass"    => UNCHANGED netclassVars
    /\ focus # "gps"         => UNCHANGED gpsVars
    /\ focus # "ws"          => UNCHANGED wsVars
    /\ UNCHANGED focus

StationNext ==
    /\ \/ focus = "audio" /\ AudioNext
       \/ focus = "voice" /\ VoiceNext
       \/ focus = "alerts" /\ AlertsNext
       \/ focus = "narrator" /\ NarratorNext
       \/ focus = "hub" /\ HubNext
       \/ focus = "framing" /\ FramingNext
       \/ focus = "health" /\ HealthNext
       \/ focus = "controllers" /\ ControllersNext
       \/ focus = "led" /\ LedNext
       \/ focus = "telemetry" /\ TelemetryNext
       \/ focus = "tee" /\ TeeNext
       \/ focus = "download" /\ DownloadNext
       \/ focus = "tiles" /\ TilesNext
       \/ focus = "netclass" /\ NetClassNext
       \/ focus = "gps" /\ GpsNext
       \/ focus = "ws" /\ WsNext
    /\ Others

stationVars ==
    <<focus, playerVars, voiceVars, alertVars, narratorVars, hubVars, framingVars,
      healthVars, stickVars, ledVars, telemetryVars, teeVars, downloadVars, tilesVars,
      netclassVars, gpsVars, wsVars>>

StationSpec == StationInit /\ [][StationNext]_stationVars

-----------------------------------------------------------------------------

\* What claims to be alive is: the heartbeat LED of the Pi (heartbeat.go) and, when
\* the arm machine is told of it, the readiness of the flight controller (main.go).
SignalsAreFresh == LedIsHonest /\ FcReadyIsRecent

-----------------------------------------------------------------------------
(* Liveness.  Each part is stated and explained in its module, and holds under *)
(* the fairness that its module gives for its own goroutines.                  *)

\* The operator hears: an alarm that is not acknowledged sounds again and again
\* (audio.go runAlarm).
AlarmsAreHeard == [](focus = "audio") /\ AudioFairness => CriticalRepeats

\* A flight is attended to: reports come as long as it lasts (main.go periodic
\* narrator), the last known position follows the aircraft (recovery.go), and a
\* controller that comes back and opens is in use again (main.go SetOnDeviceAdded).
FlightIsAttended ==
    /\ [](focus = "narrator") /\ NarratorFairness => FlightsAreNarrated
    /\ [](focus = "telemetry") /\ TelemetryFairness => LastKnownFollows
    /\ [](focus = "controllers") /\ ControllersFairness => ControllerComesBack

\* Nobody outside holds the daemon up: a reader that does not read, a browser
\* that is gone, a board that is unplugged (crsftee.go, stream.go, iohub.go).
ClientsLetGo ==
    /\ [](focus = "tee") /\ TeeFairness => ReaderIsNeverStalled
    /\ [](focus = "ws") /\ WsFairness => ClientsLeave
    /\ [](focus = "hub") /\ HubFairness => HubComesBack /\ FirehoseSettles

\* The station settles: the status page lets the operator go, a fix is followed,
\* the region's tiles get fresh, an interrupted download ends (server.go, gps.go,
\* tilewarm.go, sat-download main.go).
StationSettles ==
    /\ [](focus = "health") /\ HealthFairness => StationGetsReady
    /\ [](focus = "gps") /\ GpsFairness => FixIsFollowed
    /\ [](focus = "tiles") /\ TilesFairness => RegionIsRefreshed
    /\ [](focus = "download") /\ DownloadFairness => InterruptEnds
================================================================================
