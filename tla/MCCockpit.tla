------------------------------- MODULE MCCockpit -------------------------------
(***************************************************************************)
(* What the operator touches and is told of a flight: the arm key and the  *)
(* button, the configuration of the firmware-level disarm, the display     *)
(* mode over flights and the panel behind it, the story of the flight and  *)
(* the weather at the site.  They share no variable here, and are explored *)
(* one after the other: focus names the one that acts, as in MCStation.    *)
(***************************************************************************)
EXTENDS ArmConfig, PanelInput, FlightModes, DisplayLink, FlightStory, WeatherCache, TLC

VARIABLE focus

MCThrSlot == [m \in Models |-> IF m = "taer" THEN 0 ELSE 2]
MCArmSlot == [m \in Models |-> 4]

Still == [sats |-> 8, dist |-> 0, alt |-> 0, kmh |-> 0, cell |-> 390, lq |-> 95, mode |-> "ANGL"]
MCSnapshots ==
    {Still, [Still EXCEPT !.dist = 40, !.alt = 30, !.kmh = 31, !.lq = 85],
     [Still EXCEPT !.dist = 60, !.kmh = 39, !.cell = 350, !.lq = 70],
     [Still EXCEPT !.dist = 120, !.alt = 20, !.kmh = 131, !.cell = 330, !.lq = 40, !.mode = "RTH"],
     [Still EXCEPT !.sats = -1, !.alt = 90, !.cell = 350, !.mode = "!FS"],
     [Still EXCEPT !.sats = 4, !.dist = -1, !.alt = 1035, !.cell = 0, !.lq = -1, !.mode = ""]}
MCAlarms == {<<0, 0>>, <<1, 2>>, <<31, 0>>, <<0, 100>>}

MCCells  == <<"a", "b", "g">>
MCGridOf == ("a" :> "g") @@ ("g" :> "g") @@ ("b" :> "b")

Components == {"config", "panel", "modes", "display", "story", "weather"}

\* A component out of focus starts in one of its initial states only.
Parked ==
    /\ focus # "config"  => holder = NoModel
    /\ focus # "panel"   => pin = [i \in Inputs |-> FALSE]
    /\ focus # "modes"   => ~loaded /\ reader = NoController
    /\ focus # "display" => ~port /\ screen = "IDLE"
    /\ focus # "weather" => fix = Nowhere

CockpitInit ==
    /\ focus \in Components
    /\ ConfigInit /\ PanelInit /\ ModesInit /\ DisplayInit
    /\ StoryInit /\ WeatherInit
    /\ Parked

Others ==
    /\ focus # "config"  => UNCHANGED acVars
    /\ focus # "panel"   => UNCHANGED piVars
    /\ focus # "modes"   => UNCHANGED modesVars
    /\ focus # "display" => UNCHANGED vars
    /\ focus # "story"   => UNCHANGED storyVars
    /\ focus # "weather" => UNCHANGED weatherVars
    /\ UNCHANGED focus

CockpitNext ==
    /\ \/ focus = "config" /\ ConfigNext
       \/ focus = "panel" /\ PanelNext
       \/ focus = "modes" /\ ModesNext
       \/ focus = "display" /\ DisplayNext
       \/ focus = "story" /\ StoryNext
       \/ focus = "weather" /\ WeatherNext
    /\ Others

cockpitVars == <<focus, acVars, piVars, modesVars, vars, storyVars, weatherVars>>

CockpitSpec == CockpitInit /\ [][CockpitNext]_cockpitVars

-----------------------------------------------------------------------------

\* The cockpit catches up with what happened: a key at rest is believed
\* (input_arm.c, main.go OnInputEvent), the post-flight banner comes down
\* (main.go flightArmedHandler), and a panel that stays plugged in shows the
\* wanted mode (manager.go Run).  Each under its module's own fairness.
CockpitCatchesUp ==
    /\ [](focus = "panel") /\ PanelFairness => KeyIsLearnt
    /\ [](focus = "modes") /\ ModesFairness => BannerComesDown
    /\ [](focus = "display") /\ DisplayFairness => PanelCatchesUp
================================================================================
