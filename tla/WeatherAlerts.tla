----------------------------- MODULE WeatherAlerts -----------------------------
(***************************************************************************)
(* Weather alerts: the rules over current weather and sun                  *)
(* (internal/wxalert), and the minute loop that debounces them and puts    *)
(* the worst one on the panel (cmd/zerotxd/wxalerts.go).  The weather it   *)
(* finds is any, or none (WeatherCache).  A time is its age in minutes.    *)
(***************************************************************************)
EXTENDS Integers, Sequences, FiniteSets, FiniteSetsExt, SequencesExt

CONSTANTS Skies,        \* weather the source may report
          Suns,         \* what astro may say of the sun
          Limits,       \* operator limits
          FireAfter, ClearAfter,   \* DefaultTracker, in minutes
          MinuteCap     \* minutes count no further

ASSUME AlertsAssumption ==
    /\ FireAfter \in Nat /\ ClearAfter \in Nat
    /\ MinuteCap \in Nat /\ MinuteCap >= FireAfter /\ MinuteCap >= ClearAfter

VARIABLES rules,       \* Tracker.state
          shown,       \* rule on the panel, "" when none (ledShown)
          flying,      \* arm machine in ARMED
          against      \* history: rule |-> minutes the samples contradict what is published

alertVars == <<rules, shown, flying, against>>

----------------------------------------------------------------------------
(* Rules: Evaluate.                                                        *)

RuleNames == <<"golden_hour_active", "low_visibility", "near_sunset", "precip_imminent",
               "wind_aloft_shear", "wind_gust_high", "wind_speed_high">>
Rule == Range(RuleNames)

Severity == [r \in Rule |->
    IF r \in {"wind_gust_high", "wind_speed_high", "low_visibility"} THEN 1 ELSE 0]

AngularDelta(a, b) == LET d == (a - b) % 360 IN IF d > 180 THEN 360 - d ELSE d

Holds(r, sky, sun) ==
    CASE r = "wind_gust_high"  -> sky.gust > 0 /\ Limits.gust > 0 /\ sky.gust > Limits.gust
      [] r = "wind_speed_high" -> sky.wind > 0 /\ Limits.wind > 0 /\ sky.wind > Limits.wind
      [] r = "wind_aloft_shear" ->
            /\ sky.aloft > 0
            /\ \/ AngularDelta(sky.dir, sky.aloftDir) > Limits.shearDir
               \/ sky.wind > 0 /\ sky.aloft > Limits.shearRatio * sky.wind
      [] r = "precip_imminent" ->
            Limits.precip > 0 /\ \E h \in 1..3 : h <= Len(sky.precip) /\ sky.precip[h] > Limits.precip
      [] r = "low_visibility"  -> sky.code \in {45, 48, 55}
      [] r = "near_sunset"     -> Limits.sunset > 0 /\ sun.left > 0 /\ sun.left < Limits.sunset
      [] r = "golden_hour_active" -> sun.falling /\ sun.elevation > 0 /\ sun.elevation < Limits.elevation

Evaluate(sky, sun) == {r \in Rule : Holds(r, sky, sun)}

----------------------------------------------------------------------------
(* Tracker.  above and below are the ages of firstAboveAt and firstBelowAt,*)
(* {} while they are zero.                                                 *)

Quiet == [active |-> FALSE, above |-> {}, below |-> {}]

Later(ages) == {IF a < MinuteCap THEN a + 1 ELSE a : a \in ages}
Begun(ages) == IF ages = {} THEN {0} ELSE ages
Reached(ages, limit) == \E a \in ages : a >= limit

Aged(s) == [s EXCEPT !.above = Later(@), !.below = Later(@)]

\* Mutant: a sample below the limit leaves the count of an inactive rule.
Update_CountKept(s, holds) ==
    LET above == IF holds /\ ~s.active THEN Begun(s.above) ELSE s.above
        below == IF ~holds /\ s.active THEN Begun(s.below) ELSE {}
    IN IF ~s.active /\ holds /\ Reached(above, FireAfter) THEN [Quiet EXCEPT !.active = TRUE]
       ELSE IF s.active /\ Reached(below, ClearAfter) THEN Quiet
       ELSE [s EXCEPT !.above = above, !.below = below]

Update(s, holds) ==
    LET above == IF holds /\ ~s.active THEN Begun(s.above) ELSE {}
        below == IF ~holds /\ s.active THEN Begun(s.below) ELSE {}
    IN IF ~s.active /\ Reached(above, FireAfter) THEN [Quiet EXCEPT !.active = TRUE]
       ELSE IF s.active /\ Reached(below, ClearAfter) THEN Quiet
       ELSE [s EXCEPT !.above = above, !.below = below]

Active(state) == {r \in Rule : state[r].active}

\* The first, in name order, of the most severe ones.
Worst(alerts) ==
    LET best == {r \in alerts : \A a \in alerts : Severity[a] <= Severity[r]}
        index == {i \in DOMAIN RuleNames : RuleNames[i] \in best}
    IN IF alerts = {} THEN "" ELSE RuleNames[Min(index)]

Projected(alerts) == IF flying THEN "" ELSE Worst(alerts)

\* A minute of runWxAlerts with weather to evaluate.
Minute(sky, sun) ==
    LET now == [r \in Rule |-> Aged(rules[r])]
        holds == Evaluate(sky, sun)
    IN /\ rules' = [r \in Rule |-> Update(now[r], r \in holds)]
       /\ shown' = Projected(Active(rules'))
       /\ against' = [r \in Rule |-> IF (r \in holds) = rules'[r].active THEN {}
                                     ELSE Begun(Later(against[r]))]
       /\ UNCHANGED flying

\* Without weather for the place nothing is evaluated and nothing shown or
\* cleared, but time passes for the tracker.
BlankMinute ==
    /\ rules' = [r \in Rule |-> Aged(rules[r])]
    /\ against' = [r \in Rule |-> Later(against[r])]
    /\ UNCHANGED <<shown, flying>>

----------------------------------------------------------------------------
AlertsInit ==
    /\ rules = [r \in Rule |-> Quiet] /\ shown = "" /\ flying = FALSE
    /\ against = [r \in Rule |-> {}]

TakeOff == ~flying /\ flying' = TRUE /\ UNCHANGED <<rules, shown, against>>
Land == flying /\ flying' = FALSE /\ UNCHANGED <<rules, shown, against>>

SomeMinute == BlankMinute \/ \E sky \in Skies, sun \in Suns : Minute(sky, sun)

AlertsNext == SomeMinute \/ TakeOff \/ Land

AlertsSpec == AlertsInit /\ [][AlertsNext]_alertVars

----------------------------------------------------------------------------
\* The panel shows the worst published rule or none: never one that has been
\* withdrawn, nor one that a more severe rule outranks (wxalerts.go
\* updateLEDProjection).
PanelShowsWorst == shown = "" \/ shown = Worst(Active(rules))

\* A rule is published, or withdrawn, only after every sample of the debounce
\* time has said so: between two changes of a rule lies an unbroken run of
\* contrary samples, whatever weather arrived or was missing meanwhile (wxalert
\* Tracker.Update); and the panel follows.
AlertsAreSteady ==
    [][/\ \A r \in Rule : rules'[r].active # rules[r].active =>
            Reached(Begun(Later(against[r])), IF rules[r].active THEN ClearAfter ELSE FireAfter)
       /\ PanelShowsWorst']_alertVars
=============================================================================
