--------------------------- MODULE PeriodicNarrator ---------------------------
(***************************************************************************)
(* The status report spoken in flight (cmd/zerotxd/periodic_narrator.go)   *)
(* and its configuration (narrate_config.go), which an operator changes    *)
(* over the API while the narrator waits for its timer.                    *)
(*                                                                         *)
(* A configuration is [interval, fields]; interval 0 means none was given. *)
(* Time is counted in units of the shortest interval.                      *)
(***************************************************************************)
EXTENDS Integers, FiniteSets

CONSTANTS Configs,     \* what an operator may post
          Flags,       \* the configuration of the command line
          Posters,     \* requests to /api/v1/narrate
          PingDepth,   \* capacity of armedPings
          Hour         \* how long the narrator waits without an interval

ReportFields == UNION {c.fields : c \in Configs \cup {Flags}}

ASSUME NarratorAssumption ==
    /\ \A c \in Configs : c.interval \in Nat
    /\ Flags.interval \in Nat \ {0} /\ Hour \in Nat \ {0} /\ PingDepth \in Nat \ {0}

VARIABLES live,       \* narrateConfigStore.p
          saved,      \* narrate.yml: {} or one configuration
          settled,    \* history: no restart and no failed save since the last save
          poster,     \* request |-> where it is in NarrateConfigSet, and what it writes
          woken,      \* narrateConfigStore.notify
          timer,      \* until the narrator's timer fires
          aloft,      \* armedFlag
          pings,      \* armedPings
          timeAloft,  \* time since armStart: "zero" time, "none" yet, or "some"
          known       \* fields with telemetry that is there and not stale

narratorVars == <<live, saved, settled, poster, woken, timer, aloft, pings, timeAloft, known>>

----------------------------------------------------------------------------
(* The store.                                                              *)

\* A file with the interval "0s", which is how no interval is saved, is
\* rejected as a whole.
Readable(file) == {c \in file : c.interval > 0}

\* What the file does not say comes from the flags.
InitialConfig(file) ==
    IF Readable(file) = {} THEN Flags
    ELSE CHOOSE c \in {[f EXCEPT !.fields = IF @ = {} THEN Flags.fields ELSE @] : f \in Readable(file)} : TRUE

AtRest == [at |-> "rest", holds |-> {}]

\* Set swaps the configuration and wakes the narrator, ...
Post(p, c) ==
    /\ poster[p] = AtRest
    /\ live' = c /\ woken' = TRUE
    /\ poster' = [poster EXCEPT ![p] = [at |-> "set", holds |-> {}]]
    /\ UNCHANGED <<saved, settled, timer, aloft, pings, timeAloft, known>>

\* Mutant: Save reads the configuration before it takes its lock.
Collect_Unlocked(p) ==
    /\ poster[p].at = "set"
    /\ poster' = [poster EXCEPT ![p] = [at |-> "saving", holds |-> {live}]]
    /\ UNCHANGED <<live, saved, settled, woken, timer, aloft, pings, timeAloft, known>>

\* ... Save takes its lock and reads the configuration under it, ...
Collect(p) ==
    /\ poster[p].at = "set" /\ \A q \in Posters : poster[q].at # "saving"
    /\ poster' = [poster EXCEPT ![p] = [at |-> "saving", holds |-> {live}]]
    /\ UNCHANGED <<live, saved, settled, woken, timer, aloft, pings, timeAloft, known>>

\* ... writes and renames.  The request is accepted either way.
Save(p) ==
    /\ poster[p].at = "saving"
    /\ settled' \in BOOLEAN
    /\ saved' = IF settled' THEN poster[p].holds ELSE saved
    /\ poster' = [poster EXCEPT ![p] = AtRest]
    /\ UNCHANGED <<live, woken, timer, aloft, pings, timeAloft, known>>

----------------------------------------------------------------------------
(* The narrator.                                                           *)

Wait(c) == IF c.interval = 0 THEN Hour ELSE c.interval

\* Battery and the like are left out while their telemetry is missing or old,
\* the time aloft in its first second.
Told == {f \in live.fields : IF f = "time-aloft" THEN timeAloft # "none" ELSE f \in known}

Speaks == aloft /\ Told # {}

TakePing ==
    /\ pings > 0 /\ pings' = pings - 1
    /\ timeAloft' = IF aloft THEN "none" ELSE "zero"
    /\ timer' = Wait(live)
    /\ UNCHANGED <<live, saved, settled, poster, woken, aloft, known>>

TakeNotify ==
    /\ woken /\ woken' = FALSE /\ timer' = Wait(live)
    /\ UNCHANGED <<live, saved, settled, poster, aloft, pings, timeAloft, known>>

\* Mutant: the timer is set again after a report only.
Rearm_AfterReport == IF Speaks THEN Wait(live) ELSE 0 - 1

Rearm == Wait(live)

Fired == /\ timer = 0 /\ timer' = Rearm
         /\ UNCHANGED <<live, saved, settled, poster, woken, aloft, pings, timeAloft, known>>

Report == Fired /\ Speaks
PassOver == Fired /\ ~Speaks

----------------------------------------------------------------------------
(* Its surroundings.                                                       *)

\* The arm-event handler stores the flag, then pings if there is room.
SwitchArmed ==
    /\ aloft' = ~aloft
    /\ pings' = IF pings < PingDepth THEN pings + 1 ELSE pings
    /\ UNCHANGED <<live, saved, settled, poster, woken, timer, timeAloft, known>>

Hear == /\ known' \in SUBSET (ReportFields \ {"time-aloft"}) \ {known}
        /\ UNCHANGED <<live, saved, settled, poster, woken, timer, aloft, pings, timeAloft>>

PassTime == /\ timer > 0 /\ timer' = timer - 1
            /\ timeAloft' = IF timeAloft = "none" THEN "some" ELSE timeAloft
            /\ UNCHANGED <<live, saved, settled, poster, woken, aloft, pings, known>>

RestartNarrator ==
    /\ live' = InitialConfig(saved) /\ timer' = Wait(live')
    /\ settled' = FALSE /\ poster' = [p \in Posters |-> AtRest]
    /\ woken' = FALSE /\ aloft' = FALSE /\ pings' = 0
    /\ timeAloft' = "zero" /\ known' = {}
    /\ UNCHANGED saved

NarratorInit ==
    /\ saved = {} /\ live = Flags /\ timer = Wait(Flags)
    /\ settled = FALSE /\ poster = [p \in Posters |-> AtRest]
    /\ woken = FALSE /\ aloft = FALSE /\ pings = 0
    /\ timeAloft = "zero" /\ known = {}

NarratorLoop == TakePing \/ TakeNotify \/ Report \/ PassOver

Posting(p) == Collect(p) \/ Save(p)

NarratorNext ==
    \/ NarratorLoop \/ SwitchArmed \/ Hear \/ PassTime \/ RestartNarrator
    \/ \E p \in Posters : Posting(p) \/ \E c \in Configs : Post(p, c)

\* The goroutine serves something that is ready, and clocks run.
NarratorFairness == WF_narratorVars(NarratorLoop) /\ WF_narratorVars(PassTime)

NarratorSpec == NarratorInit /\ [][NarratorNext]_narratorVars /\ NarratorFairness

----------------------------------------------------------------------------
\* When every request is done and the last save did not fail, the file holds
\* the configuration in use, however two requests overlap: a restart does not
\* bring back the loser of a race (narrateConfigStore.Set and Save are apart).
FileFollowsConfig ==
    settled /\ (\A p \in Posters : poster[p] = AtRest) => saved = {live}

\* In a flight with something to tell and nobody touching the configuration,
\* reports come again and again: no disarm, blank telemetry, empty or missing
\* interval before it leaves the narrator without a timer.
FlightsAreNarrated ==
    <>[](Speaks /\ \A p \in Posters : poster[p] = AtRest) => []<><<Report>>_narratorVars
=============================================================================
