----------------------------- MODULE AudioPlayer -----------------------------
(***************************************************************************)
(* The audio player (internal/audio/audio.go): a bounded queue, one worker *)
(* that plays, and for each warning or critical alarm a goroutine that     *)
(* queues it again until it is acknowledged.  Play tests closed, queues    *)
(* and schedules in three steps; the lock is held only inside the last.    *)
(* A goroutine is recycled once it has returned, so alarms may be raised   *)
(* for ever; a critical alarm does not count its plays.                    *)
(***************************************************************************)
EXTENDS Integers, Sequences, FiniteSets

CONSTANTS Names,       \* stems somebody plays
          Words,       \* stem |-> the words of the level table it contains
          Thresholds,  \* levels the operator sets
          QueueDepth,  \* Config.QueueDepth
          WarningPlays,\* RepeatPolicy.MaxCycles of warnings
          Repeaters    \* bound: alarm goroutines alive at once

ASSUME AudioAssumption ==
    /\ QueueDepth \in Nat \ {0}
    /\ WarningPlays \in Nat \ {0}
    /\ IsFiniteSet(Repeaters) /\ 0 \notin Repeaters

VARIABLES threshold,
          queue,      \* Player.events
          playerShut, \* closed, and the channel with it
          alarms,     \* stem |-> its goroutine, 0 when not in the map
          repeater,   \* the alarm goroutines
          call,       \* the Play, PlaySequence or Speak that is under way
          crashed,    \* a send on the closed channel or a nil map: the daemon dies
          permitted,  \* history: repeats an acknowledge could not take back
          overrun     \* history: stems repeated beyond that

playerVars == <<threshold, queue, playerShut, alarms, repeater, call,
                crashed, permitted, overrun>>

Levels == <<"info", "notice", "warning", "critical">>
Rank(level) == CHOOSE i \in DOMAIN Levels : Levels[i] = level

DefaultLevelFor(n) == IF Words[n] \cap {"failsafe", "crit"} # {} THEN "critical"
                      ELSE IF Words[n] \cap {"low", "warn", "rth"} # {} THEN "warning"
                      ELSE "notice"

LevelOf == [n \in Names |-> DefaultLevelFor(n)]

Repeats(n) == LevelOf[n] \in {"warning", "critical"}
\* Mutant: zero plays is not taken for no limit.
MaxCycles_AllCapped(n) == WarningPlays

MaxCycles(n) == IF LevelOf[n] = "warning" THEN WarningPlays ELSE 0

----------------------------------------------------------------------------
Track(n) == [kind |-> "track", name |-> n]
Sentence == [kind |-> "sentence", name |-> ""]

NoCall == [at |-> "idle", request |-> Sentence]
Ended == [at |-> "gone", name |-> "", played |-> 0, done |-> FALSE]

AudioInit ==
    /\ threshold \in Thresholds
    /\ queue = << >> /\ playerShut = FALSE
    /\ alarms = [n \in Names |-> 0]
    /\ repeater = [g \in Repeaters |-> Ended]
    /\ call = NoCall /\ crashed = FALSE
    /\ permitted = [n \in Names |-> 0] /\ overrun = {}

Enqueued(request) == IF Len(queue) < QueueDepth THEN Append(queue, request) ELSE queue

Admit(request, level) ==
    /\ call = NoCall /\ ~playerShut
    /\ Rank(level) >= Rank(threshold) \/ level = "critical"
    /\ call' = [at |-> "queue", request |-> request]
    /\ UNCHANGED <<threshold, queue, playerShut, alarms, repeater, crashed, permitted, overrun>>

Play(n) == Admit(Track(n), LevelOf[n])

\* A stitched sentence, and a text to be synthesized: neither is ever repeated.
PlaySequence == Admit(Sentence, "notice")
Speak(level) == Admit(Sentence, level)

QueueRequest ==
    /\ call.at = "queue"
    /\ IF playerShut
       THEN crashed' = TRUE /\ UNCHANGED <<queue, call>>
       ELSE /\ queue' = Enqueued(call.request)
            /\ call' = IF call.request.kind = "track" /\ Repeats(call.request.name)
                       THEN [call EXCEPT !.at = "schedule"] ELSE NoCall
            /\ UNCHANGED crashed
    /\ UNCHANGED <<threshold, playerShut, alarms, repeater, permitted, overrun>>

Idle == {g \in Repeaters : repeater[g].at = "gone"}

\* The goroutine g of an alarm that is already in the map is told to stop.
Stopped(fleet, g) == [h \in Repeaters |-> [fleet[h] EXCEPT !.done = @ \/ h = g]]

\* The goroutine that serves a new alarm: any that has returned.
Recycled == CHOOSE g \in Idle : TRUE

ScheduleAlarm ==
    /\ call.at = "schedule"
    /\ LET n == call.request.name IN
       IF playerShut
       THEN crashed' = TRUE /\ UNCHANGED <<alarms, repeater, call, permitted>>
       ELSE /\ Idle # {}
            /\ repeater' = [Stopped(repeater, alarms[n]) EXCEPT ![Recycled] =
                              [at |-> "wait", name |-> n, played |-> 1, done |-> FALSE]]
            /\ alarms' = [alarms EXCEPT ![n] = Recycled]
            /\ call' = NoCall
            /\ permitted' = [permitted EXCEPT ![n] = -1]
            /\ UNCHANGED crashed
    /\ UNCHANGED <<threshold, queue, playerShut, overrun>>

----------------------------------------------------------------------------
(* runAlarm.  When the timer has fired and the alarm is stopped as well,   *)
(* either branch of the select may be taken.                               *)

Stop(g) ==
    /\ repeater[g].at = "wait" /\ repeater[g].done
    /\ repeater' = [repeater EXCEPT ![g] = Ended]
    /\ UNCHANGED <<threshold, queue, playerShut, alarms, call, crashed, permitted, overrun>>

Fire(g) ==
    /\ repeater[g].at = "wait"
    /\ repeater' = [repeater EXCEPT ![g].at = "woken"]
    /\ UNCHANGED <<threshold, queue, playerShut, alarms, call, crashed, permitted, overrun>>

Finished(g, n) == MaxCycles(n) > 0 /\ repeater[g].played >= MaxCycles(n)

\* Mutant: the name is not looked up after the timer.
Recheck_NotLookedUp(g) ==
    LET n == repeater[g].name IN
    /\ repeater[g].at = "woken"
    /\ IF playerShut \/ Finished(g, n)
       THEN repeater' = [repeater EXCEPT ![g] = Ended] /\ alarms' = [alarms EXCEPT ![n] = 0]
       ELSE /\ repeater' = [repeater EXCEPT ![g].at = "queue"]
            /\ UNCHANGED alarms
    /\ UNCHANGED <<threshold, queue, playerShut, call, crashed, permitted, overrun>>

Recheck(g) ==
    LET n == repeater[g].name IN
    /\ repeater[g].at = "woken"
    /\ IF playerShut \/ alarms[n] = 0
       THEN repeater' = [repeater EXCEPT ![g] = Ended] /\ UNCHANGED alarms
       ELSE IF Finished(g, n)
       THEN repeater' = [repeater EXCEPT ![g] = Ended] /\ alarms' = [alarms EXCEPT ![n] = 0]
       ELSE /\ repeater' = [repeater EXCEPT ![g].at = "queue",
                              ![g].played = IF MaxCycles(n) = 0 THEN @ ELSE @ + 1]
            /\ UNCHANGED alarms
    /\ UNCHANGED <<threshold, queue, playerShut, call, crashed, permitted, overrun>>

Repeat(g) ==
    LET n == repeater[g].name IN
    /\ repeater[g].at = "queue"
    /\ IF playerShut
       THEN crashed' = TRUE /\ UNCHANGED <<queue, repeater, permitted, overrun>>
       ELSE /\ queue' = Enqueued(Track(n))
            /\ repeater' = [repeater EXCEPT ![g].at = "wait"]
            /\ permitted' = [permitted EXCEPT ![n] = IF @ > 0 THEN @ - 1 ELSE @]
            /\ overrun' = IF permitted[n] = 0 THEN overrun \union {n} ELSE overrun
            /\ UNCHANGED crashed
    /\ UNCHANGED <<threshold, playerShut, alarms, call>>

----------------------------------------------------------------------------
Queueing(n) == {g \in Repeaters : repeater[g].at = "queue" /\ repeater[g].name = n}

\* The disarm and the web page acknowledge all alarms, the page also a single one.
Acknowledge(ns) ==
    /\ ~playerShut
    /\ repeater' = [g \in Repeaters |->
                      [repeater[g] EXCEPT !.done = @ \/ \E n \in ns : alarms[n] = g]]
    /\ alarms' = [n \in Names |-> IF n \in ns THEN 0 ELSE alarms[n]]
    /\ permitted' = [n \in Names |-> IF n \in ns THEN Cardinality(Queueing(n)) ELSE permitted[n]]
    /\ UNCHANGED <<threshold, queue, playerShut, call, crashed, overrun>>

SetThreshold(level) ==
    /\ threshold' = level
    /\ UNCHANGED <<queue, playerShut, alarms, repeater, call, crashed, permitted, overrun>>

ClosePlayer ==
    /\ ~playerShut
    /\ playerShut' = TRUE
    /\ repeater' = [g \in Repeaters |-> [repeater[g] EXCEPT !.done = @ \/ \E n \in Names : alarms[n] = g]]
    /\ alarms' = [n \in Names |-> 0]
    /\ UNCHANGED <<threshold, queue, call, crashed, permitted, overrun>>

\* The worker takes a request, also after Close; what it plays is Voice.
TakeRequest ==
    /\ queue # << >> /\ queue' = Tail(queue)
    /\ UNCHANGED <<threshold, playerShut, alarms, repeater, call, crashed, permitted, overrun>>

RunAlarm(g) == Stop(g) \/ Fire(g) \/ Recheck(g) \/ Repeat(g)
Proceed == QueueRequest \/ ScheduleAlarm

AudioNext ==
    /\ ~crashed
    /\ \/ \E n \in Names : Play(n)
       \/ PlaySequence
       \/ \E level \in {"notice", "critical"} : Speak(level)
       \/ Proceed
       \/ \E g \in Repeaters : RunAlarm(g)
       \/ \E n \in Names : Acknowledge({n})
       \/ Acknowledge(Names)
       \/ \E level \in Thresholds : SetThreshold(level)
       \/ ClosePlayer
       \/ TakeRequest

AudioFairness ==
    /\ WF_playerVars(~crashed /\ Proceed)
    /\ WF_playerVars(~crashed /\ TakeRequest)
    /\ \A g \in Repeaters : WF_playerVars(~crashed /\ RunAlarm(g))

AudioSpec == AudioInit /\ [][AudioNext]_playerVars /\ AudioFairness

----------------------------------------------------------------------------
\* Acknowledging an alarm takes back every repeat that had not left the lock:
\* runAlarm queues a stem nobody raised again only as often as goroutines
\* stood between their unlock and their send when the operator acknowledged.
QuietAfterAck == overrun = {}

\* A critical alarm that was raised and not acknowledged stays in the map with
\* a goroutine of its own that nobody has told to stop, whatever superseded
\* goroutines of other alarms do to the map meanwhile.
CriticalKept ==
    \A n \in Names : LevelOf[n] = "critical" /\ permitted[n] = -1 /\ ~playerShut =>
        \E g \in Repeaters : /\ alarms[n] = g /\ repeater[g].name = n
                             /\ repeater[g].at # "gone" /\ ~repeater[g].done

\* What repeats is what the operator left to repeat, no more and no less.
AlarmsObey == QuietAfterAck /\ CriticalKept

\* A critical alarm that is never acknowledged is queued again and again: its
\* goroutine or a new occurrence of it always sends once more.
CriticalRepeats ==
    \A n \in Names : LevelOf[n] = "critical" /\ <>[](permitted[n] = -1 /\ ~playerShut) =>
        []<><<\/ \E g \in Repeaters : repeater[g].name = n /\ Repeat(g)
              \/ QueueRequest /\ call.request = Track(n)>>_playerVars
=============================================================================
