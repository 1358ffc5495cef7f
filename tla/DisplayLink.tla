------------------------------- MODULE DisplayLink ------------------------------
(***************************************************************************)
(* From the display manager to the pixels: the Manager that survives       *)
(* disconnects and caches the mode, the Driver it makes for every          *)
(* connection, with its bounded queue and its idea of the current mode     *)
(* (internal/devices/display), the weather-alert projection and the arm    *)
(* events that fire alarms (wxalerts.go, main.go), and the firmware of the *)
(* panel that handles the lines (firmware/display).                        *)
(*                                                                         *)
(* SetMode is three steps, two locks and a channel: the cache, the         *)
(* driver's mode, the queue.  The replay of the cache to a new driver is   *)
(* one more such call, made by the goroutine of Manager.Run.  Brightness,  *)
(* thresholds and telemetry fields take the same path; of them only the    *)
(* place that snapshots take in the queue is kept.                         *)
(***************************************************************************)
EXTENDS Naturals, Sequences

CONSTANTS
    Callers,    \* goroutines that call SetMode
    Modes,      \* the modes they ask for
    Rules,      \* weather alert rules
    QueueCap,   \* Config.QueueSize
    MaxCalls,   \* calls of SetMode (model bound)
    MaxFaults,  \* resets and unpluggings of the panel (model bound)
    MaxAlarms   \* alarms fired (model bound)

Unset == "unset"   \* m.mode of a manager nobody has called yet
None  == "none"
Runner == "run"    \* the goroutine of Manager.Run
ArmText == "arm"   \* "DISARM DENIED" and "ARM KEY UP"; an alert's text is its rule

ASSUME DisplayAssumption ==
    /\ Runner \notin Callers /\ "IDLE" \in Modes
    /\ Unset \notin Modes /\ "ALARM" \notin Modes
    /\ None \notin Rules /\ ArmText \notin Rules
    /\ QueueCap \in Nat \ {0}
    /\ MaxCalls \in Nat /\ MaxFaults \in Nat /\ MaxAlarms \in Nat

VARIABLES
    want,     \* Manager.mode
    conn,     \* Manager.Run: "closed", "attach" (replaying) or "running"
    call,     \* where each SetMode is, the Runner's replay included
    drvMode,  \* Driver.mode of the current driver
    queue,    \* Driver.outbound
    alive,    \* does the transport the current driver holds still work?
    port,     \* is the panel plugged in?
    screen,   \* current_mode of the firmware
    alarm,    \* state.alarm_text of the firmware; None: alarm_active is false
    ledShown, \* wxAlertHolder.ledShown
    spent,    \* calls, faults and alarms so far
    crowded,  \* history: the calls that others overlapped
    missed,   \* history: why the last MODE line may not be what was wanted
    hidden,   \* history: why the panel may have left the mode it was told
    unseen    \* history: why the alert of ledShown may not be on the panel

manager == <<want, conn>>
driver  == <<drvMode, queue, alive>>
panel   == <<screen, alarm>>
history == <<crowded, missed, hidden, unseen>>
vars == <<manager, call, driver, port, panel, ledShown, spent, history>>

Actors == Callers \cup {Runner}
Idle   == [at |-> "idle", mode |-> Unset]
Texts  == Rules \cup {ArmText}
Lines  == {<<"mode", m>> : m \in Modes} \cup {<<"alarm", t>> : t \in Texts}
              \cup {<<"clear">>, <<"state">>}

DisplayTypeOK ==
    /\ want \in Modes \cup {Unset}
    /\ conn \in {"closed", "attach", "running"}
    /\ call \in [Actors -> [at : {"idle", "driver", "queue"}, mode : Modes \cup {Unset}]]
    /\ drvMode \in Modes /\ alive \in BOOLEAN /\ port \in BOOLEAN
    /\ queue \in Seq(Lines) /\ Len(queue) <= QueueCap
    /\ screen \in Modes \cup {"ALARM"} /\ alarm \in Texts \cup {None}
    /\ ledShown \in Rules \cup {None}
    /\ spent \in [calls : 0..MaxCalls, faults : 0..MaxFaults, alarms : 0..MaxAlarms]
    /\ crowded \subseteq Actors
    /\ missed \subseteq {"race", "full", "silent"} /\ hidden \subseteq {"reset", "alarm"}
    /\ unseen \subseteq {"lost", "mode", "over"}

Attached  == conn # "closed"
Active(a) == call[a].at # "idle"

Room == Len(queue) < QueueCap
\* What befalls the alert of ledShown, when there is one.
Unseen(why) == unseen' = unseen \cup (IF ledShown = None THEN {} ELSE {why})
Spend(what, most) == spent[what] < most /\ spent' = [spent EXCEPT ![what] = @ + 1]

-----------------------------------------------------------------------------

\* NewManager, and `go dispMgr.Run(ctx)` before the first SetMode.  The panel
\* shows what an earlier run of the daemon left there.
DisplayInit ==
    /\ want = Unset /\ conn = "closed"
    /\ call = [a \in Actors |-> Idle]
    /\ drvMode = "IDLE" /\ queue = <<>> /\ alive = FALSE
    /\ port \in BOOLEAN
    /\ screen \in Modes /\ alarm = None
    /\ ledShown = None
    /\ spent = [calls |-> 0, faults |-> 0, alarms |-> 0]
    /\ crowded = {} /\ missed = {} /\ hidden = {} /\ unseen = {}

\* Actor a starts a call for mode m on the current driver.  Calls under way at
\* the same time may overtake each other from here on.
Begin(a, m) ==
    LET others == {b \in Actors \ {a} : Active(b)}
    IN  /\ call' = [call EXCEPT ![a] = [at |-> "driver", mode |-> m]]
        /\ crowded' = IF others = {} THEN crowded ELSE crowded \cup others \cup {a}
        /\ missed' = missed \cup (IF others = {} THEN {} ELSE {"race"})
                            \cup (IF a = Runner THEN {"silent"} ELSE {})

End(a) == call' = [call EXCEPT ![a] = Idle] /\ crowded' = crowded \ {a}

\* Manager.SetMode: the cache, and the driver of the moment if there is one.
SetMode(a, m) ==
    /\ ~Active(a) /\ Spend("calls", MaxCalls)
    /\ want' = m
    /\ \/ Attached /\ Begin(a, m)
       \/ ~Attached /\ UNCHANGED <<call, crowded, missed>>
    /\ UNCHANGED <<conn, driver, port, panel, ledShown, hidden, unseen>>

\* Driver.SetMode, under its lock: nothing more to do for the current mode.  A
\* new driver takes the panel to be at IDLE, so a first IDLE ends here.
DriverSetMode(a) ==
    /\ call[a].at = "driver"
    /\ \/ drvMode = call[a].mode /\ End(a) /\ UNCHANGED drvMode
       \/ /\ drvMode # call[a].mode /\ drvMode' = call[a].mode
          /\ call' = [call EXCEPT ![a].at = "queue"] /\ UNCHANGED crowded
    /\ UNCHANGED <<manager, queue, alive, port, panel, ledShown, spent, missed, hidden,
                   unseen>>

\* enqueue, after the lock: a full queue drops the line.
EnqueueMode(a) ==
    /\ call[a].at = "queue"
    /\ \/ /\ Room /\ queue' = Append(queue, <<"mode", call[a].mode>>)
          /\ missed' = IF a \in crowded THEN missed ELSE {}
       \/ /\ ~Room /\ missed' = missed \cup {"full"}
          /\ UNCHANGED queue
    /\ End(a)
    /\ UNCHANGED <<manager, drvMode, alive, port, panel, ledShown, spent, hidden, unseen>>

\* Mutant: the cached mode is not replayed.
Open_NoReplay ==
    /\ conn = "closed" /\ port
    /\ conn' = "attach" /\ alive' = TRUE
    /\ drvMode' = "IDLE" /\ queue' = <<>>
    /\ missed' = missed \cup {"silent"} /\ UNCHANGED <<call, crowded>>
    /\ UNCHANGED <<want, port, panel, ledShown, spent, hidden, unseen>>

\* Run opens the port, makes a driver and attaches it; the cached mode is read
\* in the same critical section and replayed afterwards.
Open ==
    /\ conn = "closed" /\ port
    /\ conn' = "attach" /\ alive' = TRUE
    /\ drvMode' = "IDLE" /\ queue' = <<>>
    /\ \/ want # Unset /\ Begin(Runner, want)
       \/ /\ want = Unset /\ UNCHANGED <<call, crowded>>
          /\ missed' = missed \cup {"silent"}
    /\ UNCHANGED <<want, port, panel, ledShown, spent, hidden, unseen>>

\* The replay is over: Driver.Run.
RunDriver ==
    /\ conn = "attach" /\ ~Active(Runner)
    /\ conn' = "running"
    /\ UNCHANGED <<want, call, driver, port, panel, ledShown, spent, history>>

\* Mutant: only a failing write ends the driver.
Detach_OnWrite ==
    /\ conn = "running" /\ ~alive /\ queue # <<>>
    /\ conn' = "closed"
    /\ call' = [a \in Actors |-> Idle] /\ crowded' = {}
    /\ queue' = <<>>
    /\ Unseen("lost")
    /\ UNCHANGED <<want, drvMode, alive, port, panel, ledShown, spent, missed, hidden>>

\* The transport error ends the driver; calls that still hold it touch nothing
\* that anyone will read.
Detach ==
    /\ conn = "running" /\ ~alive
    /\ conn' = "closed"
    /\ call' = [a \in Actors |-> Idle] /\ crowded' = {}
    /\ queue' = <<>>
    /\ Unseen("lost")
    /\ UNCHANGED <<want, drvMode, alive, port, panel, ledShown, spent, missed, hidden>>

\* runSnapshotTicker; a snapshot that finds the queue full is dropped.
Snapshot ==
    /\ conn = "running" /\ Room
    /\ queue' = Append(queue, <<"state">>)
    /\ UNCHANGED <<manager, call, drvMode, alive, port, panel, ledShown, spent, history>>

-----------------------------------------------------------------------------
\* Alarms.  They are not cached: without a driver, or with a full queue, they
\* are gone.

PostAlarm(line) ==
    queue' = IF Attached /\ Room THEN Append(queue, line) ELSE queue

\* fireArmPanelAlarm: a denied disarm, a key that is up at boot.
FireArmAlarm ==
    /\ Spend("alarms", MaxAlarms)
    /\ PostAlarm(<<"alarm", ArmText>>)
    /\ UNCHANGED <<manager, call, drvMode, alive, port, panel, ledShown, history>>

\* updateLEDProjection on the ground with a new highest alert.
ShowAlert(rule) ==
    /\ ledShown # rule
    /\ Spend("alarms", MaxAlarms)
    /\ PostAlarm(<<"alarm", rule>>)
    /\ ledShown' = rule
    /\ unseen' = IF Attached /\ Room THEN {} ELSE {"lost"}
    /\ UNCHANGED <<manager, call, drvMode, alive, port, panel, crowded, missed, hidden>>

\* Mutant: the projection clears the alert and still believes in it.
ClearAlert_StillShown ==
    /\ ledShown # None
    /\ PostAlarm(<<"clear">>)
    /\ UNCHANGED <<manager, call, drvMode, alive, port, panel, ledShown, spent, history>>

\* updateLEDProjection, armed or with no alert left.
ClearAlert ==
    /\ ledShown # None
    /\ PostAlarm(<<"clear">>)
    /\ ledShown' = None /\ unseen' = {}
    /\ UNCHANGED <<manager, call, drvMode, alive, port, panel, spent, crowded, missed,
                   hidden>>

-----------------------------------------------------------------------------
\* The panel.  runSender writes a line and handle_line takes it.

Send(line) ==
    /\ conn = "running" /\ alive
    /\ queue # <<>> /\ Head(queue) = line
    /\ queue' = Tail(queue)
    /\ UNCHANGED <<manager, call, drvMode, alive, port, ledShown, spent>>

HandleMode ==
    \E m \in Modes :
        /\ Send(<<"mode", m>>)
        /\ screen' = m /\ hidden' = {} /\ Unseen("mode")
        /\ UNCHANGED <<alarm, crowded, missed>>

\* One text at a time: an alarm takes the place of the one before it.
HandleAlarm ==
    \E t \in Texts :
        /\ Send(<<"alarm", t>>)
        /\ screen' = "ALARM" /\ alarm' = t
        /\ hidden' = hidden \cup {"alarm"}
        /\ IF t = ledShown THEN unseen' = unseen \ {"mode", "over"} ELSE Unseen("over")
        /\ UNCHANGED <<crowded, missed>>

\* The mode does not revert: "daemon issues new MODE if needed".
HandleClear ==
    /\ Send(<<"clear">>)
    /\ alarm' = None
    /\ UNCHANGED <<screen, history>>

HandleState == Send(<<"state">>) /\ UNCHANGED <<panel, history>>

\* setup: everything starts over; the daemon only logs the READY that follows.
Setup ==
    /\ screen' = "IDLE" /\ alarm' = None
    /\ hidden' = hidden \cup {"reset"}
    /\ Unseen("lost")

\* The panel restarts and the serial port stays.
Reset ==
    /\ port /\ Spend("faults", MaxFaults)
    /\ Setup
    /\ UNCHANGED <<manager, call, driver, port, ledShown, crowded, missed>>

\* The cable is pulled; the panel may have power of its own.
Unplug ==
    /\ port /\ Spend("faults", MaxFaults)
    /\ port' = FALSE /\ alive' = FALSE
    /\ Setup \/ UNCHANGED <<panel, hidden, unseen>>
    /\ UNCHANGED <<manager, call, drvMode, queue, ledShown, crowded, missed>>

Plug ==
    /\ ~port /\ port' = TRUE
    /\ UNCHANGED <<manager, call, driver, panel, ledShown, spent, history>>

DisplayNext ==
    \/ \E a \in Callers, m \in Modes : SetMode(a, m)
    \/ \E a \in Actors : DriverSetMode(a) \/ EnqueueMode(a)
    \/ Open \/ RunDriver \/ Detach \/ Snapshot
    \/ FireArmAlarm \/ ClearAlert
    \/ \E r \in Rules : ShowAlert(r)
    \/ HandleMode \/ HandleAlarm \/ HandleClear \/ HandleState
    \/ Reset \/ Unplug \/ Plug

\* Goroutines run, the sender writes, Run retries the port.
DisplayFairness ==
    /\ \A a \in Actors : WF_vars(DriverSetMode(a)) /\ WF_vars(EnqueueMode(a))
    /\ WF_vars(Open) /\ WF_vars(RunDriver) /\ WF_vars(Detach)
    /\ WF_vars(HandleMode) /\ WF_vars(HandleAlarm)
    /\ WF_vars(HandleClear) /\ WF_vars(HandleState)

DisplaySpec     == DisplayInit /\ [][DisplayNext]_vars
DisplayFairSpec == DisplaySpec /\ DisplayFairness

-----------------------------------------------------------------------------

Waiting(kind) == \E i \in 1..Len(queue) : queue[i][1] = kind

\* A connected panel with no call under way and no mode on its way to it.
Settled ==
    /\ conn = "running" /\ alive
    /\ \A a \in Actors : ~Active(a)
    /\ ~Waiting("mode")

\* What may keep the panel from showing the wanted mode; a driver that has been
\* silent matters for IDLE only, which a new driver never sends.
Excused ==
    \/ hidden # {} \/ missed \ {"silent"} # {}
    \/ want = "IDLE" /\ missed # {}

\* manager.go and display.go together: a settled panel shows the mode the
\* daemon asked for last, through unpluggings and replays, unless calls of
\* SetMode overlapped (two locks, two orders), the queue was full, the mode is
\* IDLE and the connection new, the panel restarted behind its serial bridge, or
\* an alarm took the screen; a later MODE line mends what went wrong before it.
PanelFollowsMode ==
    Settled /\ want # Unset /\ ~Excused => screen = want

\* The panel renders the text of an alarm, and nothing else, in its ALARM mode.
OnPanel(text) == screen = "ALARM" /\ alarm = text

\* Nothing about alarms is on its way to the panel.
AlarmsTold == ~Waiting("alarm") /\ ~Waiting("clear")

\* The alert that the weather projection (wxalerts.go) believes to be on the
\* panel is what the panel renders, unless its line was lost, the panel or the
\* link started over, or a later MODE line or another alarm took the screen.
AlertIsShown ==
    ledShown # None /\ unseen = {} /\ AlarmsTold => OnPanel(ledShown)

\* Once the panel stays plugged in a live driver brings it back to the wanted mode, or
\* one of the known losses stands in the way (Manager.Run, manager.go:79-117).
PanelCatchesUp ==
    <>[]port =>
        <>[](conn = "running" /\ alive /\ (want = Unset \/ screen = want \/ Excused))
===============================================================================
