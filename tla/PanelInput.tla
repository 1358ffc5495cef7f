------------------------------ MODULE PanelInput ------------------------------
(***************************************************************************)
(* The two panel inputs of the arming sequence, from the pins to the arm   *)
(* machine: the debouncers of the RP2040 (input_arm.c, input_momentary.c), *)
(* the USB serial line, which is open only while a daemon runs, and the    *)
(* daemon's input handler, which takes the first report of the arm key as  *)
(* the position at boot (armInitOnce).                                     *)
(*                                                                         *)
(* The main loop polls whenever it gets there: a poll is not tied to the   *)
(* clock, so a loop that stalls for a while is covered.  The pins may      *)
(* change, and bounce, at any time.                                        *)
(***************************************************************************)
EXTENDS Naturals, Sequences

CONSTANTS
    Debounce,    \* DEBOUNCE_US, in time units
    LineCap      \* reports in flight to the daemon (model bound)

ASSUME DebounceAssumption == Debounce \in Nat /\ Debounce > 0
ASSUME LineAssumption == LineCap \in Nat /\ LineCap > 0

VARIABLES
    pin,        \* per input: the level at the pin, TRUE = up or pressed
    raw,        \* s.raw_last
    stable,     \* s.stable
    age,        \* time since s.changed_at_us, or since power-up
    announced,  \* the arm key's s.announced
    open,       \* does a daemon have the serial port open?
    line,       \* reports in flight
    seen,       \* has armInitOnce fired?
    daemonKey,  \* the arm machine's key position
    sincePress, \* history: time since the last report of a press, or reset
    hasty       \* history: has a press ever been reported too soon after another?

debouncer == <<raw, stable, age, announced>>
daemon    == <<seen, daemonKey>>
presses   == <<sincePress, hasty>>
piVars    == <<pin, debouncer, open, line, daemon, presses>>

Inputs  == {"arm_key", "momentary"}
Reports == {"up", "down", "press"}
AgeCap  == 2 * Debounce    \* where the clocks stop counting

Older(t) == IF t < AgeCap THEN t + 1 ELSE t

PanelTypeOK ==
    /\ pin \in [Inputs -> BOOLEAN] /\ raw \in [Inputs -> BOOLEAN]
    /\ stable \in [Inputs -> BOOLEAN] /\ age \in [Inputs -> 0..AgeCap]
    /\ announced \in BOOLEAN /\ open \in BOOLEAN
    /\ line \in Seq(Reports) /\ Len(line) <= LineCap
    /\ seen \in BOOLEAN /\ daemonKey \in BOOLEAN
    /\ sincePress \in 0..AgeCap /\ hasty \in BOOLEAN

-----------------------------------------------------------------------------

\* input_arm_init and input_momentary_init: the pins as found.
PanelInit ==
    /\ pin \in [Inputs -> BOOLEAN]
    /\ raw = pin /\ stable = pin
    /\ age = [i \in Inputs |-> 0]
    /\ announced = FALSE
    /\ open = FALSE /\ line = << >>
    /\ seen = FALSE /\ daemonKey = FALSE
    /\ sincePress = AgeCap /\ hasty = FALSE

\* Has the debouncer something to report once the level has settled?
Pending(i) == \/ raw[i] # stable[i]
              \/ i = "arm_key" /\ ~announced

\* ipc_send: nobody hears what is written while the port is closed.
SendReport(report) ==
    \/ open /\ Len(line) < LineCap /\ line' = Append(line, report)
    \/ ~open /\ UNCHANGED line

\* A poll finds a new level and starts the debounce time.
NoteEdge(i) ==
    /\ pin[i] # raw[i]
    /\ raw' = [raw EXCEPT ![i] = pin[i]]
    /\ age' = [age EXCEPT ![i] = 0]
    /\ UNCHANGED <<pin, stable, announced, open, line, daemon, presses>>

\* Mutant: one sample of a new level is enough.
KeySettled_AtOnce(i) == pin[i] = raw[i] /\ Pending(i)

KeySettled(i) == pin[i] = raw[i] /\ Pending(i) /\ age[i] >= Debounce

\* input_arm_poll reports both directions.
ReportKey ==
    /\ KeySettled("arm_key")
    /\ stable' = [stable EXCEPT !["arm_key"] = raw["arm_key"]]
    /\ announced' = TRUE
    /\ SendReport(IF raw["arm_key"] THEN "up" ELSE "down")
    /\ UNCHANGED <<pin, raw, age, open, daemon, presses>>

\* input_momentary_poll reports the press and absorbs the release.
ReportPress ==
    /\ KeySettled("momentary")
    /\ stable' = [stable EXCEPT !["momentary"] = raw["momentary"]]
    /\ \/ /\ raw["momentary"] /\ SendReport("press")
          /\ sincePress' = 0 /\ hasty' = (hasty \/ sincePress < 2 * Debounce)
       \/ ~raw["momentary"] /\ UNCHANGED <<line, presses>>
    /\ UNCHANGED <<pin, raw, age, announced, open, daemon>>

\* Somebody, or a bouncing contact, changes a level.
Move(i) ==
    /\ pin' = [pin EXCEPT ![i] = ~pin[i]]
    /\ UNCHANGED <<debouncer, open, line, daemon, presses>>

Elapse ==
    /\ age' = [i \in Inputs |-> Older(age[i])]
    /\ sincePress' = Older(sincePress) /\ UNCHANGED hasty
    /\ UNCHANGED <<pin, raw, stable, announced, open, line, daemon>>

\* The daemon starts and opens the port.
DaemonStart ==
    /\ ~open
    /\ open' = TRUE
    /\ seen' = FALSE /\ daemonKey' = FALSE
    /\ UNCHANGED <<pin, debouncer, line, presses>>

\* It ends, and what is in flight is lost.
DaemonStop ==
    /\ open
    /\ open' = FALSE /\ line' = << >>
    /\ UNCHANGED <<pin, debouncer, daemon, presses>>

\* A watchdog reset of the chip takes the port away; the daemon ends.
ChipReset ==
    /\ raw' = pin /\ stable' = pin
    /\ age' = [i \in Inputs |-> 0]
    /\ announced' = FALSE
    /\ open' = FALSE /\ line' = << >>
    /\ sincePress' = AgeCap /\ UNCHANGED hasty
    /\ UNCHANGED <<pin, daemon>>

FirstReport(report) == ~seen /\ report # "press"

\* OnInputEvent.  KeyChanged records the position; Confirm is counted
\* elsewhere.
DaemonInput ==
    /\ line # << >>
    /\ line' = Tail(line)
    /\ LET report == Head(line) IN
           \/ /\ FirstReport(report)
              /\ seen' = TRUE
              /\ daemonKey' = (report = "up")
           \/ /\ seen /\ report # "press"
              /\ daemonKey' = (report = "up")
              /\ UNCHANGED seen
           \/ /\ report = "press"
              /\ UNCHANGED daemon
    /\ UNCHANGED <<pin, debouncer, open, presses>>

Poll == \E i \in Inputs : NoteEdge(i)
Report == ReportKey \/ ReportPress

PanelNext ==
    \/ Poll \/ Report \/ Elapse \/ DaemonInput
    \/ \E i \in Inputs : Move(i)
    \/ DaemonStart \/ DaemonStop \/ ChipReset

\* The main loop polls the key in every round, whatever the button does, and a
\* write that waits for room is completed; time passes; the link's reader runs.
PanelFairness ==
    /\ WF_piVars(NoteEdge("arm_key")) /\ SF_piVars(ReportKey)
    /\ WF_piVars(Elapse) /\ WF_piVars(DaemonInput)

PanelSpec == PanelInit /\ [][PanelNext]_piVars /\ PanelFairness

-----------------------------------------------------------------------------

\* Where the reports of the key are on the line, and which are consecutive.
keyReports == {i \in 1..Len(line) : line[i] # "press"}
FirstKey(i)   == \A k \in keyReports : i <= k
LastKey(i)    == \A k \in keyReports : k <= i
Consecutive(i, j) == i < j /\ \A k \in keyReports : k <= i \/ j <= k

\* Every report the arm machine gets after the first is an edge: no position
\* is reported twice in a row on one connection, resets of the chip and stalled
\* polls included.  (KeyChanged would ignore a repeat, and losing one report
\* would then lose two edges.)
ReportsAreEdges ==
    /\ \A i, j \in keyReports : Consecutive(i, j) => line[i] # line[j]
    /\ open /\ seen => \A i \in keyReports : FirstKey(i) => (line[i] = "up" <=> ~daemonKey)

\* A daemon that has heard of the key at all knows, or is about to learn, its
\* debounced position.
BeliefFollowsKey ==
    /\ open /\ seen /\ keyReports = {} => daemonKey = stable["arm_key"]
    /\ open => \A i \in keyReports : LastKey(i) => (line[i] = "up" <=> stable["arm_key"])

\* One push of the button is one confirmation: two presses are a full release
\* and a full press apart, however the contact bounces and the loop stalls, unless the
\* chip is reset in between.
PressesSeparated == ~hasty

\* What the daemon is told of the panel, whatever the contacts, the loop, the chip
\* and the daemon's own restarts do: the parts above.
InputsAreReported ==
    PanelTypeOK /\ ReportsAreEdges /\ BeliefFollowsKey /\ PressesSeparated

\* A key at rest is believed, once the daemon has heard of it.
KeyIsLearnt ==
    \A up \in BOOLEAN :
        <>[](open /\ seen /\ pin["arm_key"] = up) => <>[](daemonKey = up)
===============================================================================
