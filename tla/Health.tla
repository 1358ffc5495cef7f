------------------------------- MODULE Health -------------------------------
(***************************************************************************)
(* What lets the operator leave the status page: the registry of devices   *)
(* (internal/devhealth) and those who touch it, the one comparison with    *)
(* the hardware baseline (internal/selfcheck, cmd/zerotxd/selfcheck.go),   *)
(* the readiness built from both (main.go buildPreflight) and the gate of  *)
(* the system check (internal/syscheck), dismissed by an API request that  *)
(* first asks whether the station is ready.                                *)
(*                                                                         *)
(* A tick of time is a period of the reports: 200 ms for the RP2040, 5 s   *)
(* for the displays and the Mega; Window counts a device's own periods.    *)
(***************************************************************************)
EXTENDS Integers

CONSTANTS Blocking,    \* registered at the start, and waited for
          Scanned,     \* the one of them that main looks for: the displays
          Board,       \* registered at the start, and only shown: the Mega
          Subsystem,   \* a target that the Mega's events name
          Observers,   \* the other probes: GPS, RTC, LED, joystick, audio, ELRS
          Window,      \* Timeout of each device, in ticks
          Settle       \* -hardware-baseline-settle, in ticks

Devices == Blocking \cup {Board, Subsystem}
Reporting == Blocking \cup {Board}

\* The names that the Mega's events carry are not those registered as blocking.
ASSUME HealthAssumption ==
    /\ Scanned \in Blocking /\ {Board, Subsystem} \cap Blocking = {}
    /\ Window \in [Devices -> Nat \ {0}] /\ Settle \in Nat

VARIABLES attached,   \* the devices that are there and report in this tick
          gone,       \* ticks since each blocking device was there
          owed,       \* reports still to come in this tick
          seen,       \* LastSeen of each device, as an age
          fault,      \* the devices with a FirstError
          loaded,     \* a model is loaded
          expected,   \* the baseline: the probes that must pass
          settling,   \* ticks left before the comparison, or Done
          mismatches, \* hardwareBaselineHolder.mismatches
          dismissal,  \* what the dismissing request knows: "none" or "ready"
          dismissed   \* Gate.dismissed

healthVars == <<attached, gone, owed, seen, fault, loaded, expected, settling, mismatches,
                dismissal, dismissed>>

Absent == -2  \* no entry in the registry
Never  == -1  \* registered, LastSeen zero
Done   == -1  \* the comparison was made, or there is no baseline

Older(d, age) == IF age > Window[d] THEN age ELSE age + 1

----------------------------------------------------------------------------
(* The registry.                                                           *)

\* Mutant: a device that never reported counts as up.
Status_NeverIsUp(d) ==
    IF seen[d] = Never THEN "up" ELSE IF seen[d] <= Window[d] THEN "up" ELSE "down"

\* Device.status.
Status(d) ==
    IF seen[d] = Never THEN "unknown" ELSE IF seen[d] <= Window[d] THEN "up" ELSE "down"

BlockingDown == {d \in Blocking : Status(d) # "up"}

\* Touch without an error; with one only FirstError changes.
Touch(d) == seen' = [seen EXCEPT ![d] = 0] /\ fault' = fault \ {d}
TouchFault(d) == fault' = fault \cup {d} /\ UNCHANGED seen

\* Scan: both connectors have a display.
Scan == Scanned \in attached

\* A heartbeat of the RP2040, or a scan for the displays, which also tells
\* when they are missing.
ReportDevice(d) ==
    /\ d \in Blocking \cap owed /\ owed' = owed \ {d}
    /\ IF d = Scanned THEN IF Scan THEN Touch(d) ELSE TouchFault(d)
       ELSE IF d \in attached THEN Touch(d) ELSE UNCHANGED <<seen, fault>>
    /\ UNCHANGED <<attached, gone, loaded, expected, settling, mismatches, dismissal, dismissed>>

\* An event of the Mega: its own heartbeat, or one of a subsystem, which
\* EnsureDevice registers at first sight.
BoardEvent(target) ==
    /\ Board \in attached /\ owed' = owed \ {Board}
    /\ seen' = [d \in Devices |-> IF d \in {Board, target} THEN 0 ELSE seen[d]]
    /\ UNCHANGED <<attached, gone, fault, loaded, expected, settling, mismatches, dismissal, dismissed>>

----------------------------------------------------------------------------
(* The hardware baseline.                                                  *)

\* No file, or a file in which every probe passed.
Baselines == {{}, Devices \cup Observers}

\* devhealthStatus: what has no entry in the registry is not tracked.
Tracked(d) == seen[d] # Absent

Mismatched == {d \in expected \cap Devices : Tracked(d) /\ Status(d) # "up"}

\* What the other observers say then is up to them.
OtherVerdicts == SUBSET (expected \cap Observers)

\* loadAndRunSelfCheck: one comparison after the settle time.
Compare ==
    /\ settling = 0 /\ settling' = Done
    /\ \E failed \in OtherVerdicts : mismatches' = Mismatched \cup failed
    /\ UNCHANGED <<attached, gone, owed, seen, fault, loaded, expected, dismissal, dismissed>>

----------------------------------------------------------------------------
(* The preflight and the gate.                                             *)

Ready == loaded /\ BlockingDown = {} /\ mismatches = {}

\* handleSyscheckDismiss asks for the preflight, and refuses if not ready...
AskPreflight ==
    /\ dismissal = "none" /\ Ready /\ dismissal' = "ready"
    /\ UNCHANGED <<attached, gone, owed, seen, fault, loaded, expected, settling, mismatches, dismissed>>

\* ... and then dismisses the gate, for good.
Dismiss ==
    /\ dismissal = "ready" /\ dismissal' = "none" /\ dismissed' = TRUE
    /\ UNCHANGED <<attached, gone, owed, seen, fault, loaded, expected, settling, mismatches>>

\* A model is loaded or unloaded.
ChangeModel ==
    /\ loaded' = ~loaded
    /\ UNCHANGED <<attached, gone, owed, seen, fault, expected, settling, mismatches, dismissal, dismissed>>

----------------------------------------------------------------------------
HealthTime ==
    /\ owed \cap (Blocking \cup attached) = {} /\ settling # 0
    /\ owed' = Reporting /\ attached' \in SUBSET Reporting
    /\ seen' = [d \in Devices |-> IF seen[d] \in {Absent, Never} THEN seen[d] ELSE Older(d, seen[d])]
    /\ gone' = [d \in Blocking |-> IF d \in attached' THEN 0 ELSE Older(d, gone[d])]
    /\ settling' = IF settling = Done THEN settling ELSE settling - 1
    /\ UNCHANGED <<fault, loaded, expected, mismatches, dismissal, dismissed>>

HealthInit ==
    /\ attached \in SUBSET Reporting /\ owed = Reporting
    /\ gone = [d \in Blocking |-> IF d \in attached THEN 0 ELSE Window[d] + 1]
    /\ seen = [d \in Devices |-> IF d = Subsystem THEN Absent ELSE Never]
    /\ fault = {} /\ loaded \in BOOLEAN
    /\ expected \in Baselines /\ settling \in {Settle, Done}
    /\ mismatches = {} /\ dismissal = "none" /\ dismissed = FALSE

HealthNext ==
    \/ \E d \in Blocking : ReportDevice(d)
    \/ \E target \in {Board, Subsystem} : BoardEvent(target)
    \/ HealthTime \/ Compare \/ AskPreflight \/ Dismiss \/ ChangeModel

\* Time passes, and those who report and the comparison run on it.
HealthFairness ==
    /\ WF_healthVars(HealthTime) /\ WF_healthVars(Compare)
    /\ \A d \in Blocking : WF_healthVars(ReportDevice(d))
    /\ WF_healthVars(BoardEvent(Board))

HealthSpec == HealthInit /\ [][HealthNext]_healthVars /\ HealthFairness

----------------------------------------------------------------------------
\* The gate opens only to an operator whose blocking devices were really
\* there, each within its own window, when the station called itself ready:
\* server.go handleSyscheckDismiss over buildPreflight and the registry.
ReadyMeansAttached ==
    [][dismissal' = "ready" /\ dismissal = "none" => \A d \in Blocking : gone[d] <= Window[d]]_healthVars

\* When all that is asked for is there and stays, and the comparison found
\* nothing, the operator is not kept on the status page by an old fault.
StationGetsReady ==
    <>[](Blocking \subseteq attached /\ loaded /\ mismatches = {}) => <>[]Ready
=============================================================================
