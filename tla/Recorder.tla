------------------------------- MODULE Recorder -------------------------------
(***************************************************************************)
(* The flight recorder (internal/recorder/recorder.go): a working SQLite   *)
(* database in memory that is copied to a file when a flight ends.  OnArm  *)
(* opens a session; OnDisarm closes it, copies the database, writes the    *)
(* sidecar that protects a recording, sweeps old recordings and rotates to *)
(* a fresh database.  OnDisarm takes and drops the mutex between these     *)
(* steps, so every one of them is an action of its own here and the        *)
(* loggers, the recovery view and the operator run in between.             *)
(*                                                                         *)
(* A recording is named by the session it holds: file names are the        *)
(* session's start time, so names, save order and modification order agree.*)
(* Every fresh database numbers its only session 1.                        *)
(***************************************************************************)
EXTENDS Naturals, FiniteSets

CONSTANTS
    Keep,        \* cfg.Keep: recordings the sweep leaves
    MaxSessions  \* sessions in a behaviour (model bound)

ASSUME KeepAssumption == Keep \in Nat \ {0} /\ MaxSessions \in Nat

Sessions == 1..MaxSessions
Kinds    == {"armed", "flight.armed", "failsafe", "flight.disarmed", "disarmed"}
Row      == (0..1) \X Kinds         \* (session_id, kind)
NoReason == ""
Reasons  == {"failsafe", "manual", "operator"}

VARIABLES
    db,         \* is r.db open?  (FALSE: nil)
    rows,       \* the events table of the working database
    session,    \* r.sessionID
    started,    \* r.startedAt, as the number of the session; 0 is the zero time
    flag,       \* r.preserveReason
    saving,     \* OnDisarm: where it is, its file, its reason, its victims
    sessions,   \* sessions started so far
    files,      \* recordings on disk: name -> rows
    sidecar,    \* .preserve files on disk: name -> reason, or NoReason
    everSaved,  \* history: recordings that were ever written
    owed        \* history: recordings someone asked to keep, in time

memory  == <<db, rows, session, started, flag, saving>>
disk    == <<files, sidecar>>
recVars == <<memory, sessions, disk, everSaved, owed>>

Steps == {"out", "save", "flag", "sidecar", "list", "remove", "rotate"}
Out   == [at |-> "out", dst |-> 0, reason |-> NoReason, victims |-> {}]

RecorderTypeOK ==
    /\ db \in BOOLEAN
    /\ rows \subseteq Row
    /\ session \in 0..1 /\ started \in 0..MaxSessions
    /\ sessions \in 0..MaxSessions
    /\ flag \in Reasons \cup {NoReason}
    /\ saving \in [at : Steps, dst : 0..MaxSessions,
                   reason : Reasons \cup {NoReason}, victims : SUBSET Sessions]
    /\ DOMAIN files \subseteq Sessions
    /\ \A n \in DOMAIN files : files[n] \subseteq Row
    /\ sidecar \in [Sessions -> Reasons \cup {NoReason}]
    /\ everSaved \subseteq Sessions /\ owed \subseteq Sessions

\* New and openWorking: what a fresh process has in memory.
FreshMemory ==
    /\ db = TRUE /\ rows = {} /\ session = 0 /\ started = 0
    /\ flag = NoReason /\ saving = Out

RecInit ==
    /\ FreshMemory
    /\ sessions = 0
    /\ files = [n \in {} |-> {}] /\ sidecar = [n \in Sessions |-> NoReason]
    /\ everSaved = {} /\ owed = {}

-----------------------------------------------------------------------------

\* recordEventLocked: a nil database drops the event.
Insert(kind) ==
    rows' = IF db THEN rows \cup {<<session, kind>>} ELSE rows

LogEvent(kind) ==
    /\ Insert(kind)
    /\ UNCHANGED <<db, session, started, flag, saving, sessions, disk,
                   everSaved, owed>>

\* OnArm, with the insert of the session row succeeding.
StartSession ==
    /\ session = 0 /\ sessions < MaxSessions
    /\ session' = 1
    /\ sessions' = sessions + 1
    /\ started' = sessions + 1
    /\ rows' = rows \cup {<<1, "armed">>}
    /\ UNCHANGED <<db, flag, saving, disk, everSaved, owed>>

\* OnArm twice in a row, or with the insert failing.
OnArm == StartSession \/ UNCHANGED recVars

\* PreserveCurrentSession: the latest reason wins.
Preserve(reason) ==
    /\ flag' = reason
    /\ owed' = IF session = 1 /\ db /\ saving.at \in {"out", "save", "flag"}
               THEN owed \cup {started} ELSE owed
    /\ UNCHANGED <<db, rows, session, started, saving, sessions, disk,
                   everSaved>>

\* SetPreserved(name, "operator", TRUE), on a recording that exists.
SetPreserved(n) ==
    /\ n \in DOMAIN files
    /\ sidecar' = [sidecar EXCEPT ![n] = "operator"]
    /\ owed' = IF saving.at = "remove" /\ n \in saving.victims
               THEN owed ELSE owed \cup {n}
    /\ UNCHANGED <<memory, sessions, files, everSaved>>

\* SetPreserved(name, "", FALSE).
Unpreserve(n) ==
    /\ n \in DOMAIN files
    /\ sidecar' = [sidecar EXCEPT ![n] = NoReason]
    /\ owed' = owed \ {n}
    /\ UNCHANGED <<memory, sessions, files, everSaved>>

-----------------------------------------------------------------------------
\* OnDisarm, step by step.

\* OnDisarm without a session returns at once.
NothingToSave == saving.at = "out" /\ session = 0 /\ UNCHANGED recVars

\* Under the lock: the event, ended_at, the name.
CloseSession ==
    /\ saving.at = "out" /\ session # 0 /\ db
    /\ Insert("disarmed")
    /\ saving' = [Out EXCEPT !.at = "save", !.dst = started]
    /\ UNCHANGED <<db, session, started, flag, sessions, disk,
                   everSaved, owed>>

\* The same with r.db nil: the UPDATE dereferences it.
NilClose == saving.at = "out" /\ session # 0 /\ ~db

\* saveWorkingTo: VACUUM INTO copies the whole database, or fails.
Saved ==
    /\ saving.at = "save"
    /\ files' = [n \in DOMAIN files \cup {saving.dst} |->
                    IF n = saving.dst THEN rows ELSE files[n]]
    /\ everSaved' = everSaved \cup {saving.dst}
    /\ saving' = [saving EXCEPT !.at = "flag"]
    /\ UNCHANGED <<db, rows, session, started, flag, sessions, sidecar, owed>>

SaveFails ==
    /\ saving.at = "save"
    /\ saving' = [saving EXCEPT !.at = "rotate"]
    /\ owed' = owed \ {saving.dst}
    /\ UNCHANGED <<db, rows, session, started, flag, sessions, disk, everSaved>>

TakeFlag ==
    /\ saving.at = "flag"
    /\ saving' = [saving EXCEPT !.at = "sidecar", !.reason = flag]
    /\ flag' = NoReason
    /\ UNCHANGED <<db, rows, session, started, sessions, disk, everSaved, owed>>

\* writePreserveSidecar: a write that fails is only logged.
WriteSidecar ==
    /\ saving.at = "sidecar"
    /\ saving' = [saving EXCEPT !.at = "list"]
    /\ \/ /\ saving.reason # NoReason
          /\ sidecar' = [sidecar EXCEPT ![saving.dst] = saving.reason]
          /\ owed' = owed
       \/ /\ saving.reason # NoReason
          /\ sidecar' = sidecar
          /\ owed' = owed \ {saving.dst}
       \/ saving.reason = NoReason /\ UNCHANGED <<sidecar, owed>>
    /\ UNCHANGED <<db, rows, session, started, flag, sessions, files, everSaved>>

\* cleanupOldRecordings, first half: of the recordings without a sidecar, those
\* that Keep newer ones follow.
Unprotected == {n \in DOMAIN files : sidecar[n] = NoReason}

\* Mutant: sorted the other way, the newest go.
Victims_Newest == {n \in Unprotected :
                      Cardinality({m \in Unprotected : m < n}) >= Keep}

Victims == {n \in Unprotected :
               Cardinality({m \in Unprotected : m > n}) >= Keep}

ListVictims ==
    /\ saving.at = "list"
    /\ saving' = [saving EXCEPT !.at = "remove", !.victims = Victims]
    /\ UNCHANGED <<db, rows, session, started, flag, sessions, disk,
                   everSaved, owed>>

\* Second half: os.Remove of each; one that fails is only logged.
RemoveVictims ==
    /\ saving.at = "remove"
    /\ \E gone \in SUBSET saving.victims :
          files' = [n \in DOMAIN files \ gone |-> files[n]]
    /\ saving' = [saving EXCEPT !.at = "rotate"]
    /\ UNCHANGED <<db, rows, session, started, flag, sessions, sidecar,
                   everSaved, owed>>

\* Close the working database and open a fresh one; if that fails r.db is
\* nil and the session number stays.
Rotated ==
    /\ saving.at = "rotate"
    /\ rows' = {} /\ session' = 0 /\ started' = 0
    /\ saving' = Out
    /\ UNCHANGED <<db, flag, sessions, disk, everSaved, owed>>

RotateFails ==
    /\ saving.at = "rotate"
    /\ db' = FALSE /\ rows' = {}
    /\ saving' = Out
    /\ UNCHANGED <<session, started, flag, sessions, disk, everSaved, owed>>

\* The process ends (power loss, panic) and systemd starts another: what was
\* in memory is gone, the recordings stay.
RestartRecorder ==
    /\ db' = TRUE /\ rows' = {} /\ session' = 0 /\ started' = 0
    /\ flag' = NoReason /\ saving' = Out
    /\ owed' = owed \cap {n \in Sessions : sidecar[n] # NoReason}
    /\ UNCHANGED <<sessions, disk, everSaved>>

\* Every caller, in any order.
RecNext ==
    \/ OnArm
    \/ \E k \in Kinds : LogEvent(k)
    \/ \E reason \in {"failsafe", "manual"} : Preserve(reason)
    \/ \E n \in Sessions : SetPreserved(n) \/ Unpreserve(n)
    \/ CloseSession \/ Saved \/ SaveFails \/ TakeFlag \/ WriteSidecar
    \/ ListVictims \/ RemoveVictims \/ Rotated \/ RotateFails
    \/ RestartRecorder

RecSpec == RecInit /\ [][RecNext]_recVars

-----------------------------------------------------------------------------

\* A recording that the recovery view or the operator asked to keep, while that
\* could still be honoured, is never removed by a sweep; the excuses are a
\* sidecar that could not be written, an operator who released it, a restart
\* that lost the flag.
KeptFlightsSurvive == owed \cap everSaved \subseteq DOMAIN files

\* A recording is only ever swept when Keep newer flights were recorded: no
\* sequence of failed copies, restarts or protections costs a newer one.
SweepSparesNewest ==
    \A n \in everSaved \ DOMAIN files :
        Cardinality({m \in everSaved : m > n}) >= Keep

\* What a sweep may take: neither a promise nor one of the newest.
SweepsAreSafe == KeptFlightsSurvive /\ SweepSparesNewest
=============================================================================
