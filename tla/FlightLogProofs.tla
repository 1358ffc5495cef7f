---------------------------- MODULE FlightLogProofs ----------------------------
(*****************************************************************************)
(* What the recorder keeps and sweeps (Recorder), that it holds of the daemon *)
(* that drives it, and that the daemon records every flight whole            *)
(* (FlightLog): for every value of the constants.                            *)
(*****************************************************************************)
EXTENDS FlightLog, FiniteSetTheorems, TLAPS

-----------------------------------------------------------------------------
(* The recorder.  A recording someone asked to keep, in time, is never swept, *)
(* and none is swept that Keep newer ones do not follow.  KeepInv says where the *)
(* promise is between the request and the sidecar (in the flag, in OnDisarm's *)
(* local copy, on disk); SessionInv ties the open session to the recordings on *)
(* disk; SweepInv carries the count of newer recordings from the listing to the *)
(* removal.                                                                  *)

\* A promise is on disk, or on its way there.
Promised(n) ==
    \/ sidecar[n] # NoReason
    \/ /\ session = 1 /\ n = started /\ flag # NoReason
       /\ saving.at \in {"out", "save", "flag"}
    \/ saving.at = "sidecar" /\ n = saving.dst /\ saving.reason # NoReason

SessionInv ==
    /\ session = 1 => started = sessions /\ started \in Sessions
    /\ everSaved \subseteq 1..sessions
    /\ session = 1 /\ db /\ saving.at \in {"out", "save"} => started \notin everSaved
    /\ saving.at # "out" => session = 1 /\ db /\ saving.dst = started
    /\ saving.at = "flag" => saving.dst \in DOMAIN files

KeepInv ==
    /\ \A n \in owed : Promised(n)
    /\ saving.at = "remove" => saving.victims \cap owed = {}
    /\ KeptFlightsSurvive

Followed(n) == Cardinality({m \in everSaved : m > n}) >= Keep

SweepInv ==
    /\ DOMAIN files \subseteq everSaved
    /\ saving.at = "remove" => \A n \in saving.victims : Followed(n)
    /\ \A n \in everSaved \ DOMAIN files : Followed(n)

-----------------------------------------------------------------------------

\* Every row the recorder writes is a row.
LEMMA Rows == /\ \A s \in 0..1, k \in Kinds : <<s, k>> \in Row
              /\ <<1, "armed">> \in Row
  BY DEF Row, Kinds

\* A step keeps the types; SessionInv says that the session being saved is one.
LEMMA TypeStep ==
    RecorderTypeOK /\ SessionInv /\ [RecNext]_recVars => RecorderTypeOK'
  <1> SUFFICES ASSUME RecorderTypeOK, SessionInv, [RecNext]_recVars
               PROVE  RecorderTypeOK'
    OBVIOUS
  <1> USE KeepAssumption
      DEF RecorderTypeOK, Reasons, Sessions, Steps, Out, recVars, memory, disk
  <1>1. CASE OnArm
    <2>1. CASE StartSession
      <3>1. rows' \subseteq Row
        BY <2>1, Rows, Zenon DEF StartSession, RecorderTypeOK
      <3>2. session' \in 0..1 /\ started' \in 0..MaxSessions /\ sessions' \in 0..MaxSessions
        BY <2>1 DEF StartSession
      <3>3. QED
        BY <2>1, <3>1, <3>2 DEF StartSession
    <2>2. CASE UNCHANGED recVars
      BY <2>2
    <2>3. QED
      BY <1>1, <2>1, <2>2 DEF OnArm
  <1>2. ASSUME NEW k \in Kinds, LogEvent(k) PROVE RecorderTypeOK'
    BY <1>2, Rows DEF LogEvent, Insert
  <1>3. ASSUME NEW reason \in {"failsafe", "manual"}, Preserve(reason)
       PROVE RecorderTypeOK'
    BY <1>3 DEF Preserve, SessionInv
  <1>4. ASSUME NEW n \in Sessions, SetPreserved(n) PROVE RecorderTypeOK'
    BY <1>4 DEF SetPreserved
  <1>5. ASSUME NEW n \in Sessions, Unpreserve(n) PROVE RecorderTypeOK'
    BY <1>5 DEF Unpreserve
  <1>6. CASE CloseSession
    <2>1. rows' \subseteq Row
      BY <1>6, Rows DEF CloseSession, Insert, Kinds
    <2>2. QED
      BY <1>6, <2>1 DEF CloseSession
  <1>7. CASE Saved
    <2>1. saving.dst \in Sessions
      BY <1>7 DEF Saved, SessionInv
    <2>2. DOMAIN files' \subseteq Sessions /\ \A n \in DOMAIN files' : files'[n] \subseteq Row
      BY <1>7, <2>1 DEF Saved
    <2>3. QED
      BY <1>7, <2>1, <2>2 DEF Saved
  <1>8. CASE SaveFails
    BY <1>8 DEF SaveFails
  <1>9. CASE TakeFlag
    BY <1>9 DEF TakeFlag
  <1>10. CASE WriteSidecar
    BY <1>10 DEF WriteSidecar
  <1>11. CASE ListVictims
    <2>1. Victims \in SUBSET Sessions
      BY DEF Victims, Unprotected
    <2>2. QED
      BY <1>11, <2>1 DEF ListVictims
  <1>12. CASE RemoveVictims
    BY <1>12 DEF RemoveVictims
  <1>13. CASE Rotated
    BY <1>13 DEF Rotated
  <1>14. CASE RotateFails
    <2>1. db' \in BOOLEAN
      BY <1>14, Zenon DEF RotateFails
    <2>2. QED
      BY <1>14, <2>1 DEF RotateFails
  <1>15. CASE RestartRecorder
    BY <1>15 DEF RestartRecorder
  <1>16. CASE UNCHANGED recVars
    BY <1>16
  <1>17. QED
    BY <1>1, <1>2, <1>3, <1>4, <1>5, <1>6, <1>7, <1>8, <1>9,
       <1>10, <1>11, <1>12, <1>13, <1>14, <1>15, <1>16 DEF RecNext

\* A step keeps the session and the recordings in step.
LEMMA SessionStep ==
    RecorderTypeOK /\ SessionInv /\ [RecNext]_recVars => SessionInv'
  <1> SUFFICES ASSUME RecorderTypeOK, SessionInv, [RecNext]_recVars
               PROVE  SessionInv'
    OBVIOUS
  <1> USE KeepAssumption
      DEF RecorderTypeOK, SessionInv, Sessions, Steps, Out, recVars, memory, disk
  <1>1. CASE OnArm
    <2>1. CASE StartSession
      <3>1. sessions + 1 \in Sessions /\ sessions + 1 \notin 1..sessions
        BY <2>1 DEF StartSession
      <3>2. everSaved \subseteq 1..(sessions + 1)
        OBVIOUS
      <3>3. saving.at = "out"
        BY <2>1 DEF StartSession
      <3>4. QED
        BY <2>1, <3>1, <3>2, <3>3 DEF StartSession
    <2>2. CASE UNCHANGED recVars
      BY <2>2
    <2>3. QED
      BY <1>1, <2>1, <2>2 DEF OnArm
  <1>2. ASSUME NEW k \in Kinds, LogEvent(k) PROVE SessionInv'
    BY <1>2 DEF LogEvent, Insert
  <1>3. ASSUME NEW reason \in {"failsafe", "manual"}, Preserve(reason)
       PROVE SessionInv'
    BY <1>3 DEF Preserve
  <1>4. ASSUME NEW n \in Sessions, SetPreserved(n) PROVE SessionInv'
    BY <1>4 DEF SetPreserved
  <1>5. ASSUME NEW n \in Sessions, Unpreserve(n) PROVE SessionInv'
    BY <1>5 DEF Unpreserve
  <1>6. CASE CloseSession
    BY <1>6 DEF CloseSession, Insert
  <1>7. CASE Saved
    BY <1>7 DEF Saved
  <1>8. CASE SaveFails
    BY <1>8 DEF SaveFails
  <1>9. CASE TakeFlag
    BY <1>9 DEF TakeFlag
  <1>10. CASE WriteSidecar
    BY <1>10 DEF WriteSidecar
  <1>11. CASE ListVictims
    BY <1>11 DEF ListVictims
  <1>12. CASE RemoveVictims
    BY <1>12 DEF RemoveVictims
  <1>13. CASE Rotated
    BY <1>13 DEF Rotated
  <1>14. CASE RotateFails
    BY <1>14 DEF RotateFails
  <1>15. CASE RestartRecorder
    BY <1>15 DEF RestartRecorder
  <1>16. CASE UNCHANGED recVars
    BY <1>16
  <1>17. QED
    BY <1>1, <1>2, <1>3, <1>4, <1>5, <1>6, <1>7, <1>8, <1>9,
       <1>10, <1>11, <1>12, <1>13, <1>14, <1>15, <1>16 DEF RecNext

\* Whoever asks, gives a reason.
LEMMA Asked == \A reason \in Reasons : reason # NoReason
  BY DEF Reasons, NoReason

\* A step keeps the promises: what is asked for is on its way to the disk, and
\* the sweep lists only recordings nobody asked for.
LEMMA KeepStep ==
    RecorderTypeOK /\ SessionInv /\ KeepInv /\ [RecNext]_recVars => KeepInv'
  <1> SUFFICES ASSUME RecorderTypeOK, SessionInv, KeepInv, [RecNext]_recVars
               PROVE  KeepInv'
    OBVIOUS
  <1> USE KeepAssumption
      DEF RecorderTypeOK, SessionInv, KeepInv, Promised, KeptFlightsSurvive,
              Sessions, Steps, Out, recVars, memory, disk
  <1>1. CASE OnArm
    <2>1. CASE StartSession
      <3> HIDE DEF KeepInv
      <3>1. session = 0 /\ saving.at = "out"
        BY <2>1 DEF StartSession
      <3>2. \A n \in owed : sidecar[n] # NoReason
        BY <3>1 DEF KeepInv
      <3>3. QED
        BY <2>1, <3>1, <3>2 DEF StartSession, KeepInv
    <2>2. CASE UNCHANGED recVars
      BY <2>2
    <2>3. QED
      BY <1>1, <2>1, <2>2 DEF OnArm
  <1>2. ASSUME NEW k \in Kinds, LogEvent(k) PROVE KeepInv'
    BY <1>2 DEF LogEvent, Insert
  <1>3. ASSUME NEW reason \in {"failsafe", "manual"}, Preserve(reason)
       PROVE KeepInv'
    BY <1>3, Asked DEF Preserve, Reasons
  <1>4. ASSUME NEW n \in Sessions, SetPreserved(n) PROVE KeepInv'
    BY <1>4, Asked DEF SetPreserved, Reasons
  <1>5. ASSUME NEW n \in Sessions, Unpreserve(n) PROVE KeepInv'
    BY <1>5 DEF Unpreserve
  <1>6. CASE CloseSession
    BY <1>6 DEF CloseSession, Insert
  <1>7. CASE Saved
    <2> HIDE DEF KeepInv, Promised, KeptFlightsSurvive
    <2>1. saving'.at = "flag" /\ saving'.dst = saving.dst
      BY <1>7 DEF Saved
    <2>2. \A n \in owed : Promised(n)'
      BY <1>7, <2>1 DEF Saved, KeepInv, Promised
    <2>3. KeptFlightsSurvive'
      BY <1>7 DEF Saved, KeepInv, KeptFlightsSurvive
    <2>4. QED
      BY <1>7, <2>1, <2>2, <2>3 DEF Saved, KeepInv
  <1>8. CASE SaveFails
    BY <1>8 DEF SaveFails
  <1>9. CASE TakeFlag
    BY <1>9 DEF TakeFlag
  <1>10. CASE WriteSidecar
    BY <1>10 DEF WriteSidecar
  <1>11. CASE ListVictims
    <2>1. \A n \in owed : sidecar[n] # NoReason
      BY <1>11 DEF ListVictims
    <2>2. Victims \cap owed = {}
      BY <2>1 DEF Victims, Unprotected
    <2>3. saving'.at = "remove" /\ saving'.victims = Victims
      BY <1>11 DEF ListVictims
    <2>4. QED
      BY <1>11, <2>1, <2>2, <2>3 DEF ListVictims
  <1>12. CASE RemoveVictims
    BY <1>12 DEF RemoveVictims
  <1>13. CASE Rotated
    BY <1>13 DEF Rotated
  <1>14. CASE RotateFails
    BY <1>14 DEF RotateFails
  <1>15. CASE RestartRecorder
    BY <1>15 DEF RestartRecorder
  <1>16. CASE UNCHANGED recVars
    BY <1>16
  <1>17. QED
    BY <1>1, <1>2, <1>3, <1>4, <1>5, <1>6, <1>7, <1>8, <1>9,
       <1>10, <1>11, <1>12, <1>13, <1>14, <1>15, <1>16 DEF RecNext

\* More recordings, no fewer that follow.
LEMMA MoreFollow ==
    ASSUME NEW B \in SUBSET Sessions, NEW A \in SUBSET B
    PROVE  Cardinality(A) \in Nat /\ Cardinality(B) \in Nat /\ Cardinality(A) <= Cardinality(B)
  <1>1. IsFiniteSet(Sessions)
    BY KeepAssumption, FS_Interval, 0 \in Int, 1 \in Int, MaxSessions \in Int DEF Sessions
  <1>2. IsFiniteSet(B)
    BY <1>1, FS_Subset
  <1>3. QED
    BY <1>2, FS_Subset, FS_CardinalityType

\* Recordings that Keep newer ones follow stay so when more are made.
LEMMA FollowStep ==
    ASSUME NEW n, Followed(n), everSaved \subseteq everSaved', everSaved' \subseteq Sessions
    PROVE  Followed(n)'
  <1>1. {m \in everSaved : m > n} \in SUBSET {m \in everSaved' : m > n}
    OBVIOUS
  <1>2. {m \in everSaved' : m > n} \in SUBSET Sessions
    OBVIOUS
  <1>3. QED
    BY <1>1, <1>2, MoreFollow, KeepAssumption DEF Followed

\* A step keeps the counts: a victim had Keep newer recordings when it was listed.
LEMMA SweepStep ==
    RecorderTypeOK /\ SessionInv /\ SweepInv /\ [RecNext]_recVars => SweepInv'
  <1> SUFFICES ASSUME RecorderTypeOK, SessionInv, SweepInv, [RecNext]_recVars
               PROVE  SweepInv'
    OBVIOUS
  <1>0. \A n : Followed(n) /\ everSaved \subseteq everSaved' => Followed(n)'
    BY FollowStep, TypeStep DEF RecorderTypeOK
  <1> USE KeepAssumption, <1>0
      DEF RecorderTypeOK, SweepInv, Sessions, Steps, Out, recVars, memory, disk
  <1>1. CASE OnArm
    BY <1>1 DEF OnArm, StartSession
  <1>2. ASSUME NEW k \in Kinds, LogEvent(k) PROVE SweepInv'
    BY <1>2 DEF LogEvent, Insert
  <1>3. ASSUME NEW reason \in {"failsafe", "manual"}, Preserve(reason)
       PROVE SweepInv'
    BY <1>3 DEF Preserve
  <1>4. ASSUME NEW n \in Sessions, SetPreserved(n) PROVE SweepInv'
    BY <1>4 DEF SetPreserved
  <1>5. ASSUME NEW n \in Sessions, Unpreserve(n) PROVE SweepInv'
    BY <1>5 DEF Unpreserve
  <1>6. CASE CloseSession
    BY <1>6 DEF CloseSession, Insert
  <1>7. CASE Saved
    BY <1>7 DEF Saved
  <1>8. CASE SaveFails
    BY <1>8 DEF SaveFails
  <1>9. CASE TakeFlag
    BY <1>9 DEF TakeFlag
  <1>10. CASE WriteSidecar
    BY <1>10 DEF WriteSidecar
  <1>11. CASE ListVictims
    <2>1. \A n \in Victims : Followed(n)
      <3> SUFFICES ASSUME NEW n \in Victims PROVE Followed(n)
        OBVIOUS
      <3>1. {m \in Unprotected : m > n} \in SUBSET {m \in everSaved : m > n}
        BY DEF Unprotected
      <3>2. {m \in everSaved : m > n} \in SUBSET Sessions
        OBVIOUS
      <3>3. QED
        BY <3>1, <3>2, MoreFollow DEF Victims, Followed
    <2>2. saving'.at = "remove" /\ saving'.victims = Victims
      BY <1>11 DEF ListVictims
    <2>3. everSaved' = everSaved /\ files' = files
      BY <1>11 DEF ListVictims
    <2>4. \A n : Followed(n) => Followed(n)'
      BY <1>0, <2>3
    <2>5. QED
      BY <2>1, <2>2, <2>3, <2>4
  <1>12. CASE RemoveVictims
    BY <1>12 DEF RemoveVictims
  <1>13. CASE Rotated
    BY <1>13 DEF Rotated
  <1>14. CASE RotateFails
    BY <1>14 DEF RotateFails
  <1>15. CASE RestartRecorder
    BY <1>15 DEF RestartRecorder
  <1>16. CASE UNCHANGED recVars
    BY <1>16
  <1>17. QED
    BY <1>1, <1>2, <1>3, <1>4, <1>5, <1>6, <1>7, <1>8, <1>9,
       <1>10, <1>11, <1>12, <1>13, <1>14, <1>15, <1>16 DEF RecNext

\* Every variable keeps its type.
LEMMA Typed == RecSpec => [](RecorderTypeOK /\ SessionInv)
<1>1. RecInit => RecorderTypeOK /\ SessionInv
  BY KeepAssumption
  DEF RecInit, FreshMemory, RecorderTypeOK, SessionInv, Out, Sessions, Steps, Reasons
<1>2. QED
  BY <1>1, TypeStep, SessionStep, PTL DEF RecSpec

\* Under every caller, every variable keeps its type.
THEOREM RecTyping == RecSpec => []RecorderTypeOK
  BY Typed, PTL

\* Under every caller: a recording that someone asked to keep, in time, is
\* never removed by a sweep.
THEOREM PromisesKept == RecSpec => []KeptFlightsSurvive
<1>1. RecInit => KeepInv
  BY DEF RecInit, FreshMemory, KeepInv, KeptFlightsSurvive, Out
<1>2. KeepInv => KeptFlightsSurvive
  BY DEF KeepInv
<1>3. QED
  BY <1>1, <1>2, Typed, KeepStep, PTL DEF RecSpec

\* Under every caller: a recording is only swept when Keep newer flights were
\* recorded.
THEOREM NewestSpared == RecSpec => []SweepSparesNewest
<1>1. RecInit => SweepInv
  BY DEF RecInit, FreshMemory, SweepInv, Out
<1>2. SweepInv => SweepSparesNewest
  BY DEF SweepInv, SweepSparesNewest, Followed
<1>3. QED
  BY <1>1, <1>2, Typed, SweepStep, PTL DEF RecSpec

-----------------------------------------------------------------------------
(* The handler, the sampler, the recovery view and the operator of FlightLog are *)
(* callers the recorder is proved for: every step of theirs is a step of the *)
(* recorder or leaves it alone.                                              *)

\* A step of the daemon is a step of the recorder, or none.
LEMMA DaemonStep == [Next]_flVars => [RecNext]_recVars
<1> SUFFICES ASSUME [Next]_flVars PROVE [RecNext]_recVars
  OBVIOUS
<1>1. CASE OpenSession
  BY <1>1 DEF OpenSession, RecNext
<1>2. CASE ArmedEvent \/ DisarmedEvent \/ LogFailsafe
  BY <1>2 DEF ArmedEvent, DisarmedEvent, LogFailsafe, RecNext, Kinds
<1>3. CASE BeginOnDisarm
  BY <1>3 DEF BeginOnDisarm, NothingToSave, RecNext
<1>4. CASE SaveSteps
  BY <1>4 DEF SaveSteps, RecNext
<1>5. CASE EndOnDisarm
  BY <1>5 DEF EndOnDisarm, RecNext
<1>6. ASSUME NEW reason \in {"failsafe", "manual"}, AskRecorder(reason)
      PROVE  RecNext
  BY <1>6 DEF AskRecorder, RecNext
<1>7. ASSUME NEW n \in Sessions, Pin(n) PROVE RecNext
  BY <1>7 DEF Pin, RecNext
<1>8. CASE Restart \/ Panic
  BY <1>8 DEF Restart, Panic, Reboot, RecNext
<1>9. CASE UNCHANGED flVars
  BY <1>9 DEF flVars
<1>10. CASE Arm \/ Disarm \/ TakeEvent \/ SetArmed(TRUE) \/ SetArmed(FALSE) \/ Capture
  BY <1>10 DEF Arm, Disarm, TakeEvent, SetArmed, Capture
<1>11. CASE FlightModeChanges \/ Tick \/ TriggerFailsafe \/ TriggerManual \/ Dismiss
  BY <1>11 DEF FlightModeChanges, Tick, TriggerFailsafe, TriggerManual, Dismiss
<1>12. QED
  BY <1>1, <1>2, <1>3, <1>4, <1>5, <1>6, <1>7, <1>8, <1>9, <1>10, <1>11 DEF Next

\* The daemon drives the recorder only in ways the recorder is proved for.
THEOREM DaemonRunsRecorder == Spec => RecSpec
<1>1. Init => RecInit
  BY DEF Init
<1>2. QED
  BY <1>1, DaemonStep, PTL DEF Spec, RecSpec

\* With the whole daemon around it: a recording that the recovery view or the
\* operator asked to keep, in time, is never removed by a sweep.
THEOREM FlightsKept == Spec => []KeptFlightsSurvive
  BY DaemonRunsRecorder, PromisesKept, PTL

\* With the whole daemon around it: a recording is only swept when Keep newer
\* flights were recorded.
THEOREM NewestKept == Spec => []SweepSparesNewest
  BY DaemonRunsRecorder, NewestSpared, PTL

\* With the whole daemon around it: a sweep takes neither a recording that is to be
\* kept nor one of the newest.
THEOREM SweepsSafe == Spec => []SweepsAreSafe
<1>1. KeptFlightsSurvive /\ SweepSparesNewest => SweepsAreSafe
  BY DEF SweepsAreSafe
<1>2. QED BY <1>1, FlightsKept, NewestKept, PTL

-----------------------------------------------------------------------------
(* Whole flights.  The drain hears of the transitions in turn (TurnInv), so the  *)
(* detector and the recorder, which it calls in an order of its own, see one     *)
(* beginning and one end each (EdgeInv); the rows of an open session grow with   *)
(* the handler's steps (RowInv), and a copy is taken after the last of them.     *)

Turns   == {"disarmed", "armed"}
Budgets == [flights : 0..MaxSessions, oddities : 0..MaxOddities]

\* What flightArmedHandler last did or is doing.
Handled ==
    IF step \in {"open", "detect", "detected"} \/ (step = "idle" /\ armedDet)
    THEN "armed" ELSE "disarmed"

\* The queued transitions alternate, from what is handled to where the machine is.
Alternate(q, from, to) ==
    /\ \A i \in 1..Len(q) : q[i] # IF i = 1 THEN from ELSE q[i - 1]
    /\ to = IF q = <<>> THEN from ELSE q[Len(q)]

TurnInv == Alternate(events, Handled, arm)

\* SetArmed always finds the detector in the other state.
EdgeInv ==
    /\ step \in {"open", "detect"} => ~armedDet
    /\ step \in {"detected", "undetect"} => armedDet
    /\ step \in {"undetected", "capture", "close", "saving"} => ~armedDet

Recording == session = 1 /\ db

Has(k) == <<1, k>> \in rows

\* What the open session has recorded by now.
RowInv ==
    Recording =>
        /\ step # "open" /\ (step = "idle" => armedDet)
        /\ Has("armed")
        /\ step \notin {"detect", "detected"} => Has("flight.armed")
        /\ step \in {"capture", "close", "saving"} => Has("flight.disarmed")
        /\ step \in {"close", "saving"} =>
               {"armed", "flight.armed", "flight.disarmed"} \subseteq narrated

SaveInv ==
    /\ db \/ session = 1
    /\ saving.at # "out" <=> step = "saving"
    /\ saving.at = "save" => Has("disarmed")

LogShapes ==
    /\ arm \in Turns /\ events \in Seq(Turns)
    /\ step \in {"idle", "open", "detect", "detected", "undetect", "undetected",
                 "capture", "close", "saving"}
    /\ narrated \subseteq Kinds
    /\ armedDet \in BOOLEAN /\ lastMode \in Modes \cup {""} /\ mode \in Modes
    /\ tick \in {"idle", "checked", "logged"}
    /\ recovery \in BOOLEAN /\ asking \subseteq {"failsafe", "manual"}
    /\ budget \in Budgets

-----------------------------------------------------------------------------

\* Another transition keeps the alternation.
LEMMA AppendTurn ==
    ASSUME NEW q \in Seq(Turns), NEW from \in Turns, NEW to \in Turns, NEW x \in Turns,
           x # to, Alternate(q, from, to)
    PROVE  Alternate(Append(q, x), from, x)
<1> DEFINE p == Append(q, x)
<1>1. Len(q) \in Nat /\ Len(p) = Len(q) + 1 /\ p # <<>> /\ p[Len(q) + 1] = x
      /\ \A i \in 1..Len(q) : p[i] = q[i]
  OBVIOUS
<1>2. ASSUME NEW i \in 1..Len(p)
      PROVE  p[i] # IF i = 1 THEN from ELSE p[i - 1]
  <2>1. CASE i = Len(q) + 1
    <3>1. CASE q = <<>>
      BY <1>1, <2>1, <3>1 DEF Alternate
    <3>2. CASE q # <<>>
      <4>1. to = q[Len(q)] /\ Len(q) >= 1
        BY <3>2 DEF Alternate
      <4>2. i # 1 /\ p[i - 1] = q[Len(q)]
        BY <1>1, <2>1, <4>1
      <4>3. QED
        BY <1>1, <2>1, <4>1, <4>2
    <3>3. QED
      BY <3>1, <3>2
  <2>2. CASE i \in 1..Len(q)
    <3>1. q[i] # IF i = 1 THEN from ELSE q[i - 1]
      BY <2>2 DEF Alternate
    <3>2. i # 1 => i - 1 \in 1..Len(q)
      BY <1>1, <2>2
    <3>3. QED
      BY <1>1, <2>2, <3>1, <3>2
  <2>3. QED
    BY <1>1, <2>1, <2>2
<1>3. QED
  BY <1>1, <1>2 DEF Alternate

\* The transition that is taken is not the one handled before.
LEMMA TailTurn ==
    ASSUME NEW q \in Seq(Turns), NEW from \in Turns, NEW to \in Turns, q # <<>>,
           Alternate(q, from, to)
    PROVE  /\ Head(q) # from /\ Head(q) \in Turns
           /\ Alternate(Tail(q), Head(q), to)
<1> DEFINE t == Tail(q)
<1>1. Len(q) \in Nat \ {0} /\ Len(t) = Len(q) - 1 /\ Head(q) = q[1]
      /\ \A i \in 1..Len(t) : t[i] = q[i + 1]
  OBVIOUS
<1>2. Head(q) # from /\ Head(q) \in Turns
  BY <1>1 DEF Alternate
<1>3. ASSUME NEW i \in 1..Len(t)
      PROVE  t[i] # IF i = 1 THEN Head(q) ELSE t[i - 1]
  <2>1. i + 1 \in 1..Len(q) /\ i + 1 # 1 /\ (i + 1) - 1 = i /\ i \in Nat
    BY <1>1
  <2>2. q[i + 1] # q[i]
    BY <2>1 DEF Alternate
  <2>3. i # 1 => i - 1 \in 1..Len(t) /\ (i - 1) + 1 = i
    BY <1>1, <2>1
  <2>4. QED
    BY <1>1, <2>2, <2>3
<1>4. to = IF t = <<>> THEN Head(q) ELSE t[Len(t)]
  <2>1. CASE t = <<>>
    <3>1. Len(q) = 1
      BY <1>1, <2>1
    <3>2. QED
      BY <1>1, <2>1, <3>1 DEF Alternate
  <2>2. CASE t # <<>>
    <3>1. Len(t) \in 1..Len(t) /\ Len(t) + 1 = Len(q)
      BY <1>1, <2>2
    <3>2. QED
      BY <1>1, <2>2, <3>1 DEF Alternate
  <2>3. QED
    BY <2>1, <2>2
<1>5. QED
  BY <1>2, <1>3, <1>4 DEF Alternate

LEMMA QueueTypes ==
    /\ \A q \in Seq(Turns) :
           /\ Append(q, "armed") \in Seq(Turns) /\ Append(q, "disarmed") \in Seq(Turns)
           /\ q # <<>> => Tail(q) \in Seq(Turns) /\ Head(q) \in Turns
    /\ <<>> \in Seq(Turns) /\ "armed" \in Turns /\ "disarmed" \in Turns
<1>1. "armed" \in Turns /\ "disarmed" \in Turns
  BY DEF Turns
<1>2. QED
  BY <1>1

LEMMA Spent ==
    budget \in Budgets /\ (Spend("flights") \/ Spend("oddities")) => budget' \in Budgets
<1>1. budget \in Budgets /\ Spend("flights") => budget' \in Budgets
  BY KeepAssumption DEF Spend, Budgets
<1>2. budget \in Budgets /\ Spend("oddities") => budget' \in Budgets
  BY OdditiesAssumption DEF Spend, Budgets
<1>3. QED
  BY <1>1, <1>2

\* A step keeps the handler's variables in their types.
LEMMA ShapeStep ==
    LogShapes /\ [Next]_flVars => LogShapes'
<1> SUFFICES ASSUME LogShapes, [Next]_flVars PROVE LogShapes'
  OBVIOUS
<1> USE DEF LogShapes
<1>1. Spend("flights") \/ Spend("oddities") => budget' \in Budgets
  BY Spent
<1>2. CASE Arm
  BY <1>1, <1>2, QueueTypes DEF Arm
<1>3. CASE Disarm \/ TakeEvent
  BY <1>3, QueueTypes DEF Disarm, TakeEvent
<1>4. CASE OpenSession \/ ArmedEvent \/ DisarmedEvent
  BY <1>4 DEF OpenSession, ArmedEvent, DisarmedEvent
<1>5. CASE SetArmed(TRUE) \/ SetArmed(FALSE)
  BY <1>5 DEF SetArmed
<1>6. CASE Capture \/ BeginOnDisarm \/ EndOnDisarm
  BY <1>6 DEF Capture, BeginOnDisarm, EndOnDisarm
<1>7. CASE SaveSteps \/ UNCHANGED flVars
  BY <1>7 DEF SaveSteps, logVars, flVars
<1>8. CASE FlightModeChanges \/ Tick \/ LogFailsafe
  BY <1>8 DEF FlightModeChanges, Tick, LogFailsafe
<1>9. CASE TriggerFailsafe \/ TriggerManual \/ Dismiss
  BY <1>1, <1>9 DEF TriggerFailsafe, TriggerManual, Dismiss, Trigger
<1>10. ASSUME NEW reason \in {"failsafe", "manual"}, AskRecorder(reason)
       PROVE  LogShapes'
  BY <1>10 DEF AskRecorder
<1>11. ASSUME NEW n \in Sessions, Pin(n) PROVE LogShapes'
  BY <1>1, <1>11 DEF Pin
<1>12. CASE Restart \/ Panic
  <2>1. Reboot /\ budget' \in Budgets
    BY <1>1, <1>12 DEF Restart, Panic
  <2>2. QED
    BY <2>1, QueueTypes DEF Reboot
<1>13. QED
  BY <1>2, <1>3, <1>4, <1>5, <1>6, <1>7, <1>8, <1>9, <1>10, <1>11, <1>12 DEF Next

\* The handler hears of the transitions in turn, and of each once.
LEMMA TurnStep ==
    LogShapes /\ TurnInv /\ EdgeInv /\ [Next]_flVars => TurnInv' /\ EdgeInv'
<1> SUFFICES ASSUME LogShapes, TurnInv, EdgeInv, [Next]_flVars
             PROVE  TurnInv' /\ EdgeInv'
  OBVIOUS
<1>0. /\ armedDet \in BOOLEAN /\ events \in Seq(Turns) /\ arm \in Turns
      /\ Handled \in Turns
  BY DEF LogShapes, Handled, Turns
<1>1. CASE Arm \/ Disarm
  <2>1. PICK x \in Turns : x # arm /\ arm' = x /\ events' = Append(events, x)
    BY <1>1 DEF Arm, Disarm, Turns
  <2>2. Alternate(Append(events, x), Handled, x)
    BY <1>0, <2>1, AppendTurn DEF TurnInv
  <2>3. UNCHANGED <<step, armedDet>>
    BY <1>1 DEF Arm, Disarm
  <2>4. Handled' = Handled
    BY <2>3 DEF Handled
  <2>5. QED
    BY <2>1, <2>2, <2>3, <2>4 DEF TurnInv, EdgeInv
<1>2. CASE TakeEvent
  <2>1. /\ Head(events) # Handled /\ Head(events) \in Turns
        /\ Alternate(Tail(events), Head(events), arm)
    BY <1>0, <1>2, TailTurn DEF TakeEvent, TurnInv
  <2>2. /\ step = "idle" /\ events' = Tail(events) /\ UNCHANGED <<arm, armedDet>>
        /\ step' = IF Head(events) = "armed" THEN "open" ELSE "undetect"
    BY <1>2 DEF TakeEvent
  <2>3. CASE Head(events) = "armed"
    <3>1. step' = "open" /\ ~armedDet
      BY <2>1, <2>2, <2>3 DEF Handled
    <3>2. Handled' = Head(events)
      BY <2>3, <3>1 DEF Handled
    <3>3. QED
      BY <2>1, <2>2, <3>1, <3>2 DEF TurnInv, EdgeInv
  <2>4. CASE Head(events) = "disarmed"
    <3>1. step' = "undetect" /\ armedDet
      BY <1>0, <2>1, <2>2, <2>4 DEF Handled
    <3>2. Handled' = Head(events)
      BY <2>4, <3>1 DEF Handled
    <3>3. QED
      BY <2>1, <2>2, <3>1, <3>2 DEF TurnInv, EdgeInv
  <2>5. QED
    BY <2>1, <2>3, <2>4 DEF Turns
<1>3. CASE OpenSession \/ SetArmed(TRUE) \/ SetArmed(FALSE) \/ ArmedEvent \/ DisarmedEvent
           \/ Capture \/ BeginOnDisarm \/ EndOnDisarm
  <2>1. UNCHANGED <<arm, events>>
    BY <1>3 DEF OpenSession, SetArmed, ArmedEvent, DisarmedEvent, Capture,
                BeginOnDisarm, EndOnDisarm
  <2>2. Handled' = Handled /\ EdgeInv'
    <3>1. CASE OpenSession
      BY <3>1 DEF OpenSession, EdgeInv, Handled
    <3>2. CASE SetArmed(TRUE)
      BY <3>2 DEF SetArmed, EdgeInv, Handled
    <3>3. CASE SetArmed(FALSE)
      BY <3>3 DEF SetArmed, EdgeInv, Handled
    <3>4. CASE ArmedEvent
      BY <3>4 DEF ArmedEvent, EdgeInv, Handled
    <3>5. CASE DisarmedEvent
      BY <3>5 DEF DisarmedEvent, EdgeInv, Handled
    <3>6. CASE Capture
      BY <3>6 DEF Capture, EdgeInv, Handled
    <3>7. CASE BeginOnDisarm
      BY <3>7 DEF BeginOnDisarm, EdgeInv, Handled
    <3>8. CASE EndOnDisarm
      BY <3>8 DEF EndOnDisarm, EdgeInv, Handled
    <3>9. QED
      BY <1>3, <3>1, <3>2, <3>3, <3>4, <3>5, <3>6, <3>7, <3>8
  <2>3. QED
    BY <2>1, <2>2 DEF TurnInv
<1>4. CASE Restart \/ Panic
  <2>1. Reboot
    BY <1>4 DEF Restart, Panic
  <2>2. arm' = "disarmed" /\ events' = <<>> /\ step' = "idle" /\ armedDet' = FALSE
    BY <2>1 DEF Reboot
  <2>3. Handled' = "disarmed" /\ EdgeInv'
    BY <2>2 DEF Handled, EdgeInv
  <2>4. QED
    BY <2>2, <2>3 DEF TurnInv, Alternate
<1>5. CASE UNCHANGED <<arm, events, step, armedDet>>
  BY <1>5 DEF TurnInv, EdgeInv, Handled
<1>6. CASE SaveSteps \/ FlightModeChanges \/ Tick \/ LogFailsafe \/ TriggerFailsafe
           \/ TriggerManual \/ Dismiss \/ UNCHANGED flVars
  BY <1>5, <1>6 DEF SaveSteps, FlightModeChanges, Tick, LogFailsafe, TriggerFailsafe,
                TriggerManual, Dismiss, flVars, logVars
<1>7. ASSUME NEW reason \in {"failsafe", "manual"}, AskRecorder(reason)
      PROVE  UNCHANGED <<arm, events, step, armedDet>>
  BY <1>7 DEF AskRecorder
<1>8. ASSUME NEW n \in Sessions, Pin(n)
      PROVE  UNCHANGED <<arm, events, step, armedDet>>
  BY <1>8 DEF Pin
<1>9. QED
  BY <1>1, <1>2, <1>3, <1>4, <1>5, <1>6, <1>7, <1>8 DEF Next

\* The steps that touch neither the handler nor what the recorder has in the
\* working database and on disk.
Idles == UNCHANGED <<step, armedDet, narrated, db, rows, session, saving, files>>

LEMMA IdleSteps ==
    /\ Arm \/ Disarm \/ FlightModeChanges \/ Tick \/ TriggerFailsafe \/ TriggerManual
       \/ Dismiss \/ UNCHANGED flVars => Idles
    /\ \A reason : AskRecorder(reason) => Idles
    /\ \A n : Pin(n) => Idles
<1>1. Arm \/ Disarm \/ FlightModeChanges \/ Tick \/ TriggerFailsafe \/ TriggerManual
      \/ Dismiss \/ UNCHANGED flVars => Idles
  BY DEF Idles, Arm, Disarm, FlightModeChanges, Tick, TriggerFailsafe, TriggerManual,
         Dismiss, flVars, logVars, recVars, memory, disk
<1>2. \A reason : AskRecorder(reason) => Idles
  BY DEF Idles, AskRecorder, Preserve, disk
<1>3. \A n : Pin(n) => Idles
  BY DEF Idles, Pin, SetPreserved, Unpreserve, memory
<1>4. QED
  BY <1>1, <1>2, <1>3

\* Rows are only added while a session is open.
LEMMA Logged ==
    ASSUME NEW k, Insert(k)
    PROVE  /\ rows \subseteq rows'
           /\ session = 1 /\ db => <<1, k>> \in rows'
  BY DEF Insert

\* The rows of a session grow with the steps of the handler, and are copied after
\* the last.
LEMMA RowStep ==
    LogShapes /\ EdgeInv /\ TurnInv /\ RowInv /\ SaveInv /\ SavedFlightsBracketed
    /\ RecorderTypeOK /\ SessionInv /\ [Next]_flVars
        => RowInv' /\ SaveInv' /\ SavedFlightsBracketed'
<1> SUFFICES ASSUME LogShapes, EdgeInv, TurnInv, RowInv, SaveInv, SavedFlightsBracketed,
                    RecorderTypeOK, SessionInv, [Next]_flVars
             PROVE  RowInv' /\ SaveInv' /\ SavedFlightsBracketed'
  OBVIOUS
<1>1. CASE Idles
  BY <1>1 DEF Idles, RowInv, SaveInv, SavedFlightsBracketed, Recording, Has
<1>2. CASE TakeEvent
  <2>1. /\ step = "idle" /\ events # <<>> /\ UNCHANGED <<recVars, armedDet, narrated>>
        /\ step' = IF Head(events) = "armed" THEN "open" ELSE "undetect"
    BY <1>2 DEF TakeEvent
  <2>2. Head(events) # Handled
    <3>1. Handled \in Turns /\ events \in Seq(Turns) /\ arm \in Turns
      BY DEF LogShapes, Handled, Turns
    <3>2. QED
      BY <2>1, <3>1, TailTurn DEF TurnInv
  <2>3. Recording => step' = "undetect"
    BY <2>1, <2>2 DEF RowInv, Handled
  <2>4. UNCHANGED <<db, rows, session, saving, files>>
    BY <2>1 DEF recVars, memory, disk
  <2>5. step' \in {"open", "undetect"}
    BY <2>1
  <2>6. RowInv'
    BY <2>1, <2>3, <2>4, <2>5 DEF RowInv, Recording, Has
  <2>7. SaveInv' /\ SavedFlightsBracketed'
    BY <2>1, <2>4, <2>5 DEF SaveInv, SavedFlightsBracketed, Has
  <2>8. QED
    BY <2>6, <2>7
<1>3. CASE OpenSession
  <2>1. step = "open" /\ step' = "detect" /\ UNCHANGED <<armedDet, narrated>>
    BY <1>3 DEF OpenSession
  <2>2. CASE StartSession
    <3>1. session' = 1 /\ session = 0 /\ rows' = rows \cup {<<1, "armed">>}
          /\ UNCHANGED <<db, saving, files>>
      BY <2>2 DEF StartSession, disk
    <3>2. RowInv'
      BY <2>1, <3>1 DEF RowInv, Recording, Has
    <3>3. SaveInv' /\ SavedFlightsBracketed'
      BY <2>1, <3>1 DEF SaveInv, SavedFlightsBracketed, Has
    <3>4. QED
      BY <3>2, <3>3
  <2>3. CASE UNCHANGED recVars
    <3>1. UNCHANGED <<db, rows, session, saving, files>>
      BY <2>3 DEF recVars, memory, disk
    <3>2. ~Recording /\ ~Recording'
      BY <2>1, <3>1 DEF RowInv, Recording
    <3>3. RowInv'
      BY <3>2 DEF RowInv
    <3>4. SaveInv' /\ SavedFlightsBracketed'
      BY <2>1, <3>1 DEF SaveInv, SavedFlightsBracketed, Has
    <3>5. QED
      BY <3>3, <3>4
  <2>4. QED
    BY <1>3, <2>2, <2>3 DEF OpenSession, OnArm
<1>4. CASE SetArmed(TRUE) \/ SetArmed(FALSE)
  <2>1. UNCHANGED <<db, rows, session, saving, files, narrated>>
    BY <1>4 DEF SetArmed, recVars, memory, disk
  <2>2. \/ step = "detect" /\ step' = "detected"
        \/ step = "undetect" /\ step' = "undetected"
    BY <1>4 DEF SetArmed, EdgeInv, LogShapes
  <2>3. RowInv'
    BY <2>1, <2>2 DEF RowInv, Recording, Has
  <2>4. SaveInv' /\ SavedFlightsBracketed'
    BY <2>1, <2>2 DEF SaveInv, SavedFlightsBracketed, Has
  <2>5. QED
    BY <2>3, <2>4
<1>5. CASE ArmedEvent \/ DisarmedEvent \/ LogFailsafe
  <2>1. UNCHANGED <<db, session, saving, files, narrated, armedDet>>
    BY <1>5 DEF ArmedEvent, DisarmedEvent, LogFailsafe, LogEvent, disk
  <2>2. /\ rows \subseteq rows'
        /\ \/ ArmedEvent /\ (Recording => <<1, "flight.armed">> \in rows')
           \/ DisarmedEvent /\ (Recording => <<1, "flight.disarmed">> \in rows')
           \/ LogFailsafe
    BY <1>5, Logged DEF ArmedEvent, DisarmedEvent, LogFailsafe, LogEvent, Recording
  <2>3. CASE ArmedEvent /\ (Recording => <<1, "flight.armed">> \in rows')
    <3>1. step = "detected" /\ step' = "idle" /\ armedDet
      BY <2>3 DEF ArmedEvent, EdgeInv
    <3>2. RowInv'
      BY <2>1, <2>2, <2>3, <3>1 DEF RowInv, Recording, Has
    <3>3. SaveInv' /\ SavedFlightsBracketed'
      BY <2>1, <2>2, <3>1 DEF SaveInv, SavedFlightsBracketed, Has
    <3>4. QED
      BY <3>2, <3>3
  <2>4. CASE DisarmedEvent /\ (Recording => <<1, "flight.disarmed">> \in rows')
    <3>1. step = "undetected" /\ step' = "capture"
      BY <2>4 DEF DisarmedEvent
    <3>2. RowInv'
      BY <2>1, <2>2, <2>4, <3>1 DEF RowInv, Recording, Has
    <3>3. SaveInv' /\ SavedFlightsBracketed'
      BY <2>1, <2>2, <3>1 DEF SaveInv, SavedFlightsBracketed, Has
    <3>4. QED
      BY <3>2, <3>3
  <2>5. CASE LogFailsafe
    <3>1. step' = step
      BY <2>5 DEF LogFailsafe
    <3>2. RowInv'
      BY <2>1, <2>2, <3>1 DEF RowInv, Recording, Has
    <3>3. SaveInv' /\ SavedFlightsBracketed'
      BY <2>1, <2>2, <3>1 DEF SaveInv, SavedFlightsBracketed, Has
    <3>4. QED
      BY <3>2, <3>3
  <2>6. QED
    BY <2>2, <2>3, <2>4, <2>5
<1>6. CASE Capture
  <2>1. /\ step = "capture" /\ step' = "close"
        /\ UNCHANGED <<db, rows, session, saving, files, armedDet>>
        /\ narrated' = {k \in Kinds : <<session, k>> \in rows}
    BY <1>6 DEF Capture, recVars, memory, disk
  <2>2. Recording => {"armed", "flight.armed", "flight.disarmed"} \subseteq narrated'
    BY <2>1 DEF RowInv, Recording, Has, Kinds
  <2>3. RowInv'
    BY <2>1, <2>2 DEF RowInv, Recording, Has
  <2>4. SaveInv' /\ SavedFlightsBracketed'
    BY <2>1 DEF SaveInv, SavedFlightsBracketed, Has
  <2>5. QED
    BY <2>3, <2>4
<1>7. CASE BeginOnDisarm
  <2>1. step = "close" /\ UNCHANGED <<armedDet, narrated>>
    BY <1>7 DEF BeginOnDisarm
  <2>2. CASE NothingToSave /\ step' = "idle"
    <3>1. session = 0 /\ saving.at = "out" /\ UNCHANGED <<db, rows, session, saving, files>>
      BY <2>2 DEF NothingToSave, recVars, memory, disk
    <3>2. RowInv'
      BY <3>1 DEF RowInv, Recording
    <3>3. SaveInv' /\ SavedFlightsBracketed'
      BY <2>1, <2>2, <3>1 DEF SaveInv, SavedFlightsBracketed, Has
    <3>4. QED
      BY <3>2, <3>3
  <2>3. CASE CloseSession /\ step' = "saving"
    <3>1. session # 0 /\ db /\ Insert("disarmed") /\ UNCHANGED <<db, session, files>>
          /\ saving' = [Out EXCEPT !.at = "save", !.dst = started]
      BY <2>3 DEF CloseSession, disk
    <3>2. session = 1 /\ rows \subseteq rows' /\ <<1, "disarmed">> \in rows'
      BY <3>1, Logged DEF RecorderTypeOK
    <3>3. saving'.at = "save"
      BY <3>1 DEF Out
    <3>4. RowInv'
      BY <2>1, <2>3, <3>1, <3>2 DEF RowInv, Recording, Has
    <3>5. SaveInv' /\ SavedFlightsBracketed'
      BY <2>3, <3>1, <3>2, <3>3 DEF SaveInv, SavedFlightsBracketed, Has
    <3>6. QED
      BY <3>4, <3>5
  <2>4. QED
    BY <1>7, <2>2, <2>3 DEF BeginOnDisarm
<1>8. CASE SaveSteps
  <2>1. step = "saving" /\ UNCHANGED <<step, armedDet, narrated>>
    BY <1>8 DEF SaveSteps, logVars
  <2>2. CASE Saved
    <3>1. /\ saving.at = "save" /\ saving'.at = "flag" /\ UNCHANGED <<db, rows, session>>
          /\ files' = [n \in DOMAIN files \cup {saving.dst} |->
                          IF n = saving.dst THEN rows ELSE files[n]]
      BY <2>2 DEF Saved, RecorderTypeOK
    <3>2. RowInv'
      BY <2>1, <3>1 DEF RowInv, Recording, Has
    <3>3. SaveInv'
      BY <2>1, <3>1 DEF SaveInv, Has
    <3>4. {<<1, "armed">>, <<1, "flight.armed">>, <<1, "flight.disarmed">>,
           <<1, "disarmed">>} \subseteq rows
      BY <2>1, <3>1 DEF SessionInv, RowInv, SaveInv, Recording, Has
    <3>5. SavedFlightsBracketed'
      BY <3>1, <3>4 DEF SavedFlightsBracketed
    <3>6. QED
      BY <3>2, <3>3, <3>5
  <2>3. CASE SaveFails \/ TakeFlag \/ WriteSidecar \/ ListVictims \/ RemoveVictims
    <3>1. saving.at # "out" /\ saving'.at \notin {"out", "save"}
      BY <2>3 DEF SaveFails, TakeFlag, WriteSidecar, ListVictims, RemoveVictims,
                  RecorderTypeOK
    <3>2. UNCHANGED <<db, rows, session>>
      BY <2>3 DEF SaveFails, TakeFlag, WriteSidecar, ListVictims, RemoveVictims
    <3>3. DOMAIN files' \subseteq DOMAIN files /\ \A n \in DOMAIN files' : files'[n] = files[n]
      BY <2>3 DEF SaveFails, TakeFlag, WriteSidecar, ListVictims, RemoveVictims, disk
    <3>4. RowInv'
      BY <2>1, <3>2 DEF RowInv, Recording, Has
    <3>5. SaveInv'
      BY <2>1, <3>1, <3>2 DEF SaveInv, Has
    <3>6. SavedFlightsBracketed'
      BY <3>3 DEF SavedFlightsBracketed
    <3>7. QED
      BY <3>4, <3>5, <3>6
  <2>4. QED
    BY <1>8, <2>2, <2>3 DEF SaveSteps
<1>9. CASE EndOnDisarm
  <2>1. step' = "idle" /\ saving' = Out /\ files' = files
    BY <1>9 DEF EndOnDisarm, Rotated, RotateFails, disk
  <2>2. (session' = 0 /\ db' = db) \/ (~db' /\ session' = session)
    <3>1. CASE Rotated
      BY <3>1, Zenon DEF Rotated
    <3>2. CASE RotateFails
      BY <3>2, Zenon DEF RotateFails
    <3>3. QED
      BY <1>9, <3>1, <3>2 DEF EndOnDisarm
  <2>3. saving.at = "rotate"
    BY <1>9 DEF EndOnDisarm, Rotated, RotateFails
  <2>4. session = 1 /\ db
    BY <2>3 DEF SessionInv
  <2>5. RowInv'
    BY <2>1, <2>2 DEF RowInv, Recording
  <2>6. SaveInv' /\ SavedFlightsBracketed'
    BY <2>1, <2>2, <2>4 DEF SaveInv, SavedFlightsBracketed, Has, Out
  <2>7. QED
    BY <2>5, <2>6
<1>10. CASE Restart \/ Panic
  <2>1. step' = "idle" /\ saving' = Out /\ files' = files /\ session' = 0 /\ db' = TRUE
    BY <1>10 DEF Restart, Panic, Reboot, RestartRecorder, disk
  <2>2. RowInv'
    BY <2>1 DEF RowInv, Recording
  <2>3. SaveInv' /\ SavedFlightsBracketed'
    BY <2>1 DEF SaveInv, SavedFlightsBracketed, Has, Out
  <2>4. QED
    BY <2>2, <2>3
<1>11. QED
  BY IdleSteps, <1>1, <1>2, <1>3, <1>4, <1>5, <1>6, <1>7, <1>8, <1>9, <1>10 DEF Next

\* The invariant says what was to be shown.
LEMMA FlightInvSuffices ==
    RecorderTypeOK /\ LogShapes /\ TurnInv /\ EdgeInv /\ RowInv /\ SaveInv
    /\ SavedFlightsBracketed => FlightsAreWhole
<1> SUFFICES ASSUME RecorderTypeOK, LogShapes, TurnInv, EdgeInv, RowInv, SaveInv,
                    SavedFlightsBracketed
             PROVE  FlightsAreWhole
  OBVIOUS
<1>1. FlightLogTypeOK
  BY DEF FlightLogTypeOK, LogShapes, Turns, Budgets
<1>2. NarrationHasFlight
  BY DEF NarrationHasFlight, RowInv, Recording
<1>3. SettledAgrees
  <2> SUFFICES ASSUME step = "idle", events = <<>>
               PROVE  /\ session = 1 /\ db => arm = "armed"
                      /\ armedDet <=> arm = "armed"
    BY DEF SettledAgrees
  <2>1. arm = Handled
    BY DEF TurnInv, Alternate
  <2>2. armedDet <=> arm = "armed"
    BY <2>1 DEF Handled
  <2>3. session = 1 /\ db => armedDet
    BY DEF RowInv, Recording
  <2>4. QED
    BY <2>2, <2>3
<1>4. QED
  BY <1>1, <1>2, <1>3 DEF FlightsAreWhole

\* The log has every flight whole: what is saved tells both ends of a flight, what
\* the narrator holds does too, and once the drain has caught up session, detector
\* and machine agree.
THEOREM WholeFlights == Spec => []FlightsAreWhole
<1>1. Init => LogShapes /\ TurnInv /\ EdgeInv /\ RowInv /\ SaveInv /\ SavedFlightsBracketed
  <2> SUFFICES ASSUME RecInit, LogInit
               PROVE  LogShapes /\ TurnInv /\ EdgeInv /\ RowInv /\ SaveInv
                      /\ SavedFlightsBracketed
    BY DEF Init
  <2>1. LogShapes
    <3>1. armedDet \in BOOLEAN /\ recovery \in BOOLEAN
      BY Zenon DEF LogInit
    <3>2. events = <<>> /\ arm = "disarmed"
          /\ budget = [flights |-> MaxSessions, oddities |-> MaxOddities]
      BY Zenon DEF LogInit
    <3>3. budget \in Budgets /\ events \in Seq(Turns) /\ arm \in Turns
      BY <3>2, QueueTypes, KeepAssumption, OdditiesAssumption DEF Budgets
    <3>4. /\ step = "idle" /\ narrated = {} /\ lastMode = "" /\ mode = "ANGL"
          /\ tick = "idle" /\ asking = {}
      BY Zenon DEF LogInit
    <3>5. QED
      BY <3>1, <3>3, <3>4 DEF LogShapes, Modes
  <2>2. step = "idle" /\ ~armedDet /\ arm = "disarmed" /\ events = <<>>
    BY Zenon DEF LogInit
  <2>3. TurnInv /\ EdgeInv
    BY <2>2 DEF TurnInv, EdgeInv, Alternate, Handled
  <2>4. db /\ session = 0 /\ saving = Out /\ files = [n \in {} |-> {}]
    BY Zenon DEF RecInit, FreshMemory
  <2>5. RowInv /\ SaveInv /\ SavedFlightsBracketed
    BY <2>2, <2>4 DEF RowInv, Recording, SaveInv, SavedFlightsBracketed, Out
  <2>6. QED
    BY <2>1, <2>3, <2>5
<1>2. RecSpec => [](RecorderTypeOK /\ SessionInv)
  BY Typed
<1>3. QED
  BY <1>1, <1>2, DaemonRunsRecorder, ShapeStep, TurnStep, RowStep, FlightInvSuffices, PTL
  DEF Spec
================================================================================
