--------------------------- MODULE DisplayLinkProofs ---------------------------
(***************************************************************************)
(* Why a settled panel shows the wanted mode, for every number of callers, *)
(* modes, faults and every queue size.  The invariant follows a mode from  *)
(* the cache to the panel: a call that runs alone carries the cached mode, *)
(* the driver's mode is that of the last call, the last MODE line in the   *)
(* queue is the driver's mode, and with no MODE line left the screen is.   *)
(***************************************************************************)
EXTENDS DisplayLink, SequenceTheorems, TLAPS

USE DisplayAssumption

\* The typing that the argument needs.
CallType ==
    call \in [Actors -> [at : {"idle", "driver", "queue"}, mode : Modes \cup {Unset}]]
LinkType ==
    /\ CallType
    /\ queue \in Seq(Lines)
    /\ want \in Modes \cup {Unset} /\ drvMode \in Modes
    /\ conn \in {"closed", "attach", "running"}
    /\ missed \subseteq {"race", "full", "silent"}

NobodyActive == \A a \in Actors : ~Active(a)
Alone(a)     == Active(a) /\ \A b \in Actors \ {a} : ~Active(b)

\* Calls: without a driver there are none; one that nobody overlapped is the
\* only one and carries the cached mode; an overlap has been noted.
CallsInv ==
    /\ conn = "closed" => NobodyActive
    /\ \A a \in Actors : Active(a) /\ a \notin crowded =>
          /\ Alone(a)
          /\ call[a].mode = want
          /\ call[a].at = "queue" => drvMode = call[a].mode
    /\ \A a \in Actors : Active(a) => call[a].mode \in Modes
    /\ \A a \in crowded : a \in Actors /\ Active(a) /\ "race" \in missed

\* The last MODE line in the queue is for m.
LastIs(m) ==
    \E i \in 1..Len(queue) :
        /\ queue[i] = <<"mode", m>>
        /\ \A j \in (i + 1)..Len(queue) : queue[j][1] # "mode"
NoMode == \A i \in 1..Len(queue) : queue[i][1] # "mode"

Unspoilt == "race" \notin missed /\ "full" \notin missed
Handing  == \E a \in Actors : call[a].at = "queue"

\* What the driver has told the panel.
Told == LastIs(drvMode) \/ (NoMode /\ (hidden = {} => screen = drvMode))

ToldInv ==
    Attached /\ Unspoilt =>
        /\ NobodyActive => drvMode = want \/ want = Unset
        /\ ~Handing => IF "silent" \in missed THEN drvMode = "IDLE" ELSE Told

PathInv == LinkType /\ CallsInv /\ ToldInv

-----------------------------------------------------------------------------

LEMMA InitPath == DisplayInit => PathInv
  BY DEF DisplayInit, PathInv, LinkType, CallType, CallsInv, ToldInv, NobodyActive,
         Active, Idle, Attached

LEMMA PathImplies == PathInv => PanelFollowsMode
<1> SUFFICES ASSUME PathInv, Settled, want # Unset, ~Excused PROVE screen = want
  BY DEF PanelFollowsMode
<1> USE DEF PathInv
<1>1. Attached /\ NobodyActive /\ NoMode /\ ~Handing
  BY DEF Settled, Attached, NobodyActive, NoMode, Waiting, Active, Handing
<1>2. hidden = {} /\ Unspoilt /\ ("silent" \in missed => want # "IDLE")
  BY DEF Excused, Unspoilt
<1>3. drvMode = want
  BY <1>1, <1>2 DEF ToldInv
<1>4. "silent" \notin missed
  BY <1>1, <1>2, <1>3 DEF ToldInv
<1>5. Told
  BY <1>1, <1>2, <1>4 DEF ToldInv
<1>6. ~LastIs(drvMode)
  BY <1>1 DEF LastIs, NoMode
<1>7. QED BY <1>2, <1>3, <1>5, <1>6 DEF Told

-----------------------------------------------------------------------------
(* The queue. *)

LEMMA LineKinds ==
    /\ \A m \in Modes : <<"mode", m>>[1] = "mode" /\ <<"mode", m>>[2] = m
    /\ \A t \in Texts : <<"alarm", t>>[1] # "mode"
    /\ <<"clear">>[1] # "mode" /\ <<"state">>[1] # "mode"
  OBVIOUS

Others == {<<"alarm", t>> : t \in Texts} \cup {<<"clear">>, <<"state">>}

LEMMA AppendMode ==
    ASSUME queue \in Seq(Lines), NEW m \in Modes, queue' = Append(queue, <<"mode", m>>)
    PROVE  queue' \in Seq(Lines) /\ LastIs(m)'
<1>1. <<"mode", m>> \in Lines
  BY DEF Lines
<1>2. /\ queue' \in Seq(Lines)
      /\ Len(queue') = Len(queue) + 1
      /\ queue'[Len(queue) + 1] = <<"mode", m>>
  BY <1>1
<1>3. LastIs(m)'
  BY <1>2 DEF LastIs
<1>4. QED BY <1>2, <1>3

LEMMA AppendOther ==
    ASSUME queue \in Seq(Lines), NEW l \in Others, queue' = Append(queue, l)
    PROVE  /\ queue' \in Seq(Lines)
           /\ \A m \in Modes : LastIs(m) => LastIs(m)'
           /\ NoMode => NoMode'
<1>1. l \in Lines /\ l[1] # "mode"
  BY LineKinds DEF Lines, Others
<1>2. /\ queue' \in Seq(Lines)
      /\ Len(queue') = Len(queue) + 1
      /\ \A i \in 1..Len(queue) : queue'[i] = queue[i]
      /\ queue'[Len(queue) + 1] = l
  BY <1>1
<1>3. ASSUME NEW m \in Modes, LastIs(m) PROVE LastIs(m)'
  <2>1. PICK i \in 1..Len(queue) :
           /\ queue[i] = <<"mode", m>>
           /\ \A j \in (i + 1)..Len(queue) : queue[j][1] # "mode"
    BY <1>3 DEF LastIs
  <2>2. i \in 1..Len(queue') /\ queue'[i] = <<"mode", m>>
    BY <1>2, <2>1
  <2>3. \A j \in (i + 1)..Len(queue') : queue'[j][1] # "mode"
    BY <1>1, <1>2, <2>1
  <2>4. QED BY <2>2, <2>3 DEF LastIs
<1>4. NoMode => NoMode'
  BY <1>1, <1>2 DEF NoMode
<1>5. QED BY <1>2, <1>3, <1>4

LEMMA TailIndex ==
    ASSUME queue \in Seq(Lines), queue # <<>>, queue' = Tail(queue)
    PROVE  /\ queue' \in Seq(Lines)
           /\ Len(queue) \in Nat \ {0} /\ Len(queue') = Len(queue) - 1
           /\ \A i \in 1..Len(queue') : queue'[i] = queue[i + 1]
           /\ Head(queue) = queue[1]
  BY HeadTailProperties

LEMMA TailOther ==
    ASSUME queue \in Seq(Lines), queue # <<>>, queue' = Tail(queue),
           NEW l \in Others, Head(queue) = l
    PROVE  /\ \A m \in Modes : LastIs(m) => LastIs(m)'
           /\ NoMode => NoMode'
<1>1. queue[1][1] # "mode"
  BY TailIndex, LineKinds DEF Others
<1>2. ASSUME NEW m \in Modes, LastIs(m) PROVE LastIs(m)'
  <2>1. PICK i \in 1..Len(queue) :
           /\ queue[i] = <<"mode", m>>
           /\ \A j \in (i + 1)..Len(queue) : queue[j][1] # "mode"
    BY <1>2 DEF LastIs
  <2>2. i # 1
    BY <1>1, <2>1, LineKinds
  <2>3. i - 1 \in 1..Len(queue') /\ queue'[i - 1] = <<"mode", m>>
    BY <2>1, <2>2, TailIndex
  <2>4. \A j \in ((i - 1) + 1)..Len(queue') : queue'[j][1] # "mode"
    BY <2>1, <2>2, TailIndex
  <2>5. QED BY <2>3, <2>4 DEF LastIs
<1>3. NoMode => NoMode'
  BY TailIndex DEF NoMode
<1>4. QED BY <1>2, <1>3

LEMMA TailMode ==
    ASSUME queue \in Seq(Lines), queue # <<>>, queue' = Tail(queue),
           NEW k \in Modes, Head(queue) = <<"mode", k>>,
           NEW m \in Modes, LastIs(m)
    PROVE  LastIs(m)' \/ (NoMode' /\ k = m)
<1>1. PICK i \in 1..Len(queue) :
         /\ queue[i] = <<"mode", m>>
         /\ \A j \in (i + 1)..Len(queue) : queue[j][1] # "mode"
  BY DEF LastIs
<1>2. CASE i = 1
  <2>1. k = m
    BY <1>1, <1>2, TailIndex, LineKinds
  <2>2. NoMode'
    BY <1>1, <1>2, TailIndex DEF NoMode
  <2>3. QED BY <2>1, <2>2
<1>3. CASE i # 1
  <2>1. i - 1 \in 1..Len(queue') /\ queue'[i - 1] = <<"mode", m>>
    BY <1>1, <1>3, TailIndex
  <2>2. \A j \in ((i - 1) + 1)..Len(queue') : queue'[j][1] # "mode"
    BY <1>1, <1>3, TailIndex
  <2>3. QED BY <2>1, <2>2 DEF LastIs
<1>4. QED BY <1>2, <1>3

LEMMA ModeAtHead ==
    ASSUME queue \in Seq(Lines), queue # <<>>, NEW k \in Modes,
           Head(queue) = <<"mode", k>>
    PROVE  ~NoMode
<1>1. queue[1] = <<"mode", k>> /\ 1 \in 1..Len(queue)
  BY HeadTailProperties
<1>2. QED BY <1>1, LineKinds DEF NoMode

-----------------------------------------------------------------------------
(* The steps. *)

\* A line that is neither a mode nor a drop leaves what was told as it was.
LEMMA QuietQueue ==
    ASSUME PathInv, UNCHANGED <<manager, call, drvMode, crowded, missed>>,
           queue' \in Seq(Lines),
           \A m \in Modes : LastIs(m) => LastIs(m)',
           NoMode => NoMode',
           hidden' = {} => hidden = {} /\ screen' = screen
    PROVE  PathInv'
<1> USE DEF PathInv
<1>1. LinkType'
  BY DEF LinkType, CallType, manager
<1>2. CallsInv'
  BY DEF CallsInv, NobodyActive, Alone, Active, manager
<1>3. NobodyActive' = NobodyActive /\ Handing' = Handing /\ Attached' = Attached
      /\ Unspoilt' = Unspoilt
  BY DEF NobodyActive, Active, Handing, Attached, Unspoilt, manager
<1>4. Told => Told'
  BY DEF Told, LinkType
<1>5. ToldInv'
  BY <1>3, <1>4 DEF ToldInv, manager
<1>6. QED BY <1>1, <1>2, <1>5

\* The calls at work after actor a has begun one.
LEMMA BeginCalls ==
    ASSUME PathInv, NEW a \in Actors, NEW m \in Modes,
           ~Active(a), Begin(a, m), want' = m, conn' # "closed"
    PROVE  /\ CallType' /\ CallsInv' /\ ~NobodyActive'
           /\ missed' \subseteq {"race", "full", "silent"} /\ missed \subseteq missed'
           /\ Unspoilt' => NobodyActive /\ Unspoilt
           /\ "silent" \in missed' <=> ("silent" \in missed \/ a = Runner)
           /\ NobodyActive => ~Handing'
<1> USE DEF PathInv
<1> DEFINE others == {b \in Actors \ {a} : Active(b)}
<1>1. others = {} <=> NobodyActive
  BY DEF NobodyActive
<1>2. /\ call' = [call EXCEPT ![a] = [at |-> "driver", mode |-> m]]
      /\ crowded' = IF others = {} THEN crowded ELSE crowded \cup others \cup {a}
      /\ missed' = missed \cup (IF others = {} THEN {} ELSE {"race"})
                          \cup (IF a = Runner THEN {"silent"} ELSE {})
  BY DEF Begin
<1> HIDE DEF others
<1>3. CallType' /\ call'[a].at = "driver" /\ call'[a].mode = m
  BY <1>2 DEF LinkType, CallType
<1>4. \A b \in Actors \ {a} : call'[b] = call[b]
  BY <1>2 DEF LinkType, CallType
<1>5. Active(a)' /\ \A b \in Actors \ {a} : Active(b)' <=> Active(b)
  BY <1>3, <1>4 DEF Active
<1>6. ~NobodyActive' /\ (NobodyActive => Alone(a)')
  BY <1>5 DEF NobodyActive, Alone
<1>7. NobodyActive => ~Handing'
  BY <1>3, <1>5 DEF NobodyActive, Handing, Active
<1>8. CallsInv'
  <2>1. CASE NobodyActive
    <3>1. crowded' = crowded /\ crowded = {}
      BY <1>1, <1>2, <2>1 DEF CallsInv, NobodyActive
    <3>2. \A b \in Actors : Active(b)' => b = a
      BY <1>5, <2>1 DEF NobodyActive
    <3>3. QED BY <1>3, <1>6, <2>1, <3>1, <3>2 DEF CallsInv
  <2>2. CASE ~NobodyActive
    <3>1. "race" \in missed' /\ crowded' = crowded \cup others \cup {a}
      BY <1>1, <1>2, <2>2
    <3>2. \A b \in Actors : Active(b)' => b \in crowded'
      BY <1>5, <3>1 DEF others
    <3>3. \A b \in crowded' : b \in Actors /\ Active(b)'
      BY <1>5, <3>1 DEF others, CallsInv
    <3>4. \A b \in Actors : Active(b)' => call'[b].mode \in Modes
      BY <1>3, <1>4, <1>5 DEF CallsInv
    <3>5. QED BY <1>6, <3>1, <3>2, <3>3, <3>4 DEF CallsInv
  <2>3. QED BY <2>1, <2>2
<1>9. missed' \subseteq {"race", "full", "silent"} /\ missed \subseteq missed'
  BY <1>2 DEF LinkType
<1>10. Unspoilt' => NobodyActive /\ Unspoilt
  BY <1>1, <1>2 DEF Unspoilt
<1>11. "silent" \in missed' <=> ("silent" \in missed \/ a = Runner)
  BY <1>2
<1>12. QED BY <1>3, <1>6, <1>7, <1>8, <1>9, <1>10, <1>11

\* Ending a call leaves the others.
LEMMA EndCalls ==
    ASSUME PathInv, NEW a \in Actors, End(a)
    PROVE  /\ CallType' /\ ~Active(a)' /\ call'[a].at # "queue"
           /\ \A b \in Actors \ {a} : call'[b] = call[b] /\ (Active(b)' <=> Active(b))
           /\ crowded' = crowded \ {a}
<1>1. call' = [call EXCEPT ![a] = Idle] /\ crowded' = crowded \ {a}
  BY DEF End
<1>2. CallType'
  BY <1>1 DEF PathInv, LinkType, CallType, Idle
<1>3. call'[a] = Idle
  BY <1>1 DEF PathInv, LinkType, CallType
<1>4. \A b \in Actors \ {a} : call'[b] = call[b]
  BY <1>1 DEF PathInv, LinkType, CallType
<1>5. QED BY <1>1, <1>2, <1>3, <1>4 DEF Active, Idle

\* Manager.SetMode, with and without a driver.
LEMMA SetModeStep ==
    ASSUME PathInv, NEW a \in Callers, NEW m \in Modes, SetMode(a, m)
    PROVE  PathInv'
<1> USE DEF PathInv
<1>1. /\ ~Active(a) /\ want' = m /\ a \in Actors /\ a # Runner
      /\ conn' = conn /\ queue' = queue /\ drvMode' = drvMode
      /\ screen' = screen /\ hidden' = hidden
  BY DEF SetMode, driver, panel, Actors
<1>2. CASE Attached /\ Begin(a, m)
  <2>1. /\ CallType' /\ CallsInv' /\ ~NobodyActive'
        /\ missed' \subseteq {"race", "full", "silent"}
        /\ Unspoilt' => NobodyActive /\ Unspoilt
        /\ "silent" \in missed' <=> "silent" \in missed
    BY <1>1, <1>2, BeginCalls DEF Attached
  <2>2. LinkType'
    BY <1>1, <2>1 DEF LinkType
  <2>3. Unspoilt' => ~Handing
    BY <2>1 DEF NobodyActive, Handing, Active
  <2>4. Told => Told'
    BY <1>1 DEF Told, LastIs, NoMode
  <2>5. ToldInv'
    BY <1>1, <1>2, <2>1, <2>3, <2>4 DEF ToldInv
  <2>6. QED BY <2>1, <2>2, <2>5
<1>3. CASE ~Attached /\ UNCHANGED <<call, crowded, missed>>
  <2>1. NobodyActive /\ NobodyActive' /\ ~Attached'
    BY <1>1, <1>3 DEF CallsInv, Attached, NobodyActive, Active
  <2>2. LinkType'
    BY <1>1, <1>3 DEF LinkType, CallType
  <2>3. CallsInv'
    BY <1>1, <1>3, <2>1 DEF CallsInv, NobodyActive, Active
  <2>4. QED BY <2>1, <2>2, <2>3 DEF ToldInv
<1>4. QED BY <1>2, <1>3 DEF SetMode

\* Driver.SetMode: the mode of the moment, or a new one on its way.
LEMMA DriverSetModeStep ==
    ASSUME PathInv, NEW a \in Actors, DriverSetMode(a)
    PROVE  PathInv'
<1> USE DEF PathInv
<1>1. /\ call[a].at = "driver" /\ Active(a) /\ call[a].mode \in Modes
      /\ want' = want /\ conn' = conn /\ queue' = queue /\ missed' = missed
      /\ screen' = screen /\ hidden' = hidden
  BY DEF DriverSetMode, manager, panel, Active, CallsInv
<1>2. Unspoilt => Alone(a) /\ call[a].mode = want /\ a \notin crowded
  BY <1>1 DEF Unspoilt, CallsInv
<1>3. ~NobodyActive /\ Attached
  BY <1>1 DEF NobodyActive, CallsInv, Attached
<1>4. CASE drvMode = call[a].mode /\ End(a) /\ UNCHANGED drvMode
  <2>1. /\ CallType' /\ ~Active(a)' /\ call'[a].at # "queue"
        /\ \A b \in Actors \ {a} : call'[b] = call[b] /\ (Active(b)' <=> Active(b))
        /\ crowded' = crowded \ {a}
    BY <1>4, EndCalls
  <2>2. LinkType'
    BY <1>1, <1>4, <2>1 DEF LinkType
  <2>3. \A b \in Actors : Active(b)' => b # a /\ Active(b)
    BY <2>1
  <2>4. \A b \in Actors : Active(b)' => b \in crowded'
    BY <1>1, <2>1, <2>3 DEF CallsInv, Alone
  <2>5. \A b \in crowded' : b \in Actors /\ Active(b)' /\ "race" \in missed'
    BY <1>1, <2>1 DEF CallsInv
  <2>6. \A b \in Actors : Active(b)' => call'[b].mode \in Modes
    BY <2>1, <2>3 DEF CallsInv
  <2>7. CallsInv'
    BY <1>1, <1>3, <2>4, <2>5, <2>6 DEF CallsInv, Attached
  <2>8. Told => Told'
    BY <1>1, <1>4 DEF Told, LastIs, NoMode
  <2>9. Unspoilt => ~Handing
    BY <1>1, <1>2 DEF Alone, Handing, Active
  <2>10. ToldInv'
    BY <1>1, <1>2, <1>3, <1>4, <2>8, <2>9 DEF ToldInv, Unspoilt
  <2>11. QED BY <2>2, <2>7, <2>10
<1>5. CASE /\ drvMode # call[a].mode /\ drvMode' = call[a].mode
           /\ call' = [call EXCEPT ![a].at = "queue"] /\ UNCHANGED crowded
  <2>1. /\ CallType' /\ call'[a].at = "queue" /\ call'[a].mode = call[a].mode
        /\ \A b \in Actors \ {a} : call'[b] = call[b]
    BY <1>5 DEF LinkType, CallType
  <2>2. \A b \in Actors : Active(b)' <=> Active(b)
    BY <1>1, <2>1 DEF Active
  <2>3. LinkType'
    BY <1>1, <1>5, <2>1 DEF LinkType
  <2>4. \A b \in Actors : Active(b)' /\ b \notin crowded' => b = a
    BY <1>1, <1>5, <2>2 DEF CallsInv, Alone
  <2>5. a \notin crowded => Alone(a)' /\ call'[a].mode = want' /\ drvMode' = call'[a].mode
    BY <1>1, <1>5, <2>1, <2>2 DEF CallsInv, Alone
  <2>6. \A b \in Actors : Active(b)' => call'[b].mode \in Modes
    BY <1>1, <2>1, <2>2 DEF CallsInv
  <2>7. CallsInv'
    BY <1>1, <1>3, <1>5, <2>2, <2>4, <2>5, <2>6 DEF CallsInv, Attached
  <2>8. Handing' /\ ~NobodyActive'
    BY <1>1, <2>1, <2>2 DEF Handing, NobodyActive
  <2>9. QED BY <2>3, <2>7, <2>8 DEF ToldInv
<1>6. QED BY <1>4, <1>5 DEF DriverSetMode

\* enqueue: the line that ends the call, or a drop that is noted.
LEMMA EnqueueModeStep ==
    ASSUME PathInv, NEW a \in Actors, EnqueueMode(a)
    PROVE  PathInv'
<1> USE DEF PathInv
<1>1. /\ call[a].at = "queue" /\ Active(a) /\ call[a].mode \in Modes
      /\ want' = want /\ conn' = conn /\ drvMode' = drvMode /\ End(a)
      /\ screen' = screen /\ hidden' = hidden
  BY DEF EnqueueMode, manager, panel, Active, CallsInv
<1>2. Attached /\ Attached'
  BY <1>1 DEF NobodyActive, CallsInv, Attached
<1>3. /\ CallType' /\ ~Active(a)' /\ call'[a].at # "queue"
      /\ \A b \in Actors \ {a} : call'[b] = call[b] /\ (Active(b)' <=> Active(b))
      /\ crowded' = crowded \ {a}
  BY <1>1, EndCalls
<1>4. \A b \in Actors : Active(b)' => b # a /\ Active(b) /\ call'[b].mode \in Modes
  BY <1>3 DEF CallsInv
<1>5. \A b \in Actors : Active(b)' => b \in crowded'
  BY <1>1, <1>3, <1>4 DEF CallsInv, Alone
<1>6. \A b \in crowded' : b \in Actors /\ Active(b)' /\ "race" \in missed
  BY <1>3 DEF CallsInv
<1>7. CASE a \notin crowded /\ Room
  <2>1. missed' = {} /\ queue' = Append(queue, <<"mode", call[a].mode>>)
    BY <1>7 DEF EnqueueMode
  <2>2. Alone(a) /\ call[a].mode = want /\ drvMode = want
    BY <1>1, <1>7 DEF CallsInv
  <2>3. NobodyActive' /\ crowded' = {}
    BY <1>3, <1>4, <1>6, <2>2 DEF NobodyActive, Alone
  <2>4. queue' \in Seq(Lines) /\ LastIs(drvMode)'
    BY <1>1, <2>1, <2>2, AppendMode DEF LinkType, LastIs
  <2>5. LinkType'
    BY <1>1, <1>3, <2>1, <2>4 DEF LinkType
  <2>6. CallsInv'
    BY <1>2, <2>3 DEF CallsInv, NobodyActive, Attached
  <2>7. ToldInv'
    BY <1>1, <2>1, <2>2, <2>4 DEF ToldInv, Told
  <2>8. QED BY <2>5, <2>6, <2>7
<1>8. CASE a \in crowded \/ ~Room
  <2>1. missed \subseteq missed' /\ missed' \subseteq {"race", "full", "silent"} /\ ~Unspoilt'
    BY <1>8 DEF EnqueueMode, CallsInv, Unspoilt, LinkType
  <2>2. queue' \in Seq(Lines)
    BY <1>1, AppendMode DEF EnqueueMode, LinkType
  <2>3. LinkType'
    BY <1>1, <1>3, <2>1, <2>2 DEF LinkType
  <2>4. CallsInv'
    BY <1>2, <1>4, <1>5, <1>6, <2>1 DEF CallsInv, Attached
  <2>5. QED BY <2>1, <2>3, <2>4 DEF ToldInv
<1>9. QED BY <1>7, <1>8

\* A new driver that replays the cache.
LEMMA OpenStep == ASSUME PathInv, Open PROVE PathInv'
<1> USE DEF PathInv
<1>1. /\ conn = "closed" /\ conn' = "attach" /\ drvMode' = "IDLE" /\ queue' = <<>>
      /\ want' = want /\ screen' = screen /\ hidden' = hidden
      /\ Runner \in Actors /\ "IDLE" \in Modes
  BY DEF Open, panel, Actors
<1>2. NobodyActive /\ ~Active(Runner)
  BY <1>1 DEF CallsInv, NobodyActive
<1>3. CASE want # Unset /\ Begin(Runner, want)
  <2>1. want \in Modes
    BY <1>3 DEF LinkType
  <2>2. /\ CallType' /\ CallsInv' /\ ~NobodyActive'
        /\ missed' \subseteq {"race", "full", "silent"}
        /\ "silent" \in missed' /\ ~Handing'
    BY <1>1, <1>2, <1>3, <2>1, BeginCalls
  <2>3. LinkType'
    BY <1>1, <2>2 DEF LinkType
  <2>4. QED BY <1>1, <2>2, <2>3 DEF ToldInv
<1>4. CASE /\ want = Unset /\ UNCHANGED <<call, crowded>>
           /\ missed' = missed \cup {"silent"}
  <2>1. NobodyActive' /\ crowded = {}
    BY <1>2, <1>4 DEF NobodyActive, Active, CallsInv
  <2>2. LinkType'
    BY <1>1, <1>4 DEF LinkType, CallType
  <2>3. CallsInv'
    BY <1>1, <1>4, <2>1 DEF CallsInv, NobodyActive
  <2>4. QED BY <1>1, <1>4, <2>2, <2>3 DEF ToldInv
<1>5. QED BY <1>3, <1>4 DEF Open

LEMMA RunDriverStep == ASSUME PathInv, RunDriver PROVE PathInv'
<1> USE DEF PathInv
<1>1. /\ conn = "attach" /\ conn' = "running"
      /\ UNCHANGED <<want, call, drvMode, queue, screen, hidden, missed, crowded>>
  BY DEF RunDriver, driver, panel, history
<1>2. LinkType'
  BY <1>1 DEF LinkType, CallType
<1>3. CallsInv'
  BY <1>1 DEF CallsInv, Alone, Active
<1>4. ToldInv'
  BY <1>1 DEF ToldInv, Attached, Unspoilt, NobodyActive, Active, Handing, Told, LastIs, NoMode
<1>5. QED BY <1>2, <1>3, <1>4

LEMMA DetachStep == ASSUME PathInv, Detach PROVE PathInv'
<1> USE DEF PathInv
<1>1. /\ conn' = "closed" /\ call' = [a \in Actors |-> Idle] /\ crowded' = {}
      /\ queue' = <<>> /\ UNCHANGED <<want, drvMode, missed>>
  BY DEF Detach
<1>2. LinkType'
  BY <1>1 DEF LinkType, CallType, Idle
<1>3. NobodyActive' /\ ~Attached'
  BY <1>1 DEF NobodyActive, Active, Idle, Attached
<1>4. QED BY <1>1, <1>2, <1>3 DEF CallsInv, NobodyActive, ToldInv

-----------------------------------------------------------------------------

\* Snapshots and alarms in the queue are no modes.
LEMMA OtherPosted ==
    ASSUME PathInv, UNCHANGED <<manager, call, drvMode, crowded, missed, screen, hidden>>,
           NEW l \in Others, queue' = queue \/ queue' = Append(queue, l)
    PROVE  PathInv'
<1>1. /\ queue' \in Seq(Lines)
      /\ \A m \in Modes : LastIs(m) => LastIs(m)'
      /\ NoMode => NoMode'
  <2>1. CASE queue' = queue
    BY <2>1 DEF PathInv, LinkType, LastIs, NoMode
  <2>2. CASE queue' = Append(queue, l)
    BY <2>2, AppendOther DEF PathInv, LinkType
  <2>3. QED BY <2>1, <2>2
<1>2. QED BY <1>1, QuietQueue

LEMMA PostStep ==
    ASSUME PathInv,
           Snapshot \/ FireArmAlarm \/ ClearAlert \/ (\E r \in Rules : ShowAlert(r))
    PROVE  PathInv'
<1>1. UNCHANGED <<manager, call, drvMode, crowded, missed, screen, hidden>>
  BY DEF Snapshot, FireArmAlarm, ClearAlert, ShowAlert, panel, history
<1>2. \E l \in Others : queue' = queue \/ queue' = Append(queue, l)
  <2>1. /\ \A t \in Texts : <<"alarm", t>> \in Others
        /\ <<"clear">> \in Others /\ <<"state">> \in Others
    BY DEF Others
  <2>2. \A r \in Rules : r \in Texts
    BY DEF Texts
  <2>3. CASE Snapshot
    BY <2>1, <2>3, Zenon DEF Snapshot
  <2>4. CASE ClearAlert
    BY <2>1, <2>4, Zenon DEF ClearAlert, PostAlarm
  <2>5. CASE FireArmAlarm
    <3>1. <<"alarm", ArmText>> \in Others
      BY <2>1 DEF Texts
    <3>2. QED BY <2>5, <3>1, Zenon DEF FireArmAlarm, PostAlarm
  <2>6. CASE \E r \in Rules : ShowAlert(r)
    BY <2>1, <2>2, <2>6, Zenon DEF ShowAlert, PostAlarm
  <2>7. QED BY <2>3, <2>4, <2>5, <2>6
<1>3. QED BY <1>1, <1>2, OtherPosted

\* The panel takes a line that is no mode; an alarm is noted in hidden.
LEMMA OtherTaken ==
    ASSUME PathInv, HandleAlarm \/ HandleClear \/ HandleState
    PROVE  PathInv'
<1>1. /\ UNCHANGED <<manager, call, drvMode, crowded, missed>>
      /\ queue # <<>> /\ queue' = Tail(queue) /\ Head(queue) \in Others
  BY DEF HandleAlarm, HandleClear, HandleState, Send, Others, history
<1>2. hidden' = {} => hidden = {} /\ screen' = screen
  BY DEF HandleAlarm, HandleClear, HandleState, panel, history
<1>3. queue \in Seq(Lines)
  BY DEF PathInv, LinkType
<1>4. /\ queue' \in Seq(Lines)
      /\ \A m \in Modes : LastIs(m) => LastIs(m)'
      /\ NoMode => NoMode'
  BY <1>1, <1>3, TailIndex, TailOther
<1>5. QED BY <1>1, <1>2, <1>4, QuietQueue

\* The panel takes a mode: the last one is the driver's, or there is another.
LEMMA HandleModeStep == ASSUME PathInv, HandleMode PROVE PathInv'
<1> USE DEF PathInv
<1>1. PICK k \in Modes :
        /\ UNCHANGED <<want, conn, call, drvMode, crowded, missed>>
        /\ queue # <<>> /\ queue' = Tail(queue) /\ Head(queue) = <<"mode", k>>
        /\ screen' = k /\ hidden' = {}
  BY DEF HandleMode, Send, manager
<1>2. queue \in Seq(Lines) /\ queue' \in Seq(Lines)
  BY <1>1, TailIndex DEF LinkType
<1>3. LinkType'
  BY <1>1, <1>2 DEF LinkType, CallType
<1>4. CallsInv'
  BY <1>1 DEF CallsInv, NobodyActive, Alone, Active
<1>5. Told => Told'
  <2>1. ~NoMode
    BY <1>1, <1>2, ModeAtHead
  <2>2. LastIs(drvMode) => LastIs(drvMode)' \/ (NoMode' /\ k = drvMode)
    <3>1. ASSUME NEW m \in Modes, LastIs(m) PROVE LastIs(m)' \/ (NoMode' /\ k = m)
      BY <1>1, <1>2, <3>1, TailMode
    <3>2. drvMode \in Modes /\ drvMode' = drvMode
      BY <1>1 DEF LinkType
    <3>3. QED BY <3>1, <3>2 DEF LastIs
  <2>3. QED BY <1>1, <2>1, <2>2 DEF Told
<1>6. ToldInv'
  BY <1>1, <1>5 DEF ToldInv, Attached, Unspoilt, NobodyActive, Active, Handing
<1>7. QED BY <1>3, <1>4, <1>6

\* Faults of the panel, and steps that change nothing of the path.
LEMMA FaultStep ==
    ASSUME PathInv, Reset \/ Unplug \/ Plug \/ UNCHANGED vars
    PROVE  PathInv'
<1>1. /\ UNCHANGED <<manager, call, drvMode, crowded, missed, queue>>
      /\ hidden' = {} => hidden = {} /\ screen' = screen
  BY DEF Reset, Unplug, Plug, Setup, vars, driver, panel, history
<1>2. /\ queue' \in Seq(Lines)
      /\ \A m \in Modes : LastIs(m) => LastIs(m)'
      /\ NoMode => NoMode'
  BY <1>1 DEF PathInv, LinkType, LastIs, NoMode
<1>3. QED BY <1>1, <1>2, QuietQueue

LEMMA PathStep == PathInv /\ [DisplayNext]_vars => PathInv'
<1> SUFFICES ASSUME PathInv, [DisplayNext]_vars PROVE PathInv'
  OBVIOUS
<1>1. CASE \E a \in Callers, m \in Modes : SetMode(a, m)
  BY <1>1, SetModeStep
<1>2. CASE \E a \in Actors : DriverSetMode(a) \/ EnqueueMode(a)
  BY <1>2, DriverSetModeStep, EnqueueModeStep
<1>3. CASE Open
  BY <1>3, OpenStep
<1>4. CASE RunDriver \/ Detach
  BY <1>4, RunDriverStep, DetachStep
<1>5. CASE Snapshot \/ FireArmAlarm \/ ClearAlert \/ \E r \in Rules : ShowAlert(r)
  BY <1>5, PostStep
<1>6. CASE HandleMode
  BY <1>6, HandleModeStep
<1>7. CASE HandleAlarm \/ HandleClear \/ HandleState
  BY <1>7, OtherTaken
<1>8. CASE Reset \/ Unplug \/ Plug \/ UNCHANGED vars
  BY <1>8, FaultStep
<1>9. QED
  BY <1>1, <1>2, <1>3, <1>4, <1>5, <1>6, <1>7, <1>8 DEF DisplayNext

\* A settled panel shows the mode the daemon asked for last, for every number
\* of callers, modes, faults, alarms and every capacity of the queue.
THEOREM SettledPanel == DisplaySpec => []PanelFollowsMode
<1>1. DisplaySpec => []PathInv
  BY InitPath, PathStep, PTL DEF DisplaySpec
<1>2. QED BY <1>1, PathImplies, PTL

-----------------------------------------------------------------------------
(* Alerts.  The one the projection believes in is on the panel, or the last  *)
(* line about an alarm that is still on its way raises it.                   *)

RaiseFor(text) ==
    \E i \in 1..Len(queue) :
        /\ queue[i] = <<"alarm", text>>
        /\ \A j \in (i + 1)..Len(queue) : queue[j][1] # "clear"
NoClear   == \A i \in 1..Len(queue) : queue[i][1] # "clear"
PanelHas  == unseen = {} => OnPanel(ledShown)
AlertHeld == RaiseFor(ledShown) \/ (NoClear /\ PanelHas)
Believed  == ledShown # None /\ "lost" \notin unseen

AlertInv ==
    /\ Believed => AlertHeld
    /\ conn = "closed" => ~Believed

LEMMA AlertWords ==
    /\ \A m \in Modes : <<"mode", m>>[1] = "mode" /\ <<"mode", m>> \in Lines
    /\ \A t \in Texts : <<"alarm", t>>[1] = "alarm" /\ <<"alarm", t>> \in Lines
    /\ <<"clear">>[1] = "clear" /\ <<"clear">> \in Lines
    /\ <<"state">>[1] = "state" /\ <<"state">> \in Lines
  BY DEF Lines

LEMMA AppendIndex ==
    ASSUME queue \in Seq(Lines), NEW l \in Lines, queue' = Append(queue, l)
    PROVE  /\ Len(queue) \in Nat /\ Len(queue') = Len(queue) + 1
           /\ \A i \in 1..Len(queue) : queue'[i] = queue[i]
           /\ queue'[Len(queue) + 1] = l
  OBVIOUS

LEMMA RaisePosted ==
    ASSUME queue \in Seq(Lines), NEW t \in Texts, queue' = Append(queue, <<"alarm", t>>)
    PROVE  RaiseFor(t)'
<1>1. /\ Len(queue) + 1 \in 1..Len(queue') /\ queue'[Len(queue) + 1] = <<"alarm", t>>
      /\ \A j \in ((Len(queue) + 1) + 1)..Len(queue') : FALSE
  BY AppendIndex, AlertWords
<1>2. QED BY <1>1 DEF RaiseFor

\* Lines about other things leave the order of the alarm lines alone.
OrderKept == (\A t \in Texts : RaiseFor(t) => RaiseFor(t)') /\ (NoClear => NoClear')

LEMMA OtherAppended ==
    ASSUME queue \in Seq(Lines), NEW l \in Lines, l[1] # "clear",
           queue' = Append(queue, l)
    PROVE  OrderKept
<1>1. ASSUME NEW t \in Texts, RaiseFor(t) PROVE RaiseFor(t)'
  <2>1. PICK i \in 1..Len(queue) :
           /\ queue[i] = <<"alarm", t>>
           /\ \A j \in (i + 1)..Len(queue) : queue[j][1] # "clear"
    BY <1>1 DEF RaiseFor
  <2>2. i \in 1..Len(queue') /\ queue'[i] = <<"alarm", t>>
    BY <2>1, AppendIndex
  <2>3. \A j \in (i + 1)..Len(queue') : queue'[j][1] # "clear"
    BY <2>1, AppendIndex
  <2>4. QED BY <2>2, <2>3 DEF RaiseFor
<1>2. NoClear => NoClear'
  BY AppendIndex DEF NoClear
<1>3. QED BY <1>1, <1>2 DEF OrderKept

\* Taking the first line: a raise that was not the first one still waits.
LEMMA LineTaken ==
    ASSUME queue \in Seq(Lines), queue # << >>, queue' = Tail(queue)
    PROVE  /\ \A t \in Texts :
                 RaiseFor(t) => RaiseFor(t)' \/ (Head(queue) = <<"alarm", t>> /\ NoClear')
           /\ NoClear => NoClear' /\ Head(queue)[1] # "clear"
<1>1. ASSUME NEW t \in Texts, RaiseFor(t)
      PROVE  RaiseFor(t)' \/ (Head(queue) = <<"alarm", t>> /\ NoClear')
  <2>1. PICK i \in 1..Len(queue) :
           /\ queue[i] = <<"alarm", t>>
           /\ \A j \in (i + 1)..Len(queue) : queue[j][1] # "clear"
    BY <1>1 DEF RaiseFor
  <2>2. CASE i = 1
    <3>1. Head(queue) = <<"alarm", t>>
      BY <2>1, <2>2, TailIndex
    <3>2. NoClear'
      BY <2>1, <2>2, TailIndex DEF NoClear
    <3>3. QED BY <3>1, <3>2
  <2>3. CASE i # 1
    <3>1. i - 1 \in 1..Len(queue') /\ queue'[i - 1] = <<"alarm", t>>
      BY <2>1, <2>3, TailIndex
    <3>2. \A j \in ((i - 1) + 1)..Len(queue') : queue'[j][1] # "clear"
      BY <2>1, <2>3, TailIndex
    <3>3. QED BY <3>1, <3>2 DEF RaiseFor
  <2>4. QED BY <2>2, <2>3
<1>2. NoClear => NoClear' /\ Head(queue)[1] # "clear"
  BY TailIndex DEF NoClear
<1>3. QED BY <1>1, <1>2

LEMMA SameLines == ASSUME queue' = queue PROVE OrderKept
  BY DEF OrderKept, RaiseFor, NoClear

\* An alert somebody believes in is a rule, and its line carries it.
LEMMA AlertText ==
    ASSUME ledShown \in Rules \cup {None}, Believed
    PROVE  ledShown \in Texts
  BY DEF Believed, Texts

\* What is not about alarms.
LEMMA AlertUntouched ==
    ASSUME AlertInv, ledShown \in Rules \cup {None}, OrderKept,
           UNCHANGED <<panel, ledShown, unseen>>, conn' = "closed" => conn = "closed"
    PROVE  AlertInv'
<1>1. Believed' <=> Believed
  BY Zenon DEF Believed
<1>2. PanelHas' <=> PanelHas
  BY Zenon DEF PanelHas, OnPanel, panel
<1>3. Believed => (RaiseFor(ledShown) => RaiseFor(ledShown)')
  BY AlertText, Zenon DEF OrderKept
<1>4. RaiseFor(ledShown)' => AlertHeld'
  BY Zenon DEF AlertHeld
<1>5. Believed => AlertHeld'
  BY <1>2, <1>3, <1>4, Zenon DEF AlertInv, AlertHeld, OrderKept
<1>6. QED BY <1>1, <1>5, Zenon DEF AlertInv

\* A panel or a link that starts over is noted, and nothing is believed.
LEMMA AlertUnseen ==
    ASSUME Unseen("lost"), ledShown' = ledShown
    PROVE  AlertInv'
<1>1. ledShown # None => "lost" \in unseen'
  BY DEF Unseen
<1>2. ~Believed'
  BY <1>1, Zenon DEF Believed
<1>3. QED BY <1>2, Zenon DEF AlertInv

LEMMA AlertPost ==
    ASSUME AlertInv, queue \in Seq(Lines), ledShown \in Rules \cup {None},
           FireArmAlarm \/ ClearAlert \/ \E r \in Rules : ShowAlert(r)
    PROVE  AlertInv'
<1>1. CASE FireArmAlarm
  <2>1. UNCHANGED <<panel, ledShown, unseen, conn>>
    BY <1>1, Zenon DEF FireArmAlarm, manager, history
  <2>2. queue' = queue \/ queue' = Append(queue, <<"alarm", ArmText>>)
    BY <1>1, Zenon DEF FireArmAlarm, PostAlarm
  <2>3. <<"alarm", ArmText>> \in Lines /\ <<"alarm", ArmText>>[1] # "clear"
    BY AlertWords DEF Texts
  <2>4. OrderKept
    BY <2>2, <2>3, OtherAppended, SameLines
  <2>5. QED BY <2>1, <2>4, AlertUntouched, Zenon
<1>2. CASE ClearAlert
  BY <1>2, Zenon DEF ClearAlert, AlertInv, Believed
<1>3. ASSUME NEW r \in Rules, ShowAlert(r) PROVE AlertInv'
  <2>1. unseen' = (IF Attached /\ Room THEN {} ELSE {"lost"}) /\ conn' = conn /\ ledShown' = r
    BY <1>3, Zenon DEF ShowAlert, manager
  <2>2. CASE Attached /\ Room
    <3>1. queue' = Append(queue, <<"alarm", r>>) /\ r \in Texts
      BY <1>3, <2>2 DEF ShowAlert, PostAlarm, Texts
    <3>2. RaiseFor(r)'
      BY <3>1, RaisePosted
    <3>3. RaiseFor(ledShown)'
      BY <2>1, <3>2 DEF RaiseFor
    <3>4. conn' # "closed"
      BY <2>1, <2>2 DEF Attached
    <3>5. QED BY <3>3, <3>4, Zenon DEF AlertInv, AlertHeld
  <2>3. CASE ~(Attached /\ Room)
    <3>1. "lost" \in unseen'
      BY <2>1, <2>3
    <3>2. QED BY <3>1, Zenon DEF AlertInv, Believed
  <2>4. QED BY <2>2, <2>3
<1>4. QED BY <1>1, <1>2, <1>3

\* A MODE line takes the alert off the panel, and that is noted.
LEMMA ModeOverAlert ==
    ASSUME AlertInv, queue \in Seq(Lines), ledShown \in Rules \cup {None}, HandleMode
    PROVE  AlertInv'
<1>1. PICK m \in Modes :
         /\ queue # << >> /\ queue' = Tail(queue) /\ Head(queue) = <<"mode", m>>
         /\ UNCHANGED <<ledShown, conn>> /\ Unseen("mode")
  BY Zenon DEF HandleMode, Send, manager
<1>2. Head(queue)[1] # "alarm" /\ Head(queue)[1] # "clear"
  BY <1>1, AlertWords
<1>3. (\A t \in Texts : RaiseFor(t) => RaiseFor(t)') /\ (NoClear => NoClear')
  BY <1>1, <1>2, LineTaken, AlertWords
<1>4. (Believed' => Believed) /\ (Believed' => unseen' # {})
  BY <1>1 DEF Unseen, Believed
<1>5. ASSUME Believed' PROVE AlertHeld'
  <2>1. AlertHeld /\ ledShown \in Texts
    BY <1>4, <1>5, AlertText, Zenon DEF AlertInv
  <2>2. RaiseFor(ledShown) => RaiseFor(ledShown)'
    BY <1>1, <1>3, <2>1 DEF RaiseFor
  <2>3. NoClear => NoClear' /\ PanelHas'
    BY <1>3, <1>4, <1>5, Zenon DEF PanelHas
  <2>4. QED BY <2>1, <2>2, <2>3, Zenon DEF AlertHeld
<1>6. QED BY <1>1, <1>4, <1>5, Zenon DEF AlertInv

\* An alarm: the alert's own is on the panel now, another one is noted.
LEMMA AlarmOverAlert ==
    ASSUME AlertInv, queue \in Seq(Lines), ledShown \in Rules \cup {None}, HandleAlarm
    PROVE  AlertInv'
<1>1. PICK t \in Texts :
         /\ queue # << >> /\ queue' = Tail(queue) /\ Head(queue) = <<"alarm", t>>
         /\ UNCHANGED <<ledShown, conn>> /\ screen' = "ALARM" /\ alarm' = t
         /\ IF t = ledShown THEN unseen' = unseen \ {"mode", "over"} ELSE Unseen("over")
  BY Zenon DEF HandleAlarm, Send, manager
<1>2. /\ \A u \in Texts : RaiseFor(u) => RaiseFor(u)' \/ (Head(queue) = <<"alarm", u>> /\ NoClear')
      /\ NoClear => NoClear'
  BY <1>1, LineTaken
<1>3. Believed' => Believed
  BY <1>1 DEF Unseen, Believed
<1>4. \A u \in Texts : Head(queue) = <<"alarm", u>> => u = t
  BY <1>1
<1>5. CASE t = ledShown
  <2>1. PanelHas'
    BY <1>1, <1>5, Zenon DEF PanelHas, OnPanel
  <2>2. Believed' => AlertHeld
    BY <1>3, Zenon DEF AlertInv
  <2>3. RaiseFor(ledShown) => RaiseFor(ledShown)' \/ NoClear'
    BY <1>1, <1>2, <1>5 DEF RaiseFor
  <2>4. AlertHeld => AlertHeld'
    BY <1>2, <2>1, <2>3, Zenon DEF AlertHeld
  <2>5. QED BY <1>1, <1>3, <2>2, <2>4, Zenon DEF AlertInv
<1>6. CASE t # ledShown
  <2>1. Believed' => unseen' # {}
    BY <1>1, <1>6 DEF Unseen, Believed
  <2>2. ASSUME Believed' PROVE AlertHeld'
    <3>1. AlertHeld /\ ledShown \in Texts
      BY <1>3, <2>2, AlertText, Zenon DEF AlertInv
    <3>2. RaiseFor(ledShown) => RaiseFor(ledShown)'
      BY <1>1, <1>2, <1>4, <1>6, <3>1 DEF RaiseFor
    <3>3. PanelHas'
      BY <2>1, <2>2, Zenon DEF PanelHas
    <3>4. QED BY <1>2, <3>1, <3>2, <3>3, Zenon DEF AlertHeld
  <2>3. QED BY <1>1, <1>3, <2>2, Zenon DEF AlertInv
<1>7. QED BY <1>5, <1>6

LEMMA AlertTaken ==
    ASSUME AlertInv, queue \in Seq(Lines), ledShown \in Rules \cup {None},
           HandleMode \/ HandleAlarm \/ HandleClear \/ HandleState
    PROVE  AlertInv'
<1>1. CASE HandleState
  <2>1. /\ queue # << >> /\ queue' = Tail(queue) /\ Head(queue) = <<"state">>
        /\ UNCHANGED <<panel, ledShown, unseen, conn>>
    BY <1>1, Zenon DEF HandleState, Send, manager, history
  <2>2. Head(queue)[1] = "state"
    BY <2>1, AlertWords
  <2>3. OrderKept
    BY <2>1, <2>2, LineTaken, AlertWords DEF OrderKept
  <2>4. QED BY <2>1, <2>3, AlertUntouched, Zenon
<1>2. CASE HandleClear
  <2>1. /\ queue # << >> /\ queue' = Tail(queue) /\ Head(queue) = <<"clear">>
        /\ UNCHANGED <<ledShown, unseen, conn>>
    BY <1>2, Zenon DEF HandleClear, Send, manager, history
  <2>2. Head(queue)[1] = "clear"
    BY <2>1, AlertWords
  <2>3. ~NoClear /\ \A t \in Texts : RaiseFor(t) => RaiseFor(t)'
    BY <2>1, <2>2, LineTaken, AlertWords
  <2>4. Believed' <=> Believed
    BY <2>1, Zenon DEF Believed
  <2>5. ASSUME Believed PROVE AlertHeld'
    <3>1. RaiseFor(ledShown) /\ ledShown \in Texts
      BY <2>3, <2>5, AlertText, Zenon DEF AlertInv, AlertHeld
    <3>2. RaiseFor(ledShown)'
      BY <2>1, <2>3, <3>1 DEF RaiseFor
    <3>3. QED BY <3>2, Zenon DEF AlertHeld
  <2>6. QED BY <2>1, <2>4, <2>5, Zenon DEF AlertInv
<1>3. QED BY <1>1, <1>2, ModeOverAlert, AlarmOverAlert

\* The steps of the mode path: lines about modes and snapshots, and a new link,
\* which finds that nothing is believed.
LEMMA AlertLink ==
    ASSUME AlertInv, PathInv, ledShown \in Rules \cup {None},
           \/ \E a \in Callers, m \in Modes : SetMode(a, m)
           \/ \E a \in Actors : DriverSetMode(a) \/ EnqueueMode(a)
           \/ Open \/ RunDriver \/ Snapshot
    PROVE  AlertInv'
<1>1. queue \in Seq(Lines)
  BY DEF PathInv, LinkType
<1>2. CASE Open
  <2>1. UNCHANGED <<panel, ledShown, unseen>> /\ conn = "closed" /\ conn' # "closed"
    BY <1>2, Zenon DEF Open
  <2>2. QED BY <2>1, Zenon DEF AlertInv, Believed
<1>3. ASSUME UNCHANGED <<panel, ledShown, unseen>>, conn' = "closed" => conn = "closed",
             NEW l \in Lines, l[1] # "clear", queue' = queue \/ queue' = Append(queue, l)
      PROVE  AlertInv'
  <2>1. OrderKept
    BY <1>1, <1>3, OtherAppended, SameLines
  <2>2. QED BY <1>3, <2>1, AlertUntouched
<1>4. <<"state">> \in Lines /\ <<"state">>[1] # "clear"
  BY AlertWords
<1>5. CASE Snapshot
  <2>1. UNCHANGED <<panel, ledShown, unseen, conn>> /\ queue' = Append(queue, <<"state">>)
    BY <1>5, Zenon DEF Snapshot, manager, history
  <2>2. QED BY <1>3, <1>4, <2>1
<1>6. CASE RunDriver
  <2>1. UNCHANGED <<panel, ledShown, unseen, queue>> /\ conn' # "closed"
    BY <1>6, Zenon DEF RunDriver, driver, history
  <2>2. QED BY <1>3, <1>4, <2>1
<1>7. CASE \E a \in Callers, m \in Modes : SetMode(a, m)
  <2>1. UNCHANGED <<panel, ledShown, unseen, queue, conn>>
    BY <1>7, Zenon DEF SetMode, driver
  <2>2. QED BY <1>3, <1>4, <2>1
<1>8. ASSUME NEW a \in Actors, DriverSetMode(a) PROVE AlertInv'
  <2>1. UNCHANGED <<panel, ledShown, unseen, queue, conn>>
    BY <1>8, Zenon DEF DriverSetMode, manager
  <2>2. QED BY <1>3, <1>4, <2>1
<1>9. ASSUME NEW a \in Actors, EnqueueMode(a) PROVE AlertInv'
  <2>1. UNCHANGED <<panel, ledShown, unseen, conn>>
    BY <1>9, Zenon DEF EnqueueMode, manager
  <2>2. queue' = queue \/ queue' = Append(queue, <<"mode", call[a].mode>>)
    BY <1>9, Zenon DEF EnqueueMode
  <2>3. call[a].mode \in Modes
    BY <1>9 DEF EnqueueMode, PathInv, CallsInv, Active
  <2>4. <<"mode", call[a].mode>> \in Lines /\ <<"mode", call[a].mode>>[1] # "clear"
    BY <2>3, AlertWords
  <2>5. QED BY <1>3, <2>1, <2>2, <2>4
<1>10. QED BY <1>2, <1>5, <1>6, <1>7, <1>8, <1>9

LEMMA AlertStep ==
    ASSUME AlertInv, PathInv, ledShown \in Rules \cup {None}, [DisplayNext]_vars
    PROVE  AlertInv'
<1>1. queue \in Seq(Lines)
  BY DEF PathInv, LinkType
<1>2. CASE Detach
  BY <1>2, AlertUnseen, Zenon DEF Detach
<1>3. ASSUME Setup, ledShown' = ledShown PROVE AlertInv'
  BY <1>3, AlertUnseen, Zenon DEF Setup
<1>4. ASSUME UNCHANGED <<panel, ledShown, unseen, queue, conn>> PROVE AlertInv'
  BY <1>4, SameLines, AlertUntouched
<1>5. CASE Reset
  BY <1>3, <1>5, Zenon DEF Reset
<1>6. CASE Unplug
  <2>1. UNCHANGED <<ledShown, queue, conn>> /\ (Setup \/ UNCHANGED <<panel, unseen>>)
    BY <1>6, Zenon DEF Unplug, manager
  <2>2. QED BY <1>3, <1>4, <2>1
<1>7. CASE Plug
  <2>1. UNCHANGED <<panel, ledShown, unseen, queue, conn>>
    BY <1>7, Zenon DEF Plug, manager, driver, history
  <2>2. QED BY <1>4, <2>1
<1>8. CASE UNCHANGED vars
  <2>1. UNCHANGED <<panel, ledShown, unseen, queue, conn>>
    BY <1>8, Zenon DEF vars, manager, driver, history
  <2>2. QED BY <1>4, <2>1
<1>9. QED
  BY <1>1, <1>2, <1>5, <1>6, <1>7, <1>8, AlertPost, AlertTaken, AlertLink DEF DisplayNext

\* The rule the projection holds.
LEMMA LedType ==
    ASSUME ledShown \in Rules \cup {None}, [DisplayNext]_vars
    PROVE  ledShown' \in Rules \cup {None}
<1>1. \/ \E r \in Rules : ledShown' = r
      \/ ledShown' = None
      \/ ledShown' = ledShown
  BY Zenon DEF DisplayNext, SetMode, DriverSetMode, EnqueueMode, Open, RunDriver, Detach,
     Snapshot, FireArmAlarm, ClearAlert, ShowAlert, HandleMode, HandleAlarm, HandleClear,
     HandleState, Send, Reset, Unplug, Plug, vars
<1>2. QED BY <1>1

\* An alert that reached the panel and that neither a later MODE line nor another
\* alarm covered is what the panel renders once no line about alarms is on its
\* way, for every number of rules, callers, faults and alarms and every queue.
THEOREM AlertShown == DisplaySpec => []AlertIsShown
<1> DEFINE Inv == AlertInv /\ PathInv /\ ledShown \in Rules \cup {None}
<1>1. DisplayInit => Inv
  <2>1. DisplayInit => AlertInv
    BY Zenon DEF DisplayInit, AlertInv, Believed
  <2>2. DisplayInit => ledShown \in Rules \cup {None}
    BY DEF DisplayInit
  <2>3. QED BY <2>1, <2>2, InitPath
<1>2. Inv => AlertIsShown
  <2> SUFFICES ASSUME AlertInv, ledShown \in Rules \cup {None}, ledShown # None,
                      unseen = {}, AlarmsTold
               PROVE  OnPanel(ledShown)
    BY Zenon DEF AlertIsShown
  <2>1. Believed
    BY DEF Believed
  <2>2. ledShown \in Texts
    BY <2>1, AlertText
  <2>3. ~RaiseFor(ledShown)
    BY <2>2, AlertWords DEF AlarmsTold, Waiting, RaiseFor
  <2>4. QED BY <2>1, <2>3, Zenon DEF AlertInv, AlertHeld, PanelHas
<1>3. Inv /\ [DisplayNext]_vars => Inv'
  BY AlertStep, PathStep, LedType
<1>4. QED
  BY <1>1, <1>2, <1>3, PTL DEF DisplaySpec
===============================================================================
