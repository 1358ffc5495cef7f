--------------------------- MODULE ArmMachineProofs ---------------------------
(***************************************************************************)
(* Proofs about ArmMachine for every timeout, ticker period and channel    *)
(* capacity: typing, the request invariants, the gates of ARMED, and that  *)
(* what the drain goroutine still has to do leads to the machine's state.  *)
(***************************************************************************)
EXTENDS ArmMachine, TLAPS

USE TimingAssumption, BufferAssumption

\* emit keeps the queue typed and within its capacity.
LEMMA EmitType ==
    ASSUME ChannelType, NEW e \in Events, emit(e)
    PROVE  ChannelType'
  BY DEF ChannelType, emit, Saturate

\* The names the machine gives to emit are events.
LEMMA EventNames ==
    /\ {"boot-key-up", "arming-requested", "arming-cancelled",
        "arming-timeout", "disarm-denied-in-flight"} \subseteq Events
    /\ {"armed", "disarmed", Denial} \subseteq Events
  BY DEF Events, ArmEvents, Denials, Denial

\* What an input may do to the counters: it restarts the request age or leaves
\* it, counts a confirm or not, and never touches the ticker.
InputMoves ==
    /\ sinceTick' = sinceTick
    /\ confirmCount' \in {confirmCount, Saturate(confirmCount)}
    /\ \/ state' = state /\ requestAge' = requestAge
       \/ state' \in States /\ requestAge' = 0

LEMMA InputEffect == Input => InputMoves
<1> USE DEF InputMoves, Enter, Stay, States
<1>1. ASSUME NEW up \in BOOLEAN, Boot(up) PROVE InputMoves
  BY <1>1 DEF Boot
<1>2. CASE KeyUp
  BY <1>2 DEF KeyUp, KeyEdge
<1>3. CASE KeyDown
  BY <1>3 DEF KeyDown, KeyEdge
<1>4. CASE Confirm
  BY <1>4 DEF Confirm, ConfirmPressed
<1>5. ASSUME NEW b \in BOOLEAN,
             ThrottleChanged(b) \/ FCReadyChanged(b) \/ ChecklistOkChanged(b)
      PROVE  InputMoves
  BY <1>5 DEF ThrottleChanged, FCReadyChanged, ChecklistOkChanged
<1>6. QED
  BY <1>1, <1>2, <1>3, <1>4, <1>5 DEF Input

\* Every variable keeps its type.
THEOREM Typing == Spec => []TypeOK
<1>1. Init => TypeOK
  <2>1. Init => FlagType BY DEF Init, FlagType
  <2>2. Init => CounterType BY DEF Init, CounterType, States
  <2>3. Init => ChannelType BY DEF Init, ChannelType
  <2>4. Init => DrainType BY DEF Init, DrainType
  <2>5. QED BY <2>1, <2>2, <2>3, <2>4 DEF TypeOK
<1>2. TypeOK /\ [Next]_vars => TypeOK'
  <2> SUFFICES ASSUME TypeOK, [Next]_vars PROVE TypeOK'
    OBVIOUS
  <2>1. CounterType'
    <3> USE DEF TypeOK, CounterType, States, Enter, Stay
    <3>1. CASE Input
      BY <3>1, InputEffect DEF InputMoves, Saturate
    <3>2. CASE Tick
      BY <3>2 DEF Tick
    <3>3. CASE Elapse
      BY <3>3 DEF Elapse
    <3>4. CASE Receive \/ Finish
      BY <3>4 DEF Receive, Finish, machine
    <3>5. CASE UNCHANGED vars
      BY <3>5 DEF vars, machine
    <3>6. QED
      BY <3>1, <3>2, <3>3, <3>4, <3>5 DEF Next
  <2>2. DrainType'
    <3>1. CASE Receive
      BY <3>1 DEF Receive, TypeOK, DrainType, ChannelType
    <3>2. CASE Finish
      BY <3>2 DEF Finish, TypeOK, DrainType
    <3>3. CASE UNCHANGED consumer
      BY <3>3 DEF consumer, TypeOK, DrainType
    <3>4. QED
      BY <3>1, <3>2, <3>3
      DEF Next, Input, vars, Boot, KeyUp, KeyDown, KeyEdge, Confirm, consumer,
          ConfirmPressed, ThrottleChanged, FCReadyChanged, ChecklistOkChanged,
          Tick, Elapse
  <2>3. ChannelType'
    <3>1. CASE \E e \in Events : emit(e)
      BY <3>1, EmitType DEF TypeOK
    <3>2. CASE Receive
      BY <3>2 DEF Receive, TypeOK, ChannelType
    <3>3. CASE UNCHANGED channel
      BY <3>3 DEF channel, TypeOK, ChannelType
    <3>4. QED
      BY <3>1, <3>2, <3>3, EventNames
      DEF Next, Input, vars, Boot, KeyUp, KeyDown, Confirm, TypeOK, CounterType,
          States, ThrottleChanged, FCReadyChanged, ChecklistOkChanged, Tick,
          Elapse, Finish
  <2>4. FlagType'
    <3>1. CASE UNCHANGED <<keyUp, throttleZero, fcReady, checklistOk, initialised>>
      BY <3>1 DEF TypeOK, FlagType
    <3>2. ASSUME NEW up \in BOOLEAN, Boot(up) PROVE FlagType'
      BY <3>2 DEF Boot, TypeOK, FlagType
    <3>3. CASE KeyUp \/ KeyDown
      BY <3>3 DEF KeyUp, KeyDown, KeyEdge, TypeOK, FlagType
    <3>4. ASSUME NEW b \in BOOLEAN,
                 ThrottleChanged(b) \/ FCReadyChanged(b) \/ ChecklistOkChanged(b)
          PROVE  FlagType'
      BY <3>4 DEF ThrottleChanged, FCReadyChanged, ChecklistOkChanged, TypeOK, FlagType
    <3>5. QED
      BY <3>1, <3>2, <3>3, <3>4
      DEF Next, Input, vars, machine, Confirm, ConfirmPressed, Tick, Elapse,
          Receive, Finish
  <2>5. QED
    BY <2>1, <2>2, <2>3, <2>4 DEF TypeOK
<1>3. QED
  BY <1>1, <1>2, PTL DEF Spec

-----------------------------------------------------------------------------

\* A pending request has its key up.  Before the boot position is known there
\* is no request that the boot position could contradict.
KeyInv == RequestHasKeyUp /\ (~initialised => state # "ARMING_REQUESTED")

THEOREM RequestKey == Spec => []RequestHasKeyUp
<1>1. Init => KeyInv
  BY DEF Init, RequestHasKeyUp, KeyInv
<1>2. KeyInv /\ [Next]_vars => KeyInv'
  <2> SUFFICES ASSUME KeyInv, [Next]_vars PROVE KeyInv'
    OBVIOUS
  <2> USE DEF KeyInv, RequestHasKeyUp, Enter, Stay
  <2>1. ASSUME NEW up \in BOOLEAN, Boot(up) PROVE KeyInv'
    BY <2>1 DEF Boot, KeyEdge
  <2>2. CASE KeyUp
    BY <2>2 DEF KeyUp, KeyEdge
  <2>3. CASE KeyDown
    BY <2>3 DEF KeyDown, KeyEdge
  <2>4. CASE Confirm
    BY <2>4 DEF Confirm, ConfirmPressed
  <2>5. CASE Tick
    BY <2>5 DEF Tick
  <2>6. CASE UNCHANGED <<state, keyUp, initialised>>
    BY <2>6
  <2>7. QED
    BY <2>1, <2>2, <2>3, <2>4, <2>5, <2>6
    DEF Next, Input, vars, machine, ThrottleChanged, FCReadyChanged,
        ChecklistOkChanged, Elapse, Receive, Finish
<1>3. KeyInv => RequestHasKeyUp
  BY DEF KeyInv
<1>4. QED
  BY <1>1, <1>2, <1>3, PTL DEF Spec

\* After a Tick a pending request is younger than the timeout; since then it
\* aged no more than the time elapsed.
AgeInv == state = "ARMING_REQUESTED" => requestAge < Timeout + sinceTick

\* A pending request is younger than the timeout plus one ticker period.
THEOREM RequestAge == Spec => []RequestIsFresh
<1>1. Init => AgeInv
  BY DEF Init, AgeInv
<1>2. TypeOK /\ AgeInv /\ [Next]_vars => AgeInv'
  <2> SUFFICES ASSUME TypeOK, AgeInv, [Next]_vars PROVE AgeInv'
    OBVIOUS
  <2> USE DEF Enter, Stay, AgeInv, TypeOK, CounterType
  <2>1. CASE Tick
    BY <2>1 DEF Tick, Expired
  <2>2. CASE Elapse
    BY <2>2 DEF Elapse
  <2>3. CASE Input
    BY <2>3, InputEffect DEF InputMoves
  <2>4. CASE Receive \/ Finish
    <3>1. UNCHANGED <<state, requestAge, sinceTick>>
      BY <2>4 DEF Receive, Finish, machine
    <3>2. QED BY <3>1
  <2>5. CASE UNCHANGED vars
    BY <2>5 DEF vars, machine
  <2>6. QED
    BY <2>1, <2>2, <2>3, <2>4, <2>5 DEF Next
<1>3. TypeOK /\ AgeInv => RequestIsFresh
  BY DEF TypeOK, CounterType, AgeInv, RequestIsFresh
<1>4. QED
  BY <1>1, <1>2, <1>3, Typing, PTL DEF Spec

\* A request is pending only with the key up, and not for longer than it may be.
THEOREM RequestSound == Spec => []RequestIsSound
<1>1. TypeOK /\ RequestHasKeyUp /\ RequestIsFresh => RequestIsSound
  BY DEF RequestIsSound
<1>2. QED
  BY <1>1, Typing, RequestKey, RequestAge, PTL

-----------------------------------------------------------------------------

\* ARMED is entered and left only through its gates.
THEOREM ArmedGates == Spec => ArmedIsGated
<1> DEFINE Gated ==
      /\ state # "ARMED" /\ state' = "ARMED" =>
              /\ state = "ARMING_REQUESTED" /\ keyUp
              /\ throttleZero /\ fcReady /\ checklistOk
      /\ state = "ARMED" /\ state' # "ARMED" =>
              state' = "DISARMED" /\ throttleZero /\ keyUp /\ ~keyUp'
<1>1. TypeOK /\ RequestHasKeyUp /\ [Next]_vars => [Gated]_vars
  <2> SUFFICES ASSUME TypeOK, RequestHasKeyUp, Next PROVE Gated
    OBVIOUS
  <2> USE DEF Enter, Stay
  <2>1. CASE KeyUp
    BY <2>1 DEF KeyUp, KeyEdge
  <2>2. CASE KeyDown
    BY <2>2 DEF KeyDown, KeyEdge, TypeOK, FlagType
  <2>3. CASE Confirm
    BY <2>3 DEF Confirm, ConfirmPressed, Armable, RequestHasKeyUp
  <2>4. CASE Tick
    BY <2>4 DEF Tick
  <2>5. CASE UNCHANGED state
    BY <2>5
  <2>6. QED
    BY <2>1, <2>2, <2>3, <2>4, <2>5
    DEF Next, Input, Boot, ThrottleChanged, FCReadyChanged, ChecklistOkChanged,
        Elapse, Receive, Finish, machine
<1>2. QED
  BY <1>1, Typing, RequestKey, PTL DEF Spec, ArmedIsGated

-----------------------------------------------------------------------------

\* The empty queue leads from an event to itself.
LEMMA LeadsEmpty ==
    ASSUME NEW from PROVE Leads(<< >>, from, from)
  BY DEF Leads

\* An event that is not a flight event does not change where a queue leads.
LEMMA LeadsAppendOther ==
    ASSUME NEW q \in Seq(Events), NEW e \in Events \ ArmEvents,
           NEW from, NEW to, Leads(q, from, to)
    PROVE  Leads(Append(q, e), from, to)
<1> DEFINE r == Append(q, e)
<1>1. /\ Len(r) = Len(q) + 1 /\ DOMAIN r = 1..(Len(q) + 1)
      /\ \A i \in 1..Len(q) : r[i] = q[i]
      /\ r[Len(q) + 1] = e
      /\ DOMAIN q = 1..Len(q) /\ Len(q) \in Nat
  OBVIOUS
<1>2. \A i \in DOMAIN r : IsArmEvent(r, i) <=> i \in DOMAIN q /\ IsArmEvent(q, i)
  BY <1>1 DEF IsArmEvent
<1> HIDE DEF r
<1>3. \A i \in DOMAIN r : FirstArmEvent(r, i) => r[i] # from
  BY <1>1, <1>2 DEF Leads, FirstArmEvent
<1>4. \A i, j \in DOMAIN r : Consecutive(r, i, j) => r[i] # r[j]
  <2> SUFFICES ASSUME NEW i \in DOMAIN r, NEW j \in DOMAIN r,
                      Consecutive(r, i, j)
               PROVE  r[i] # r[j]
    OBVIOUS
  <2>1. i \in DOMAIN q /\ j \in DOMAIN q /\ Consecutive(q, i, j)
    BY <1>1, <1>2 DEF Consecutive
  <2>2. QED BY <1>1, <2>1 DEF Leads
<1>5. \A i \in DOMAIN r : LastArmEvent(r, i) => r[i] = to
  BY <1>1, <1>2 DEF Leads, LastArmEvent
<1>6. (\A i \in DOMAIN r : ~IsArmEvent(r, i)) => from = to
  BY <1>1, <1>2 DEF Leads
<1>7. QED
  BY <1>3, <1>4, <1>5, <1>6 DEF Leads, r

\* A flight event that differs from where the queue leads extends it.
LEMMA LeadsAppendFlight ==
    ASSUME NEW q \in Seq(Events), NEW e \in ArmEvents,
           NEW from, NEW to, Leads(q, from, to), e # to
    PROVE  Leads(Append(q, e), from, e)
<1> DEFINE r == Append(q, e)
<1>1. /\ Len(r) = Len(q) + 1 /\ DOMAIN r = 1..(Len(q) + 1)
      /\ \A i \in 1..Len(q) : r[i] = q[i]
      /\ r[Len(q) + 1] = e
      /\ DOMAIN q = 1..Len(q) /\ Len(q) \in Nat
  OBVIOUS
<1>2. \A i \in DOMAIN q : IsArmEvent(r, i) <=> IsArmEvent(q, i)
  BY <1>1 DEF IsArmEvent
<1>3. IsArmEvent(r, Len(q) + 1)
  BY <1>1 DEF IsArmEvent
<1> HIDE DEF r
<1>4. ASSUME NEW i \in DOMAIN r, FirstArmEvent(r, i) PROVE r[i] # from
  BY <1>1, <1>2, <1>3, <1>4 DEF Leads, FirstArmEvent
<1>5. ASSUME NEW i \in DOMAIN r, NEW j \in DOMAIN r, Consecutive(r, i, j)
      PROVE  r[i] # r[j]
  <2>1. CASE j \in DOMAIN q
    BY <1>1, <1>2, <1>5, <2>1 DEF Leads, Consecutive
  <2>2. CASE j = Len(q) + 1
    <3>1. i \in DOMAIN q /\ LastArmEvent(q, i)
      BY <1>1, <1>2, <1>5, <2>2 DEF Consecutive, LastArmEvent
    <3>2. QED BY <1>1, <3>1, <2>2 DEF Leads
  <2>3. QED BY <1>1, <2>1, <2>2
<1>6. ASSUME NEW i \in DOMAIN r, LastArmEvent(r, i) PROVE r[i] = e
  BY <1>1, <1>3, <1>6 DEF LastArmEvent
<1>7. ~ \A i \in DOMAIN r : ~IsArmEvent(r, i)
  BY <1>1, <1>3
<1>8. QED
  BY <1>4, <1>5, <1>6, <1>7 DEF Leads, r

\* Taking the head: a flight event is where the rest starts from, and differs
\* from where the whole started; another event changes nothing.
LEMMA LeadsTail ==
    ASSUME NEW q \in Seq(Events), q # << >>, NEW from \in ArmEvents,
           NEW to \in ArmEvents, Leads(q, from, to)
    PROVE  IF Head(q) \in ArmEvents
           THEN Head(q) # from /\ Leads(Tail(q), Head(q), to)
           ELSE Leads(Tail(q), from, to)
<1> DEFINE r == Tail(q)
<1>1. /\ Len(q) \in Nat /\ Len(q) > 0 /\ DOMAIN q = 1..Len(q)
      /\ r \in Seq(Events) /\ Len(r) = Len(q) - 1 /\ DOMAIN r = 1..(Len(q) - 1)
      /\ \A i \in 1..(Len(q) - 1) : r[i] = q[i + 1]
      /\ Head(q) = q[1]
  OBVIOUS
<1>2. \A i \in DOMAIN r : IsArmEvent(r, i) <=> IsArmEvent(q, i + 1)
  BY <1>1 DEF IsArmEvent
<1>3. \A i \in DOMAIN q : i = 1 \/ i - 1 \in DOMAIN r
  BY <1>1
<1> HIDE DEF r
<1>4. \A i \in DOMAIN r : LastArmEvent(r, i) => r[i] = to
  <2> SUFFICES ASSUME NEW i \in DOMAIN r, LastArmEvent(r, i) PROVE r[i] = to
    OBVIOUS
  <2>1. \A k \in DOMAIN q : k > i + 1 => k - 1 \in DOMAIN r /\ k = (k - 1) + 1
    BY <1>1
  <2>2. i + 1 \in DOMAIN q /\ LastArmEvent(q, i + 1)
    BY <1>1, <1>2, <2>1 DEF LastArmEvent
  <2>3. QED BY <1>1, <2>2 DEF Leads
<1>5. \A i, j \in DOMAIN r : Consecutive(r, i, j) => r[i] # r[j]
  <2> SUFFICES ASSUME NEW i \in DOMAIN r, NEW j \in DOMAIN r,
                      Consecutive(r, i, j)
               PROVE  r[i] # r[j]
    OBVIOUS
  <2>1. \A k \in DOMAIN q : i + 1 < k => k - 1 \in DOMAIN r /\ k = (k - 1) + 1
    BY <1>1
  <2>2. i + 1 \in DOMAIN q /\ j + 1 \in DOMAIN q /\ i + 1 < j + 1
    BY <1>1 DEF Consecutive
  <2>3. ASSUME NEW k \in DOMAIN q, i + 1 < k, k < j + 1
        PROVE  ~IsArmEvent(q, k)
    <3>1. i < k - 1 /\ k - 1 < j
      BY <1>1, <2>3
    <3>2. ~IsArmEvent(r, k - 1)
      BY <2>1, <2>3, <3>1 DEF Consecutive
    <3>3. QED BY <1>2, <2>1, <2>3, <3>2
  <2>4. Consecutive(q, i + 1, j + 1)
    BY <1>2, <2>2, <2>3 DEF Consecutive
  <2>5. QED BY <1>1, <2>2, <2>4 DEF Leads
<1>6. CASE Head(q) \in ArmEvents
  <2>1. FirstArmEvent(q, 1) /\ 1 \in DOMAIN q
    BY <1>1, <1>6 DEF FirstArmEvent, IsArmEvent
  <2>2. q[1] # from
    BY <2>1 DEF Leads
  <2>3. ASSUME NEW i \in DOMAIN r, FirstArmEvent(r, i) PROVE r[i] # q[1]
    <3>1. \A k \in DOMAIN q : 1 < k => k - 1 \in DOMAIN r /\ k = (k - 1) + 1
      BY <1>1
    <3>2. i + 1 \in DOMAIN q /\ Consecutive(q, 1, i + 1)
      BY <1>1, <1>2, <2>1, <2>3, <3>1 DEF FirstArmEvent, Consecutive
    <3>3. QED BY <1>1, <2>1, <3>2 DEF Leads
  <2>4. ASSUME \A i \in DOMAIN r : ~IsArmEvent(r, i) PROVE q[1] = to
    <3>1. LastArmEvent(q, 1)
      BY <1>1, <1>2, <1>3, <2>1, <2>4 DEF FirstArmEvent, LastArmEvent
    <3>2. QED BY <2>1, <3>1 DEF Leads
  <2>5. Leads(r, q[1], to)
    BY <1>4, <1>5, <2>3, <2>4 DEF Leads
  <2>6. QED BY <1>1, <1>6, <2>2, <2>5 DEF r
<1>7. CASE Head(q) \notin ArmEvents
  <2>1. ~IsArmEvent(q, 1)
    BY <1>1, <1>7 DEF IsArmEvent
  <2>2. ASSUME NEW i \in DOMAIN r, FirstArmEvent(r, i) PROVE r[i] # from
    <3>1. \A k \in DOMAIN q : 1 < k => k - 1 \in DOMAIN r /\ k = (k - 1) + 1
      BY <1>1
    <3>2. i + 1 \in DOMAIN q /\ IsArmEvent(q, i + 1)
      BY <1>1, <1>2, <2>2 DEF FirstArmEvent
    <3>3. ASSUME NEW k \in DOMAIN q, k < i + 1 PROVE ~IsArmEvent(q, k)
      <4>1. CASE k = 1 BY <2>1, <4>1
      <4>2. CASE 1 < k
        <5>1. k - 1 < i /\ k - 1 \in DOMAIN r
          BY <1>1, <3>1, <3>3, <4>2
        <5>2. ~IsArmEvent(r, k - 1)
          BY <2>2, <5>1 DEF FirstArmEvent
        <5>3. QED BY <1>2, <3>1, <4>2, <5>1, <5>2
      <4>3. QED BY <1>1, <4>1, <4>2
    <3>4. FirstArmEvent(q, i + 1)
      BY <3>2, <3>3 DEF FirstArmEvent
    <3>5. QED BY <1>1, <3>2, <3>4 DEF Leads
  <2>3. ASSUME \A i \in DOMAIN r : ~IsArmEvent(r, i) PROVE from = to
    <3>1. \A k \in DOMAIN q : ~IsArmEvent(q, k)
      <4> SUFFICES ASSUME NEW k \in DOMAIN q, k # 1 PROVE ~IsArmEvent(q, k)
        BY <2>1
      <4>1. k - 1 \in DOMAIN r /\ k = (k - 1) + 1
        BY <1>1
      <4>2. QED BY <1>2, <2>3, <4>1
    <3>2. QED BY <3>1 DEF Leads
  <2>4. Leads(r, from, to)
    BY <1>4, <1>5, <2>2, <2>3 DEF Leads
  <2>5. QED BY <1>7, <2>4 DEF r
<1>8. QED BY <1>6, <1>7

-----------------------------------------------------------------------------

\* Once an event was dropped the count never reads 0 again, and an emit that
\* finds room appends.
LEMMA EmitCount ==
    ASSUME TypeOK, NEW e, emit(e), dropped' = 0
    PROVE  dropped = 0 /\ events' = Append(events, e)
  BY DEF emit, Saturate, TypeOK, ChannelType

\* While nothing was dropped, the drain is on its way to the machine's state.
THEOREM Convergence == Spec => []DrainConverges
<1>1. Init => DrainConverges
  <2> SUFFICES ASSUME Init PROVE DrainConverges
    OBVIOUS
  <2>1. /\ FlightEvent(state = "ARMED") = "disarmed"
        /\ EventInEffect = "disarmed" /\ FlightEvent(flightArmed) = "disarmed"
        /\ handling = NoEvent /\ events = << >>
    BY DEF Init, FlightEvent, EventInEffect, NoEvent, ArmEvents
  <2>2. QED
    BY <2>1, LeadsEmpty DEF DrainConverges, NoEvent
<1>2. TypeOK /\ DrainConverges /\ [Next]_vars => DrainConverges'
  <2> SUFFICES ASSUME TypeOK, DrainConverges, [Next]_vars, dropped' = 0
               PROVE  /\ handling' # FlightEvent(flightArmed')
                      /\ Leads(events', EventInEffect', FlightEvent(state' = "ARMED"))
    BY DEF DrainConverges
  <2>0. /\ FlightEvent(flightArmed) \in ArmEvents
        /\ FlightEvent(state = "ARMED") \in ArmEvents
        /\ EventInEffect \in ArmEvents /\ events \in Seq(Events)
    BY DEF FlightEvent, ArmEvents, EventInEffect, TypeOK, ChannelType
  <2>1. ASSUME NEW e \in Events \ ArmEvents, emit(e), UNCHANGED consumer,
               (state' = "ARMED") = (state = "ARMED")
        PROVE  /\ handling' # FlightEvent(flightArmed')
               /\ Leads(events', EventInEffect', FlightEvent(state' = "ARMED"))
    <3>1. dropped = 0 /\ events' = Append(events, e)
      BY <2>1, EmitCount
    <3>2. EventInEffect' = EventInEffect
      BY <2>1 DEF consumer, EventInEffect
    <3>3. QED
      BY <2>0, <2>1, <3>1, <3>2, LeadsAppendOther DEF DrainConverges, consumer
  <2>2. ASSUME NEW e \in ArmEvents, emit(e), UNCHANGED consumer,
               FlightEvent(state' = "ARMED") = e,
               FlightEvent(state = "ARMED") # e
        PROVE  /\ handling' # FlightEvent(flightArmed')
               /\ Leads(events', EventInEffect', FlightEvent(state' = "ARMED"))
    <3>1. dropped = 0 /\ events' = Append(events, e)
      BY <2>2, EmitCount
    <3>2. EventInEffect' = EventInEffect
      BY <2>2 DEF consumer, EventInEffect
    <3>3. QED
      BY <2>0, <2>2, <3>1, <3>2, LeadsAppendFlight DEF DrainConverges, consumer
  <2>3. ASSUME UNCHANGED <<channel, consumer>>, (state' = "ARMED") = (state = "ARMED")
        PROVE  /\ handling' # FlightEvent(flightArmed')
               /\ Leads(events', EventInEffect', FlightEvent(state' = "ARMED"))
    BY <2>3 DEF DrainConverges, channel, consumer, EventInEffect
  <2>4. CASE \E up \in BOOLEAN : Boot(up)
    <3>1. "boot-key-up" \in Events \ ArmEvents BY DEF Events, ArmEvents
    <3>2. QED BY <2>4, <2>1, <2>3, <3>1 DEF Boot, Stay
  <2>5. CASE KeyUp
    <3>1. "arming-requested" \in Events \ ArmEvents BY DEF Events, ArmEvents
    <3>2. QED BY <2>5, <2>1, <2>3, <3>1 DEF KeyUp, KeyEdge, Stay, Enter
  <2>6. CASE KeyDown
    <3>1. {"arming-cancelled", "disarm-denied-in-flight"} \subseteq Events \ ArmEvents
      BY DEF Events, ArmEvents
    <3>2. "disarmed" \in ArmEvents BY DEF ArmEvents
    <3>3. CASE state = "ARMED" /\ throttleZero
      BY <2>6, <2>2, <3>2, <3>3 DEF KeyDown, KeyEdge, Stay, Enter, FlightEvent
    <3>4. CASE ~(state = "ARMED" /\ throttleZero)
      BY <2>6, <2>1, <2>3, <3>1, <3>4 DEF KeyDown, KeyEdge, Stay, Enter
    <3>5. QED BY <3>3, <3>4
  <2>7. CASE Confirm
    <3>1. Denial \in Events \ ArmEvents
      BY DEF Denial, Denials, Events, ArmEvents
    <3>2. "armed" \in ArmEvents BY DEF ArmEvents
    <3>3. CASE state = "ARMING_REQUESTED" /\ Armable
      BY <2>7, <2>2, <3>2, <3>3 DEF Confirm, ConfirmPressed, Enter, FlightEvent
    <3>4. CASE ~(state = "ARMING_REQUESTED" /\ Armable)
      BY <2>7, <2>1, <2>3, <3>1, <3>4 DEF Confirm, ConfirmPressed, Stay
    <3>5. QED BY <3>3, <3>4
  <2>8. CASE Tick
    <3>1. "arming-timeout" \in Events \ ArmEvents BY DEF Events, ArmEvents
    <3>2. QED BY <2>8, <2>1, <2>3, <3>1 DEF Tick, Stay, Enter
  <2>9. CASE Receive
    <3>1. /\ FlightEvent(flightArmed) = EventInEffect /\ dropped = 0
          /\ events # << >> /\ events' = Tail(events) /\ handling' = Head(events)
          /\ flightArmed' = flightArmed /\ state' = state
      BY <2>9 DEF Receive, EventInEffect, machine, NoEvent, ArmEvents
    <3>2. EventInEffect' = IF Head(events) \in ArmEvents THEN Head(events)
                                                        ELSE EventInEffect
      BY <3>1 DEF EventInEffect
    <3>3. Leads(events, EventInEffect, FlightEvent(state = "ARMED"))
      BY <3>1 DEF DrainConverges
    <3>4. CASE Head(events) \in ArmEvents
      BY <2>0, <3>1, <3>2, <3>3, <3>4, LeadsTail
    <3>5. CASE Head(events) \notin ArmEvents
      BY <2>0, <3>1, <3>2, <3>3, <3>5, LeadsTail
    <3>6. QED BY <3>4, <3>5
  <2>10. CASE Finish
    <3>1. /\ FlightEvent(flightArmed') = EventInEffect /\ handling' = NoEvent
          /\ dropped = 0 /\ events' = events /\ state' = state
      BY <2>10 DEF Finish, EventInEffect, FlightEvent, machine, channel, ArmEvents
    <3>2. EventInEffect' = EventInEffect
      BY <3>1 DEF EventInEffect, NoEvent, ArmEvents
    <3>3. QED
      BY <2>0, <3>1, <3>2 DEF DrainConverges, NoEvent, ArmEvents
  <2>11. CASE UNCHANGED <<channel, consumer, state>>
    BY <2>3, <2>11
  <2>12. QED
    BY <2>4, <2>5, <2>6, <2>7, <2>8, <2>9, <2>10, <2>11
    DEF Next, Input, ThrottleChanged, FCReadyChanged, ChecklistOkChanged, Elapse,
        Stay, vars, machine
<1>3. QED
  BY <1>1, <1>2, Typing, PTL DEF Spec

=============================================================================
