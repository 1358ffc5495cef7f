-------------------------------- MODULE Mixer --------------------------------
(***************************************************************************)
(* From sticks and switches to channels: the logical switches              *)
(* (internal/logic), the names they are written with (internal/source),    *)
(* the mix table (internal/mapper), the custom functions (internal/cf) and *)
(* the stack that holds one of each per model (cmd/zerotxd/stack.go).      *)
(*                                                                         *)
(* A model is data: Def[m] gives its switches, functions and mixes, a      *)
(* definition as the list of its operands.                                 *)
(* Values are percent.  An operand that cannot be resolved has no value:   *)
(* resolving returns a set with at most one element.  A switch that timing *)
(* does not concern keeps its timers empty in the same way, and a timer is *)
(* its age, not the time it began at.                                      *)
(***************************************************************************)
EXTENDS Integers, Sequences, FiniteSets, FiniteSetsExt, SequencesExt

CONSTANTS Models,     \* model files
          Def,        \* what each one says
          NoModel,    \* nothing is loaded
          Channels,   \* channels of the radio link
          Sticks,     \* percentages the joystick axes take
          Positions,  \* names of panel switches |-> positions they take
          Lateness,   \* durations of a tick
          AgeCap,     \* ages count no further
          QueueCap,   \* cf.Processor.Audio
          MaxLeaving  \* replaced stacks whose drains have not ended yet

ASSUME MixerAssumption ==
    /\ NoModel \notin Models
    /\ Lateness \subseteq Nat \ {0} /\ Sticks \subseteq -100..100
    /\ QueueCap \in Nat \ {0}
    /\ AgeCap \in Nat /\ MaxLeaving \in Nat

VARIABLES model,      \* the active stack's model, NoModel when idle
          states,     \* logic.Engine.states
          out,        \* logic.Engine.output
          triggered,  \* cf.Processor.prevTriggered
          ch,         \* channels of the last tick
          toldLow,    \* what the arm machine was last told of the throttle
          sounds,     \* events on their way to the player, oldest first
          saying,     \* event the drain has taken, at most one
          leaving,    \* drains of replaced stacks: what they hold, oldest first
          heard,      \* last word the player got from the active stack's drain
          stray,      \* word it got since then from one of the others
          seen,       \* history: gesture made, its progress, missed announcements
          stuck       \* history: switches expired and not seen low since

mixerVars == <<model, states, out, triggered, ch, toldLow, sounds, saying,
               leaving, heard, stray, seen, stuck>>

Clamp(v) == IF v > 100 THEN 100 ELSE IF v < -100 THEN -100 ELSE v
Magnitude(v) == IF v < 0 THEN -v ELSE v
Cap(age) == IF age > AgeCap THEN AgeCap ELSE age
Only(b) == IF b THEN 100 ELSE -100

----------------------------------------------------------------------------
(* Files.  A definition that does not have the form of its function leaves *)
(* a switch that is never on, or a function that does nothing.             *)

Comparisons == {"VPOS", "VNEG", "APOS", "ANEG", "VEQUAL", "VALMOSTEQUAL",
                "GREATER", "LESS"}
Unset == [src |-> "none", of |-> "", arg |-> 0, not |-> FALSE, invert |-> FALSE]

IsNumber(def, k) == k \in DOMAIN def /\ def[k].src = "constant"
Number(def, k) == IF IsNumber(def, k) THEN def[k].arg ELSE 0
Operand(def, k) == IF k \in DOMAIN def THEN def[k] ELSE Unset

ParsedSwitch(ls) ==
    LET def == ls.def
        edge == ls.func = "EDGE"
        formed == CASE edge -> /\ Len(def) >= 3 /\ IsNumber(def, 2)
                               /\ def[3].src \in {"immediate", "unbounded", "constant"}
                    [] ls.func = "TIMER" -> IsNumber(def, 1) /\ IsNumber(def, 2)
                    [] OTHER -> Len(def) >= 2
    IN  [func |-> IF formed THEN ls.func ELSE "NONE",
         op1 |-> Operand(def, 1), op2 |-> Operand(def, 2), c |-> Clamp(Number(def, 2)),
         t1 |-> Number(def, IF edge THEN 2 ELSE 1), t2 |-> Number(def, IF edge THEN 3 ELSE 2),
         until |-> Operand(def, 3).src,
         delay |-> ls.delay, duration |-> ls.duration, andsw |-> ls.andsw]

ParsedFunction(cf) ==
    LET def == cf.def
        formed == cf.func = "OVERRIDE" => \A k \in 1..3 : IsNumber(def, k)
    IN  [func |-> IF formed THEN cf.func ELSE "NONE", switch |-> cf.switch,
         name |-> Operand(def, 1).of, channel |-> Number(def, 1),
         value |-> Clamp(Number(def, 2)), enabled |-> Number(def, 3) = 1]

\* The engine and the functions go through the numbers 0..n-1, n the number
\* of entries; here they count from 1.
Listed(entries, empty) ==
    [i \in 1..Cardinality(DOMAIN entries) |->
        IF i \in DOMAIN entries THEN entries[i] ELSE empty]

NoSwitch == [func |-> "NONE", def |-> <<>>, delay |-> 0, duration |-> 0, andsw |-> Unset]
NoFunction == [func |-> "NONE", switch |-> Unset, def |-> <<>>]

File ==
    [m \in Models |->
       LET sw == Listed(Def[m].switches, NoSwitch)
           fn == Listed(Def[m].functions, NoFunction)
       IN  [switches |-> [i \in DOMAIN sw |-> ParsedSwitch(sw[i])],
            functions |-> [j \in DOMAIN fn |-> ParsedFunction(fn[j])],
            mixes |-> Def[m].mixes, arm |-> Def[m].arm]]

\* Files are lists of finitely many entries, and delays are not negative.
ASSUME FilesAssumption ==
    \A m \in Models :
       /\ IsFiniteSet(DOMAIN Def[m].functions)
       /\ IsFiniteSet(DOMAIN Def[m].mixes) /\ DOMAIN Def[m].mixes \subseteq Nat
       /\ \A i \in DOMAIN Def[m].mixes :
             Def[m].mixes[i].dest \in Int /\ Def[m].mixes[i].weight \in Int
       /\ \A i \in DOMAIN File[m].switches : File[m].switches[i].delay \in Nat

----------------------------------------------------------------------------
(* Names.  in is what the devices say in this tick, o the switch outputs.  *)

Gone == 999                       \* a device that does not answer

Axis(e, in) ==
    LET v == in.axes[e.of]
        live == IF Magnitude(v) < e.arg THEN 0 ELSE v
    IN  IF v = Gone THEN {} ELSE {IF e.invert THEN -live ELSE live}

\* A switch, selector or button of the panel; one the panel does not have
\* has no position.  Switches of two positions read like buttons.
Panel(e, in) == IF e.of \in DOMAIN in.panel THEN {in.panel[e.of]} ELSE {}

AtPosition(e, in) == e.arg \in Panel(e, in)

\* ResolveValue without the "!".  Trims, pots, sliders and global variables
\* are not implemented, telemetry is given no source, and no flight mode is
\* ever active.
PlainValue(e, in, o) ==
    CASE e.src = "max"      -> {100}
      [] e.src = "constant" -> {Clamp(e.arg)}
      [] e.src = "logic"    -> {Only(e.arg \in DOMAIN o /\ o[e.arg])}
      [] e.src = "position" -> {Only(AtPosition(e, in))}
      [] e.src = "axis"     -> Axis(e, in)
      [] e.src = "switch"   -> {Clamp(100 * (p - 1)) : p \in Panel(e, in)}
      [] e.src = "button"   -> {Only(p > 0) : p \in Panel(e, in)}
      [] e.src = "selector" -> {40 * p - 100 : p \in Panel(e, in)}
      [] e.src = "mode"     -> {-100}
      [] OTHER              -> {}

Value(e, in, o) ==
    IF e.not THEN {-v : v \in PlainValue(e, in, o)} ELSE PlainValue(e, in, o)

Bool(e, in, o) ==
    LET plain == CASE e.src = "max"      -> {TRUE}
                   [] e.src = "logic"    -> {e.arg \in DOMAIN o /\ o[e.arg]}
                   [] e.src = "position" -> {AtPosition(e, in)}
                   [] e.src = "mode"     -> {FALSE}
                   [] OTHER              -> {v >= 0 : v \in PlainValue(e, in, o)}
    IN  IF e.not THEN {~b : b \in plain} ELSE plain

Truthy(e, in, o, empty) ==
    IF e.src = "none" THEN empty ELSE TRUE \in Bool(e, in, o)

----------------------------------------------------------------------------
(* Logical switches.  d is the definition, s the switch's state.           *)

Fresh == [v1 |-> FALSE, v2 |-> FALSE, latched |-> FALSE, held |-> 0,
          fired |-> FALSE, phase |-> "none", since |-> 0, prev |-> {},
          delay |-> {}, window |-> {}, locked |-> FALSE, asked |-> FALSE, on |-> FALSE]

Aged(s, dt) ==
    [s EXCEPT !.held = IF s.v1 THEN Cap(s.held + dt) ELSE s.held,
              !.since = IF s.phase = "none" THEN s.since ELSE Cap(s.since + dt),
              !.delay = {Cap(a + dt) : a \in s.delay},
              !.window = {Cap(a + dt) : a \in s.window}]

Result(on, s) == [on |-> on, s |-> s]

Comparison(d, in, o) ==
    \E v \in Value(d.op1, in, o) :
       CASE d.func = "VPOS"         -> v > d.c
         [] d.func = "VNEG"         -> v < d.c
         [] d.func = "APOS"         -> Magnitude(v) > d.c
         [] d.func = "ANEG"         -> Magnitude(v) < d.c
         [] d.func = "VEQUAL"       -> v = d.c
         [] d.func = "VALMOSTEQUAL" -> Magnitude(v - d.c) < 5
         [] d.func = "GREATER"      -> \E w \in Value(d.op2, in, o) : v > w
         [] d.func = "LESS"         -> \E w \in Value(d.op2, in, o) : v < w

Combination(d, in, o) ==
    LET is(e) == Truthy(e, in, o, d.func = "AND")
    IN  CASE d.func = "AND" -> is(d.op1) /\ is(d.op2)
          [] d.func = "OR"  -> is(d.op1) \/ is(d.op2)
          [] d.func = "XOR" -> is(d.op1) # is(d.op2)

\* One pulse for an operand held between t1 and t2: when it drops, or, with
\* the immediate form, as soon as t1 is reached.
Edge(d, s, in, o) ==
    LET v1 == Truthy(d.op1, in, o, FALSE)
        rising == v1 /\ ~s.v1
        held == IF rising THEN 0 ELSE s.held
        fired == s.fired /\ ~rising
        long == ~fired /\ held >= d.t1
        early == v1 /\ d.until = "immediate" /\ long
        late == /\ ~v1 /\ s.v1 /\ long
                /\ d.until = "unbounded" \/ (d.until = "constant" /\ held <= d.t2)
    IN  Result(early \/ late,
               [s EXCEPT !.v1 = v1, !.held = IF v1 THEN held ELSE 0,
                         !.fired = v1 /\ (fired \/ early)])

Sticky(d, s, in, o) ==
    LET v1 == Truthy(d.op1, in, o, FALSE)
        v2 == Truthy(d.op2, in, o, FALSE)
        latched == (s.latched \/ (v1 /\ ~s.v1)) /\ ~(v2 /\ ~s.v2)
    IN  Result(latched, [s EXCEPT !.v1 = v1, !.v2 = v2, !.latched = latched])

Timer(d, s) ==
    LET ends == s.since >= (IF s.phase = "on" THEN d.t1 ELSE d.t2)
        phase == CASE s.phase = "none" -> "on"
                   [] s.phase # "none" /\ ~ends -> s.phase
                   [] s.phase = "on" /\ ends    -> "off"
                   [] s.phase = "off" /\ ends   -> "on"
    IN  Result(phase = "on",
               [s EXCEPT !.phase = phase,
                         !.since = IF phase = s.phase THEN s.since ELSE 0])

\* An operand that does not resolve leaves the baseline alone.
Difference(d, s, in, o) ==
    LET v == Value(d.op1, in, o)
        grown(a, b) == IF d.func = "ADIFFEGREATER" THEN Magnitude(b - a) ELSE b - a
    IN  Result(\E a \in s.prev, b \in v : grown(a, b) >= d.c,
               [s EXCEPT !.prev = IF v = {} THEN s.prev ELSE v])

Evaluate(d, s, in, o) ==
    CASE d.func \in Comparisons -> Result(Comparison(d, in, o), s)
      [] d.func \in {"AND", "OR", "XOR"} -> Result(Combination(d, in, o), s)
      [] d.func = "EDGE" -> Edge(d, s, in, o)
      [] d.func = "STICKY" -> Sticky(d, s, in, o)
      [] d.func = "TIMER" -> Timer(d, s)
      [] d.func \in {"DIFFEGREATER", "ADIFFEGREATER"} -> Difference(d, s, in, o)
      [] OTHER -> Result(FALSE, s)   \* unknown or ill-formed

Gated(d, on, in, o) ==
    on /\ (d.andsw.src = "none" \/ TRUE \in Bool(d.andsw, in, o))

Delayed(d, r) ==
    LET running == IF r.s.delay = {} THEN {0} ELSE r.s.delay
    IN  IF d.delay = 0 \/ ~r.on
        THEN Result(r.on, [r.s EXCEPT !.delay = {}])
        ELSE Result(\E a \in running : a >= d.delay, [r.s EXCEPT !.delay = running])

\* Mutant: the window closes without the lockout, so a condition that simply
\* stays true turns the switch on again on the next tick.
Limited_NoLockout(d, r) ==
    LET s == r.s
        over == \E a \in s.window : a >= d.duration
    IN  CASE d.duration = 0 -> Result(r.on, [s EXCEPT !.window = {}, !.locked = FALSE])
          [] d.duration # 0 /\ over -> Result(FALSE, [s EXCEPT !.window = {}])
          [] OTHER -> Result(r.on, [s EXCEPT !.window = IF ~r.on THEN {}
                                      ELSE IF s.window = {} THEN {0} ELSE s.window])

\* At most duration long, and after that not again before the input has dropped.
Limited(d, r) ==
    LET s == r.s
        over == \E a \in s.window : a >= d.duration
    IN  CASE d.duration = 0 -> Result(r.on, [s EXCEPT !.window = {}, !.locked = FALSE])
          [] d.duration # 0 /\ s.locked -> Result(FALSE, [s EXCEPT !.locked = r.on])
          [] d.duration # 0 /\ ~s.locked /\ over ->
                Result(FALSE, [s EXCEPT !.window = {}, !.locked = r.on])
          [] OTHER -> Result(r.on, [s EXCEPT !.window = IF ~r.on THEN {}
                                      ELSE IF s.window = {} THEN {0} ELSE s.window])

\* One switch: function, AND switch, delay, duration, all reading the outputs
\* of the previous tick.  What was asked for and what came out is kept with it.
Switched(d, s, in, dt) ==
    LET raw == Evaluate(d, Aged(s, dt), in, out)
        asked == Gated(d, raw.on, in, out)
        r == Limited(d, Delayed(d, Result(asked, raw.s)))
    IN  [r.s EXCEPT !.asked = asked, !.on = r.on]

----------------------------------------------------------------------------
(* Channels.  Both the mixes and the functions read the outputs of this    *)
(* tick, since the engine has swapped them in by then.                     *)

SafeDefault(c) == IF c \in {2, 4} THEN -100 ELSE 0

Contribution(mix, in, o) ==
    {Clamp((v * mix.weight) \div 100) : v \in Value(mix.src, in, o)}

\* Of several mixes to a channel the last that resolves counts.
Mixed(m, c, in, o) ==
    LET mixes == File[m].mixes
        live == {i \in DOMAIN mixes : /\ mixes[i].dest = c
                                      /\ Contribution(mixes[i], in, o) # {}}
    IN  IF live = {} THEN SafeDefault(c)
        ELSE CHOOSE v \in Contribution(mixes[Max(live)], in, o) : TRUE

Fires(f, in, o) == f.switch.src # "none" /\ TRUE \in Bool(f.switch, in, o)

\* Mutant: the overrides are computed before the mixes and then mixed over.
Resolve_MixLast(m, in, o) ==
    [c \in Channels |-> Mixed(m, c, in, o)]

Resolve(m, in, o) ==
    LET fs == File[m].functions
        forced(c) == {j \in DOMAIN fs : /\ fs[j].func = "OVERRIDE"
                                        /\ fs[j].enabled /\ fs[j].channel = c
                                        /\ Fires(fs[j], in, o)}
    IN  [c \in Channels |-> IF forced(c) = {} THEN Mixed(m, c, in, o)
                            ELSE fs[Max(forced(c))].value]

\* The channel the throttle stick is mixed to with most weight, lowest first.
ThrottleChannel(m) ==
    LET thr == {mix \in Range(File[m].mixes) : mix.src.src = "axis" /\ mix.src.of = "Thr"}
        heavy == {mix \in thr : \A other \in thr :
                                  Magnitude(other.weight) <= Magnitude(mix.weight)}
    IN  IF thr = {} THEN -1 ELSE Min({mix.dest : mix \in heavy})

LowLimit == -97          \* 200 of the CRSF range

IsLow(m, c) == ThrottleChannel(m) \in Channels /\ c[ThrottleChannel(m)] <= LowLimit

\* The sounds whose switch has just come on, in the order of the functions.
NewSounds(m, fires) ==
    LET fs == File[m].functions
        ringing == {j \in DOMAIN fs : /\ fs[j].func = "PLAY" /\ fires[j]
                                      /\ ~triggered[j]}
        order == CHOOSE q \in [1..Cardinality(ringing) -> ringing] :
                    \A a, b \in DOMAIN q : a < b => q[a] < q[b]
    IN  [i \in DOMAIN order |-> fs[order[i]].name]

----------------------------------------------------------------------------
(* Layout: what arm.cut and arm.announced say of a file, and what the       *)
(* throttle channel is made of.  The code takes any file; the properties of *)
(* the throttle and of the announcements are about files laid out like the  *)
(* ones it comes with.                                                      *)

UprightThrottle(e) == e.src = "axis" /\ e.of = "Thr" /\ e.not = FALSE /\ e.invert = FALSE
IsLogic(e, i, negated) == e.src = "logic" /\ e.arg = i /\ e.not = negated

\* The overrides of the throttle channel.
ThrottleOverrides(m) ==
    {j \in DOMAIN File[m].functions :
       LET f == File[m].functions[j]
       IN  f.func = "OVERRIDE" /\ f.enabled /\ f.channel = ThrottleChannel(m)}

LatchOf(m) == File[m].arm.latch
EdgeOf(m) == File[m].switches[LatchOf(m)].op1.arg
LowOf(m) == File[m].switches[EdgeOf(m)].andsw.arg

\* Stick low with the guard in place, button let go in its window while so, the
\* latch that follows, and an override that holds the throttle down without it.
ArmChain(m) ==
    LET sw == File[m].switches
        fs == File[m].functions
        arm == File[m].arm
    IN  /\ {LatchOf(m), EdgeOf(m), LowOf(m)} \subseteq DOMAIN sw
        /\ arm.button.src = "position" /\ arm.button.not = FALSE
        /\ arm.guard.src = "position" /\ arm.guard.not = FALSE
        /\ sw[LowOf(m)].func = "VNEG" /\ UprightThrottle(sw[LowOf(m)].op1)
        /\ sw[LowOf(m)].c = arm.below /\ arm.below \in -100..0
        /\ sw[LowOf(m)].andsw = arm.guard
        /\ sw[EdgeOf(m)].func = "EDGE" /\ sw[EdgeOf(m)].op1 = arm.button
        /\ sw[EdgeOf(m)].until = "constant"
        /\ sw[EdgeOf(m)].t1 = arm.t1 /\ sw[EdgeOf(m)].t2 = arm.t2
        /\ IsLogic(sw[EdgeOf(m)].andsw, LowOf(m), FALSE)
        /\ sw[LatchOf(m)].func = "STICKY" /\ IsLogic(sw[LatchOf(m)].op1, EdgeOf(m), FALSE)
        /\ sw[LatchOf(m)].andsw.src = "none"
        /\ sw[LatchOf(m)].delay = 0 /\ sw[LatchOf(m)].duration = 0
        /\ ThrottleChannel(m) \in Channels
        /\ \E j \in ThrottleOverrides(m) :
              /\ IsLogic(fs[j].switch, LatchOf(m), TRUE)
              /\ \A k \in ThrottleOverrides(m) : k >= j => fs[k].value = -100

\* Two sounds, one for the latch and one for its absence.
Announced(m) ==
    LET fs == File[m].functions
        says(j, word, negated) ==
            fs[j].func = "PLAY" /\ fs[j].name = word
              /\ IsLogic(fs[j].switch, LatchOf(m), negated)
    IN  /\ LatchOf(m) \in DOMAIN File[m].switches
        /\ \E a, d \in DOMAIN fs :
              /\ says(a, "armed", FALSE) /\ says(d, "disarm", TRUE)
              /\ \A j \in DOMAIN fs : fs[j].func = "PLAY" => j \in {a, d}

\* Only the upright stick is mixed to the throttle channel, and only the cut
\* overrides it with a low value.
PlainThrottle(m) ==
    LET mixes == File[m].mixes
        fs == File[m].functions
    IN  /\ \A i \in DOMAIN mixes :
              mixes[i].dest = ThrottleChannel(m) =>
                 UprightThrottle(mixes[i].src) /\ mixes[i].weight \in 0..100
        /\ \A j \in ThrottleOverrides(m) :
              fs[j].value <= LowLimit =>
                 File[m].arm.cut /\ IsLogic(fs[j].switch, LatchOf(m), TRUE)

ASSUME LayoutAssumption ==
    \A m \in Models : /\ PlainThrottle(m)
                      /\ File[m].arm.cut => ArmChain(m)
                      /\ File[m].arm.announced => Announced(m)

----------------------------------------------------------------------------
(* History.  The arm gesture of a model is in File[m].arm: the latch, the   *)
(* button with its window, the operands that make it count.                *)

NoGesture == [pressed |-> FALSE, held |-> 0, ready |-> FALSE, was |-> FALSE,
              made |-> FALSE, lost |-> FALSE, ticked |-> FALSE, low |-> FALSE,
              silent |-> FALSE]

\* Followed from the inputs alone: button down for t1..t2, and let go in a
\* tick before which the stick was low and the guard switch in place.
Gesture(m, in, dt, g, latch, lost) ==
    LET arm == File[m].arm
        down == AtPosition(arm.button, in)
        held == IF ~g.pressed THEN 0 ELSE Cap(g.held + dt)
        low == /\ in.axes["Thr"] # Gone
               /\ in.axes["Thr"] < arm.below
               /\ AtPosition(arm.guard, in)
        released == g.pressed /\ ~down /\ held >= arm.t1 /\ held <= arm.t2 /\ g.ready
    IN  [pressed |-> down, held |-> IF down THEN held ELSE 0, ready |-> low,
         was |-> released, made |-> latch /\ (g.made \/ g.was), lost |-> lost,
         ticked |-> TRUE, low |-> in.axes["Thr"] <= LowLimit,
         silent |-> in.axes["Thr"] = Gone]

----------------------------------------------------------------------------

Inputs == [axes : [{"Thr"} -> Sticks \cup {Gone}],
           panel : {p \in [DOMAIN Positions -> UNION {Positions[n] : n \in DOMAIN Positions}] :
                      \A n \in DOMAIN p : p[n] \in Positions[n]}]

\* BuildStack: every switch off, no function triggered.
NewStates(m) == IF m = NoModel THEN <<>> ELSE [i \in DOMAIN File[m].switches |-> Fresh]
Off(s) == [i \in DOMAIN s |-> FALSE]

\* Mutant: reloading a model keeps the processor it had.
NewTriggers_Kept(m) ==
    CASE m = NoModel -> <<>>
      [] m = model   -> triggered
      [] OTHER       -> Off(File[m].functions)

NewTriggers(m) == IF m = NoModel THEN <<>> ELSE Off(File[m].functions)

MixerInit ==
    /\ model \in Models
    /\ states = NewStates(model) /\ out = Off(states)
    /\ triggered = Off(File[model].functions)
    /\ ch = [c \in Channels |-> SafeDefault(c)]
    /\ toldLow = FALSE
    /\ sounds = <<>> /\ saying = {} /\ leaving = <<>>
    /\ heard = "nothing" /\ stray = {}
    /\ seen = NoGesture
    /\ stuck = {}

\* The 50 Hz loop with a stack: Mapper.Resolve, then the arm machine is told.
Tick(in, dt) ==
    /\ model # NoModel
    /\ LET defs == File[model].switches
           fs == File[model].functions
       IN  /\ states' = [i \in DOMAIN defs |-> Switched(defs[i], states[i], in, dt)]
           /\ out' = [i \in DOMAIN defs |-> states'[i].on]
           /\ triggered' = [j \in DOMAIN fs |-> Fires(fs[j], in, out')]
           /\ ch' = Resolve(model, in, out')
           /\ toldLow' = IsLow(model, ch')
           /\ LET ringing == sounds \o NewSounds(model, triggered')
              IN  /\ sounds' = SubSeq(ringing, 1, Min({QueueCap, Len(ringing)}))
                  /\ seen' = Gesture(model, in, dt, seen, out'[File[model].arm.latch],
                                     seen.lost \/ Len(ringing) > QueueCap)
           /\ stuck' = {i \in DOMAIN defs :
                          /\ defs[i].duration > 0 /\ states'[i].asked
                          /\ i \in stuck \/ (out[i] /\ ~out'[i])}
    /\ UNCHANGED <<model, saying, leaving, heard, stray>>

\* Without a stack the loop emits nothing.
IdleTick == model = NoModel /\ UNCHANGED mixerVars

\* drainAudio: take an event, then hand it to the player.
TakeSound ==
    /\ saying = {} /\ sounds # <<>>
    /\ saying' = {Head(sounds)}
    /\ sounds' = Tail(sounds)
    /\ UNCHANGED <<model, states, out, triggered, ch, toldLow, leaving, heard,
                   stray, seen, stuck>>

Say ==
    /\ \E name \in saying : heard' = name
    /\ saying' = {} /\ stray' = {}
    /\ UNCHANGED <<model, states, out, triggered, ch, toldLow, sounds, leaving,
                   seen, stuck>>

\* stackHolder.Store: a new stack, or none, replaces the old one, whose drain is
\* told to stop.  Between the two the old drain can do nothing it cannot do after,
\* so they are one step; others may store while the caller waits for the end.
Store(m) ==
    /\ Len(leaving) < MaxLeaving
    /\ model' = m
    /\ states' = NewStates(m) /\ out' = Off(states')
    /\ triggered' = NewTriggers(m)
    /\ sounds' = <<>> /\ saying' = {}
    /\ leaving' = IF model = NoModel THEN leaving
                  ELSE Append(leaving, [sounds |-> sounds, saying |-> saying])
    /\ heard' = "nothing" /\ stray' = {}
    /\ seen' = NoGesture
    /\ stuck' = {}
    /\ UNCHANGED <<ch, toldLow>>

\* A drain that has been stopped hands over the event it has, and with more in
\* the channel its select may take either case: the next event, or the end.
TakeLate(d) ==
    /\ leaving[d].saying = {} /\ leaving[d].sounds # <<>>
    /\ leaving' = [leaving EXCEPT ![d] = [sounds |-> Tail(@.sounds),
                                         saying |-> {Head(@.sounds)}]]
    /\ UNCHANGED <<model, states, out, triggered, ch, toldLow, sounds, saying,
                   heard, stray, seen, stuck>>

SayLate(d) ==
    /\ leaving[d].saying # {}
    /\ stray' = leaving[d].saying
    /\ leaving' = [leaving EXCEPT ![d].saying = {}]
    /\ UNCHANGED <<model, states, out, triggered, ch, toldLow, sounds, saying,
                   heard, seen, stuck>>

Retire(d) ==
    /\ leaving[d].saying = {}
    /\ leaving' = RemoveAt(leaving, d)
    /\ UNCHANGED <<model, states, out, triggered, ch, toldLow, sounds, saying,
                   heard, stray, seen, stuck>>

OldDrains == \E d \in DOMAIN leaving : TakeLate(d) \/ SayLate(d) \/ Retire(d)

MixerNext ==
    \/ \E in \in Inputs, dt \in Lateness : Tick(in, dt)
    \/ IdleTick
    \/ TakeSound
    \/ Say
    \/ OldDrains
    \/ \E m \in Models \cup {NoModel} : Store(m)

MixerSpec == MixerInit /\ [][MixerNext]_mixerVars

----------------------------------------------------------------------------

Running == model # NoModel /\ seen.ticked

\* The motors turn only with the arm latch, and the latch only after its own
\* gesture: the button held within its window and let go, the stick low and the
\* guard switch in place just before.  The chain VNEG, EDGE with AND switch,
\* STICKY, override is four switches deep, each a tick behind the next, and must
\* hold with the joystick gone and with ticks that come late.
MotorsNeedGesture ==
    Running /\ File[model].arm.cut =>
       (ch[ThrottleChannel(model)] > -100 => out[File[model].arm.latch] /\ seen.made)

\* A switch with a duration that has run out does not come on again before its
\* condition has been seen false, whatever the delay and the AND switch do
\* (modifiers.go:28-32, the lockout).
WindowsAreApart ==
    [][\A i \in stuck \cap stuck' : ~out'[i]]_mixerVars

\* When the active stack's announcements of its arm latch have been spoken and none
\* was lost on a full queue, the last one it had spoken is what the latch is, across
\* swaps to another model, to none and back to the same (cf.go:148-197: the first
\* tick of a new stack announces).  It is also the last one the player got, but for
\* a stray one from the drain of a replaced stack.
LastWordIsLatch ==
    (/\ Running /\ ~seen.lost /\ File[model].arm.announced
     /\ sounds = <<>> /\ saying = {})
    => heard = IF out[File[model].arm.latch] THEN "armed" ELSE "disarm"

\* "drainAudio forwards events [...] until Stop is called" (stack.go:86-87), and
\* Store "stops the previous one's audio drain" (stack.go:138-139): once a replaced
\* stack's drain has been told to stop, and even more when it has ended, the player
\* does not hear from it an announcement that contradicts the active latch.
NoLateWord ==
    (/\ Running /\ ~seen.lost /\ File[model].arm.announced
     /\ sounds = <<>> /\ saying = {} /\ leaving = <<>>)
    => stray \subseteq {IF out[File[model].arm.latch] THEN "armed" ELSE "disarm"}

\* The arm machine is told that the throttle is low only if the stick is, if the
\* latch holds the motors off (main.go:1396-1401; the channel is read after the
\* overrides, so the stick itself may then be anywhere), or if there is no stick
\* and the channel is one that rests at its minimum (mapper.go:52-60, AETR).  No
\* other layout of the model makes a silent joystick a low throttle.
GateIsStickOrCut ==
    Running /\ toldLow =>
       \/ seen.low
       \/ File[model].arm.cut /\ ~out[File[model].arm.latch]
       \/ seen.silent /\ SafeDefault(ThrottleChannel(model)) <= LowLimit

\* The throttle channel tells the truth to the motors and to the arm machine: the
\* two parts above.
ThrottleIsTrue == MotorsNeedGesture /\ GateIsStickOrCut
=============================================================================
