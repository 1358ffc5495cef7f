----------------------------- MODULE MixerProofs -----------------------------
(***************************************************************************)
(* The three properties of the mixer, for every set of model files that is *)
(* laid out as LayoutAssumption says, every delay, duration and lateness   *)
(* of a tick.                                                              *)
(*                                                                         *)
(*   StackInv     timing of one switch: an output needs a delay that is    *)
(*                over, and an expired window is locked;                   *)
(*   ThrottleInv  the switches of the arm chain are as far as the gesture  *)
(*                that is followed from the inputs alone;                  *)
(*   SoundInv     the announcers were last heard of as the latch is.       *)
(*                                                                         *)
(* Lemmas about one operator come first, then what a tick does to one      *)
(* switch, to the throttle channel and to the queue of sounds.             *)
(***************************************************************************)
EXTENDS Mixer, FiniteSetTheorems, SequenceTheorems, WellFoundedInduction, TLAPS


\* A switch state, by its fields.
IsState(s) ==
    s = [v1 |-> s.v1, v2 |-> s.v2, latched |-> s.latched, held |-> s.held, fired |-> s.fired,
         phase |-> s.phase, since |-> s.since, prev |-> s.prev, delay |-> s.delay,
         window |-> s.window, locked |-> s.locked, asked |-> s.asked, on |-> s.on]

Same(s, t) == t.delay = s.delay /\ t.window = s.window /\ t.locked = s.locked

LEMMA ResultFacts ==
  ASSUME NEW b, NEW s
  PROVE  Result(b, s).on = b /\ Result(b, s).s = s
BY DEF Result

LEMMA AgedFacts ==
  ASSUME NEW s, IsState(s), NEW dt
  PROVE  /\ IsState(Aged(s, dt))
         /\ Aged(s, dt).delay = {Cap(a + dt) : a \in s.delay}
         /\ Aged(s, dt).locked = s.locked
         /\ Aged(s, dt).latched = s.latched /\ Aged(s, dt).v1 = s.v1
         /\ Aged(s, dt).fired = s.fired
         /\ Aged(s, dt).held = IF s.v1 THEN Cap(s.held + dt) ELSE s.held
<1> DEFINE h == IF s.v1 THEN Cap(s.held + dt) ELSE s.held
           n == IF s.phase = "none" THEN s.since ELSE Cap(s.since + dt)
           e == {Cap(a + dt) : a \in s.delay}
           w == {Cap(a + dt) : a \in s.window}
<1>1. Aged(s, dt) = [s EXCEPT !.held = h, !.since = n, !.delay = e, !.window = w]
  BY Zenon DEF Aged
<1> HIDE DEF h, n, e, w
<1> DEFINE s1 == [s EXCEPT !.held = h]
           s2 == [s1 EXCEPT !.since = n]
           s3 == [s2 EXCEPT !.delay = e]
           s4 == [s3 EXCEPT !.window = w]
<1>2. Aged(s, dt) = s4
  BY <1>1, Zenon
<1>3. IsState(s1) /\ s1.held = h /\ s1.delay = s.delay /\ s1.locked = s.locked
      /\ s1.latched = s.latched /\ s1.v1 = s.v1 /\ s1.fired = s.fired
  BY DEF IsState
<1> HIDE DEF s1
<1>4. IsState(s2) /\ s2.held = h /\ s2.delay = s.delay /\ s2.locked = s.locked
      /\ s2.latched = s.latched /\ s2.v1 = s.v1 /\ s2.fired = s.fired
  BY <1>3 DEF IsState
<1> HIDE DEF s2
<1>5. IsState(s3) /\ s3.held = h /\ s3.delay = e /\ s3.locked = s.locked
      /\ s3.latched = s.latched /\ s3.v1 = s.v1 /\ s3.fired = s.fired
  BY <1>4 DEF IsState
<1> HIDE DEF s3
<1>6. IsState(s4) /\ s4.held = h /\ s4.delay = e /\ s4.locked = s.locked
      /\ s4.latched = s.latched /\ s4.v1 = s.v1 /\ s4.fired = s.fired
  BY <1>5 DEF IsState
<1> HIDE DEF s4
<1>7. QED BY <1>2, <1>6 DEF h, e

LEMMA EdgeFacts ==
  ASSUME NEW d, NEW s, IsState(s), NEW in, NEW o
  PROVE  IsState(Edge(d, s, in, o).s) /\ Same(s, Edge(d, s, in, o).s) 
<1> DEFINE v1 == Truthy(d.op1, in, o, FALSE)
        rising == v1 /\ ~s.v1
        held == IF rising THEN 0 ELSE s.held
        fired == s.fired /\ ~rising
        long == ~fired /\ held >= d.t1
        early == v1 /\ d.until = "immediate" /\ long
        h == IF v1 THEN held ELSE 0
        f == v1 /\ (fired \/ early)
<1>1. Edge(d, s, in, o).s = [s EXCEPT !.v1 = v1, !.held = h, !.fired = f]
  BY Zenon DEF Edge, Result
<1> HIDE DEF v1, h, f
<1>2. QED BY <1>1 DEF IsState, Same

LEMMA StickyFacts ==
  ASSUME NEW d, NEW s, IsState(s), NEW in, NEW o
  PROVE  IsState(Sticky(d, s, in, o).s) /\ Same(s, Sticky(d, s, in, o).s)
<1> DEFINE v1 == Truthy(d.op1, in, o, FALSE)
           v2 == Truthy(d.op2, in, o, FALSE)
           latched == (s.latched \/ (v1 /\ ~s.v1)) /\ ~(v2 /\ ~s.v2)
<1>1. Sticky(d, s, in, o).s = [s EXCEPT !.v1 = v1, !.v2 = v2, !.latched = latched]
  BY DEF Sticky, Result
<1> HIDE DEF v1, v2, latched
<1>2. QED BY <1>1 DEF IsState, Same

LEMMA TimerFacts ==
  ASSUME NEW d, NEW s, IsState(s)
  PROVE  IsState(Timer(d, s).s) /\ Same(s, Timer(d, s).s)
<1>1. PICK p, n : Timer(d, s).s = [s EXCEPT !.phase = p, !.since = n]
  BY DEF Timer, Result
<1>2. QED BY <1>1 DEF IsState, Same

LEMMA DifferenceFacts ==
  ASSUME NEW d, NEW s, IsState(s), NEW in, NEW o
  PROVE  IsState(Difference(d, s, in, o).s) /\ Same(s, Difference(d, s, in, o).s)
<1>1. PICK p : Difference(d, s, in, o).s = [s EXCEPT !.prev = p]
  BY DEF Difference, Result
<1>2. QED BY <1>1 DEF IsState, Same

\* Evaluating a function leaves the timing of the switch alone.
LEMMA EvaluateFacts ==
  ASSUME NEW d, NEW s, IsState(s), NEW in, NEW o
  PROVE  IsState(Evaluate(d, s, in, o).s) /\ Same(s, Evaluate(d, s, in, o).s)
<1>1. CASE d.func = "EDGE"
  BY <1>1, EdgeFacts DEF Evaluate, Comparisons
<1>2. CASE d.func = "STICKY"
  BY <1>2, StickyFacts DEF Evaluate, Comparisons
<1>3. CASE d.func = "TIMER"
  BY <1>3, TimerFacts DEF Evaluate, Comparisons
<1>4. CASE d.func \in {"DIFFEGREATER", "ADIFFEGREATER"}
  BY <1>4, DifferenceFacts DEF Evaluate, Comparisons
<1>5. CASE d.func \in Comparisons
  <2>1. Evaluate(d, s, in, o) = Result(Comparison(d, in, o), s)
    BY <1>5 DEF Evaluate, Comparisons
  <2>2. QED BY <2>1, ResultFacts DEF Same
<1>6. CASE d.func \in {"AND", "OR", "XOR"}
  <2>1. Evaluate(d, s, in, o) = Result(Combination(d, in, o), s)
    BY <1>6 DEF Evaluate, Comparisons
  <2>2. QED BY <2>1, ResultFacts DEF Same
<1>7. CASE d.func \notin Comparisons /\ d.func \notin {"AND", "OR", "XOR", "EDGE", "STICKY", "TIMER", "DIFFEGREATER", "ADIFFEGREATER"}
  <2>1. Evaluate(d, s, in, o) = Result(FALSE, s)
    BY <1>7 DEF Evaluate
  <2>2. Evaluate(d, s, in, o).s = s
    BY <2>1 DEF Result
  <2>3. QED BY <2>2 DEF Same
<1>8. QED BY <1>1, <1>2, <1>3, <1>4, <1>5, <1>6, <1>7

\* The delay of a switch is over.
Ripe(d, s) == d.delay = 0 \/ \E a \in s.delay : a >= d.delay

DelayDoes(d, s, b, r) ==
    /\ IsState(r.s) /\ r.s.window = s.window /\ r.s.locked = s.locked
    /\ r.s.v1 = s.v1 /\ r.s.held = s.held /\ r.s.fired = s.fired /\ r.s.latched = s.latched
    /\ r.on <=> b /\ Ripe(d, r.s)
    /\ r.s.delay \in {{}, {0}, s.delay}
    /\ b /\ Ripe(d, s) => Ripe(d, r.s)
    /\ r = Result(r.on, r.s) /\ r.on \in BOOLEAN

LEMMA DelayedFacts ==
  ASSUME NEW d, NEW s, IsState(s), NEW b \in BOOLEAN, NEW r, r = Delayed(d, Result(b, s))
  PROVE  DelayDoes(d, s, b, r)
<1> DEFINE running == IF s.delay = {} THEN {0} ELSE s.delay
<1>1. CASE d.delay = 0 \/ ~b
  <2>1. r = Result(b, [s EXCEPT !.delay = {}])
    BY <1>1 DEF Delayed, Result
  <2>2. r.s = [s EXCEPT !.delay = {}] /\ r.on = b
    BY <2>1 DEF Result
  <2>3. IsState(r.s) /\ r.s.window = s.window /\ r.s.locked = s.locked /\ r.s.delay = {}
        /\ r.s.v1 = s.v1 /\ r.s.held = s.held /\ r.s.fired = s.fired /\ r.s.latched = s.latched
    BY <2>2 DEF IsState
  <2>4. r = Result(r.on, r.s) /\ r.on \in BOOLEAN
    <3>1. r.on \in BOOLEAN
      BY <2>2
    <3>2. r = Result(r.on, r.s)
      <4> DEFINE x == [s EXCEPT !.delay = {}]
      <4>1. r = Result(b, x) /\ r.s = x /\ r.on = b
        BY <2>1, <2>2
      <4> HIDE DEF x
      <4>2. Result(r.on, r.s) = Result(b, x)
        BY <4>1, Zenon
      <4>3. QED BY <4>1, <4>2, Zenon
    <3>3. QED BY <3>1, <3>2, Zenon
  <2>5. r.on <=> b /\ Ripe(d, r.s)
    BY <1>1, <2>2 DEF Ripe
  <2>6. b /\ Ripe(d, s) => Ripe(d, r.s)
    BY <1>1 DEF Ripe
  <2>7. r.s.delay \in {{}, {0}, s.delay}
    BY <2>3
  <2>8. QED BY <2>3, <2>4, <2>5, <2>6, <2>7 DEF DelayDoes
<1>2. CASE d.delay # 0 /\ b
  <2>1. r = Result(\E a \in running : a >= d.delay, [s EXCEPT !.delay = running])
    BY <1>2 DEF Delayed, Result
  <2>2. r.s = [s EXCEPT !.delay = running] /\ (r.on <=> \E a \in running : a >= d.delay)
    BY <2>1 DEF Result
  <2> HIDE DEF running
  <2>3. IsState(r.s) /\ r.s.window = s.window /\ r.s.locked = s.locked /\ r.s.delay = running
        /\ r.s.v1 = s.v1 /\ r.s.held = s.held /\ r.s.fired = s.fired /\ r.s.latched = s.latched
    BY <2>2 DEF IsState
  <2>4. running = s.delay \/ (s.delay = {} /\ running = {0})
    BY DEF running
  <2>5. r = Result(r.on, r.s) /\ r.on \in BOOLEAN
    <3> DEFINE y == \E a \in running : a >= d.delay
               x == [s EXCEPT !.delay = running]
    <3>1. y \in BOOLEAN
      OBVIOUS
    <3>2. r = Result(y, x)
      BY <2>1
    <3> HIDE DEF x, y
    <3>3. r.s = x /\ r.on = y
      BY <3>2 DEF Result
    <3>4. Result(r.on, r.s) = Result(y, x)
      BY <3>3, Zenon
    <3>5. r = Result(r.on, r.s)
      BY <3>2, <3>4, Zenon
    <3>6. r.on \in BOOLEAN
      BY <3>1, <3>3, Zenon
    <3>7. QED BY <3>5, <3>6, Zenon
  <2>6. r.on <=> b /\ Ripe(d, r.s)
    BY <1>2, <2>2, <2>3 DEF Ripe
  <2>7. r.s.delay \in {{}, {0}, s.delay} /\ (b /\ Ripe(d, s) => Ripe(d, r.s))
    BY <1>2, <2>3, <2>4 DEF Ripe
  <2>8. QED BY <2>3, <2>5, <2>6, <2>7 DEF DelayDoes
<1>3. QED BY <1>1, <1>2

LimitDoes(d, s, b, r) ==
    /\ IsState(r.s) /\ r.s.delay = s.delay
    /\ r.s.v1 = s.v1 /\ r.s.held = s.held /\ r.s.fired = s.fired /\ r.s.latched = s.latched
    /\ r.on => b
    /\ d.duration = 0 => (r.on <=> b)
    /\ d.duration # 0 /\ b /\ (s.locked = TRUE \/ ~r.on) => ~r.on /\ r.s.locked = TRUE

LEMMA LimitedFacts ==
  ASSUME NEW d, NEW s, IsState(s), NEW b \in BOOLEAN, NEW r, r = Limited(d, Result(b, s))
  PROVE  LimitDoes(d, s, b, r)
<1> DEFINE over == \E a \in s.window : a >= d.duration
           opened == IF ~b THEN {} ELSE IF s.window = {} THEN {0} ELSE s.window
<1>0. Result(b, s).s = s /\ Result(b, s).on = b
  BY DEF Result
<1>1. CASE d.duration = 0
  <2>1. r = Result(b, [s EXCEPT !.window = {}, !.locked = FALSE])
    BY <1>0, <1>1 DEF Limited
  <2>2. r.s = [s EXCEPT !.window = {}, !.locked = FALSE] /\ r.on = b
    BY <2>1 DEF Result
  <2>3. QED BY <1>1, <2>2 DEF IsState, LimitDoes
<1>2. CASE d.duration # 0 /\ s.locked
  <2>1. r = Result(FALSE, [s EXCEPT !.locked = b])
    BY <1>0, <1>2 DEF Limited
  <2>2. r.s = [s EXCEPT !.locked = b] /\ r.on = FALSE
    BY <2>1 DEF Result
  <2>3. QED BY <1>2, <2>2 DEF IsState, LimitDoes
<1>3. CASE d.duration # 0 /\ ~s.locked /\ over
  <2>1. r = Result(FALSE, [s EXCEPT !.window = {}, !.locked = b])
    BY <1>0, <1>3 DEF Limited
  <2>2. r.s = [s EXCEPT !.window = {}, !.locked = b] /\ r.on = FALSE
    BY <2>1 DEF Result
  <2>3. QED BY <1>3, <2>2 DEF IsState, LimitDoes
<1>4. CASE d.duration # 0 /\ ~s.locked /\ ~over
  <2>1. r = Result(b, [s EXCEPT !.window = opened])
    BY <1>0, <1>4 DEF Limited
  <2>2. r.s = [s EXCEPT !.window = opened] /\ r.on = b
    BY <2>1 DEF Result
  <2> HIDE DEF opened
  <2>3. QED BY <1>4, <2>2 DEF IsState, LimitDoes
<1>5. QED BY <1>1, <1>2, <1>3, <1>4

LEMMA CapFacts ==
  ASSUME NEW a \in 0..AgeCap, NEW dt \in Nat
  PROVE  Cap(a + dt) \in 0..AgeCap /\ Cap(a + dt) >= a
BY MixerAssumption DEF Cap

\* What a tick makes of a switch whose function gives e.
SwitchDoes(d, s, t, e, in) ==
    /\ IsState(t) /\ t.delay \subseteq 0..AgeCap
    /\ t.v1 = e.s.v1 /\ t.held = e.s.held /\ t.fired = e.s.fired /\ t.latched = e.s.latched
    /\ t.asked <=> Gated(d, e.on, in, out)
    /\ t.on => t.asked /\ Ripe(d, t)
    /\ d.delay = 0 /\ d.duration = 0 => (t.on <=> t.asked)
    /\ d.duration # 0 /\ Ripe(d, s) /\ t.asked /\ (s.locked = TRUE \/ ~t.on)
          => ~t.on /\ t.locked = TRUE /\ Ripe(d, t)

\* One switch in one tick: what its timing does to what its function gives.
LEMMA SwitchedFacts ==
  ASSUME NEW d, d.delay \in Nat, NEW s, IsState(s), s.delay \subseteq 0..AgeCap, NEW in, NEW dt \in Nat,
         NEW t, t = Switched(d, s, in, dt)
  PROVE  SwitchDoes(d, s, t, Evaluate(d, Aged(s, dt), in, out), in)
<1> DEFINE g == Aged(s, dt)
           e == Evaluate(d, g, in, out)
           b == Gated(d, e.on, in, out)
           r == Delayed(d, Result(b, e.s))
           l == Limited(d, Result(r.on, r.s))
<1>1. /\ IsState(g) /\ g.delay = {Cap(a + dt) : a \in s.delay} /\ g.locked = s.locked
  BY AgedFacts
<1>2. IsState(e.s) /\ Same(g, e.s)
  BY <1>1, EvaluateFacts
<1>3. b \in BOOLEAN
  BY DEF Gated
<1>4. /\ IsState(r.s) /\ r.s.window = e.s.window /\ r.s.locked = e.s.locked
      /\ r.s.v1 = e.s.v1 /\ r.s.held = e.s.held /\ r.s.fired = e.s.fired /\ r.s.latched = e.s.latched
      /\ r.on <=> b /\ Ripe(d, r.s)
      /\ r.s.delay \in {{}, {0}, e.s.delay}
      /\ b /\ Ripe(d, e.s) => Ripe(d, r.s)
      /\ r = Result(r.on, r.s) /\ r.on \in BOOLEAN
  <2>1. r = Delayed(d, Result(b, e.s))
    OBVIOUS
  <2> HIDE DEF b, e, r
  <2>2. DelayDoes(d, e.s, b, r)
    BY <1>2, <1>3, <2>1, DelayedFacts, Zenon
  <2>3. QED BY <2>2 DEF DelayDoes
<1>5. l = Limited(d, Result(r.on, r.s)) /\ r = Result(r.on, r.s) /\ r.on \in BOOLEAN
  BY <1>4
<1>6. t = [l.s EXCEPT !.asked = b, !.on = l.on]
  BY <1>5 DEF Switched
<1>7. /\ IsState(l.s) /\ l.s.delay = r.s.delay
      /\ l.s.v1 = r.s.v1 /\ l.s.held = r.s.held /\ l.s.fired = r.s.fired /\ l.s.latched = r.s.latched
      /\ l.on => r.on
      /\ d.duration = 0 => (l.on <=> r.on)
      /\ d.duration # 0 /\ r.on /\ (r.s.locked = TRUE \/ ~l.on) => ~l.on /\ l.s.locked = TRUE
  <2> HIDE DEF r, l
  <2>1. LimitDoes(d, r.s, r.on, l)
    BY <1>4, <1>5, LimitedFacts, Zenon
  <2>2. QED BY <2>1 DEF LimitDoes
<1> HIDE DEF g, e, b, r, l
<1>8. /\ IsState(t) /\ t.delay = l.s.delay /\ t.locked = l.s.locked
      /\ t.v1 = l.s.v1 /\ t.held = l.s.held /\ t.fired = l.s.fired /\ t.latched = l.s.latched
      /\ t.asked = b /\ t.on = l.on
  BY <1>6, <1>7 DEF IsState
<1>9. t.delay = r.s.delay /\ (t.delay = {} \/ t.delay = {0} \/ t.delay = g.delay)
  BY <1>2, <1>4, <1>7, <1>8 DEF Same
<1>10. g.delay \subseteq 0..AgeCap /\ (Ripe(d, s) => Ripe(d, g))
  <2>1. \A a \in s.delay : Cap(a + dt) \in 0..AgeCap /\ Cap(a + dt) >= a
    BY CapFacts
  <2>2. ASSUME NEW a \in s.delay, a >= d.delay PROVE \E x \in g.delay : x >= d.delay
    <3>1. Cap(a + dt) \in g.delay /\ Cap(a + dt) >= d.delay
      <4>1. a \in 0..AgeCap /\ Cap(a + dt) \in 0..AgeCap /\ Cap(a + dt) >= a
        BY <2>1
      <4>2. Cap(a + dt) >= d.delay
        <5> DEFINE x == Cap(a + dt)
        <5>1. x \in Int /\ a \in Int /\ x >= a
          BY <4>1
        <5> HIDE DEF x
        <5>2. x >= d.delay
          BY <2>2, <5>1
        <5>3. QED BY <5>2 DEF x
      <4>3. QED BY <1>1, <4>2
    <3>2. QED BY <3>1
  <2>3. QED BY <1>1, <2>1, <2>2 DEF Ripe
<1>11. t.delay \subseteq 0..AgeCap
  BY <1>9, <1>10, MixerAssumption
<1>12. Ripe(d, r.s) <=> Ripe(d, t)
  BY <1>9 DEF Ripe
<1>13. Ripe(d, s) /\ b => Ripe(d, r.s)
  BY <1>2, <1>4, <1>10 DEF Ripe, Same
<1>14. r.on <=> b /\ Ripe(d, r.s)
  BY <1>4
<1>15. (t.asked <=> b) /\ (t.on <=> l.on) /\ (l.on => r.on)
  BY <1>7, <1>8
<1>16. t.on => t.asked /\ Ripe(d, t)
  BY <1>12, <1>14, <1>15
<1>17. d.delay = 0 /\ d.duration = 0 => (t.on <=> t.asked)
  BY <1>7, <1>14, <1>15 DEF Ripe
<1>18. ASSUME d.duration # 0, Ripe(d, s), t.asked, s.locked = TRUE \/ ~t.on
       PROVE  ~t.on /\ t.locked = TRUE /\ Ripe(d, t)
  <2>1. r.on /\ Ripe(d, t)
    BY <1>12, <1>13, <1>14, <1>15, <1>18
  <2>2. r.s.locked = s.locked
    BY <1>1, <1>2, <1>4 DEF Same
  <2>3. ~l.on /\ l.s.locked = TRUE
    BY <1>7, <1>15, <1>18, <2>1, <2>2
  <2>4. QED BY <1>8, <1>15, <2>1, <2>3
<1>19. t.v1 = e.s.v1 /\ t.held = e.s.held /\ t.fired = e.s.fired /\ t.latched = e.s.latched
  BY <1>4, <1>7, <1>8
<1>20. QED BY <1>8, <1>11, <1>15, <1>16, <1>17, <1>18, <1>19 DEF SwitchDoes, g, e, b

-----------------------------------------------------------------------------

\* The state of one switch, by its definition.
SwitchInv(d, s) == IsState(s) /\ s.delay \subseteq 0..AgeCap /\ (s.on => Ripe(d, s))

\* A window that is over is locked, and its delay is not in the way.
Locked(d, s) == d.duration # 0 /\ ~s.on /\ s.locked = TRUE /\ Ripe(d, s)

Defs == File[model].switches

StackInv ==
    /\ model \in Models \cup {NoModel}
    /\ model = NoModel => stuck = {}
    /\ model # NoModel =>
          /\ states = [i \in DOMAIN Defs |-> states[i]]
          /\ out = [i \in DOMAIN Defs |-> states[i].on]
          /\ \A i \in DOMAIN Defs : SwitchInv(Defs[i], states[i])
          /\ stuck \subseteq DOMAIN Defs /\ \A i \in stuck : Locked(Defs[i], states[i])

LEMMA FreshFacts == \A d : SwitchInv(d, Fresh) /\ Fresh.on = FALSE
BY DEF SwitchInv, IsState, Fresh

LEMMA StackStarts ==
  ASSUME model \in Models \cup {NoModel}, states = NewStates(model), out = Off(states), stuck = {}
  PROVE  StackInv
<1>1. CASE model = NoModel
  BY <1>1 DEF StackInv
<1>2. CASE model # NoModel
  <2>1. states = [i \in DOMAIN Defs |-> Fresh]
    BY <1>2 DEF NewStates, Defs
  <2>2. out = [i \in DOMAIN Defs |-> FALSE]
    BY <2>1 DEF Off
  <2>3. states = [i \in DOMAIN Defs |-> states[i]]
    BY <2>1
  <2>4. out = [i \in DOMAIN Defs |-> states[i].on]
    BY <2>1, <2>2, FreshFacts
  <2>5. QED BY <1>2, <2>1, <2>3, <2>4, FreshFacts DEF StackInv
<1>3. QED BY <1>1, <1>2

LEMMA StackTicks ==
  ASSUME StackInv, NEW in, NEW dt \in Lateness, Tick(in, dt)
  PROVE  StackInv' /\ \A i \in stuck' : ~out'[i]
<1>1. /\ model \in Models /\ model # NoModel /\ model' = model
      /\ states' = [i \in DOMAIN Defs |-> Switched(Defs[i], states[i], in, dt)]
      /\ out' = [i \in DOMAIN Defs |-> states'[i].on]
      /\ stuck' = {i \in DOMAIN Defs : /\ Defs[i].duration > 0 /\ states'[i].asked
                                       /\ i \in stuck \/ (out[i] /\ ~out'[i])}
  BY DEF Tick, StackInv, Defs
<1>2. Defs' = Defs
  BY <1>1 DEF Defs
<1>3. ASSUME NEW i \in DOMAIN Defs
      PROVE  /\ SwitchInv(Defs[i], states'[i])
             /\ Defs[i].duration # 0 /\ Ripe(Defs[i], states[i]) /\ states'[i].asked
                  /\ (states[i].locked = TRUE \/ ~states'[i].on) => Locked(Defs[i], states'[i])
  <2>1. Defs[i].delay \in Nat /\ dt \in Nat
    BY <1>1, FilesAssumption, MixerAssumption DEF Defs
  <2>2. IsState(states[i]) /\ states[i].delay \subseteq 0..AgeCap
    BY <1>1 DEF StackInv, SwitchInv
  <2>3. states'[i] = Switched(Defs[i], states[i], in, dt)
    BY <1>1
  <2>4. SwitchDoes(Defs[i], states[i], states'[i], Evaluate(Defs[i], Aged(states[i], dt), in, out), in)
    BY <2>1, <2>2, <2>3, SwitchedFacts, Zenon
  <2>5. QED BY <2>4 DEF SwitchDoes, SwitchInv, Locked
<1>4. ASSUME NEW i \in stuck' PROVE i \in DOMAIN Defs /\ Locked(Defs[i], states'[i])
  <2>1. i \in DOMAIN Defs /\ Defs[i].duration # 0 /\ states'[i].asked
    BY <1>1
  <2>2. CASE i \in stuck
    BY <1>1, <1>3, <2>1, <2>2 DEF StackInv, Locked
  <2>3. CASE out[i] /\ ~out'[i]
    <3>1. out[i] = states[i].on /\ out'[i] = states'[i].on
      BY <1>1, <2>1 DEF StackInv
    <3>2. Ripe(Defs[i], states[i])
      BY <1>1, <2>1, <2>3, <3>1 DEF StackInv, SwitchInv
    <3>3. QED BY <1>3, <2>1, <2>3, <3>1, <3>2
  <2>4. QED BY <1>1, <2>2, <2>3
<1>5. states' = [i \in DOMAIN Defs |-> states'[i]]
  BY <1>1
<1>6. StackInv'
  BY <1>1, <1>2, <1>3, <1>4, <1>5 DEF StackInv
<1>7. ASSUME NEW i \in stuck' PROVE ~out'[i]
  BY <1>1, <1>4 DEF Locked
<1>8. QED BY <1>6, <1>7



LEMMA StackInvHolds == MixerSpec => []StackInv
<1>1. MixerInit => StackInv
  <2>1. ASSUME MixerInit PROVE model \in Models \cup {NoModel} /\ states = NewStates(model) /\ out = Off(states) /\ stuck = {}
    BY <2>1 DEF MixerInit
  <2>2. QED BY <2>1, StackStarts
<1>2. StackInv /\ [MixerNext]_mixerVars => StackInv'
  <2> SUFFICES ASSUME StackInv, [MixerNext]_mixerVars PROVE StackInv'
    OBVIOUS
  <2>1. ASSUME NEW in \in Inputs, NEW dt \in Lateness, Tick(in, dt) PROVE StackInv'
    BY <2>1, StackTicks
  <2>2. ASSUME UNCHANGED <<model, states, out, stuck>> PROVE StackInv'
    BY <2>2 DEF StackInv, Defs
  <2>3. ASSUME NEW m \in Models \cup {NoModel}, Store(m) PROVE StackInv'
    <3>1. model' = m /\ states' = NewStates(m) /\ out' = Off(states') /\ stuck' = {}
      BY <2>3 DEF Store
    <3>2. CASE m = NoModel
      BY <3>1, <3>2 DEF StackInv
    <3>3. CASE m # NoModel
      <4>1. Defs' = File[m].switches
        BY <3>1 DEF Defs
      <4> DEFINE D == File[m].switches
      <4>2. states' = [i \in DOMAIN D |-> Fresh]
        BY <3>1, <3>3 DEF NewStates
      <4>3. out' = [i \in DOMAIN D |-> FALSE]
        BY <3>1, <4>2 DEF Off
      <4>4. states' = [i \in DOMAIN D |-> states'[i]]
        BY <4>2
      <4>5. out' = [i \in DOMAIN D |-> states'[i].on]
        BY <4>2, <4>3, FreshFacts
      <4> HIDE DEF D
      <4>6. \A i \in DOMAIN D : SwitchInv(D[i], states'[i])
        BY <4>2, FreshFacts
      <4>7. Defs' = D
        BY <4>1 DEF D
      <4>8. QED BY <3>1, <3>3, <4>4, <4>5, <4>6, <4>7 DEF StackInv
    <3>4. QED BY <3>2, <3>3
  <2>4. CASE UNCHANGED mixerVars
    BY <2>2, <2>4 DEF mixerVars
  <2>5. CASE IdleTick \/ TakeSound \/ Say \/ OldDrains
    BY <2>2, <2>5 DEF IdleTick, TakeSound, Say, OldDrains, TakeLate, SayLate, Retire,
               mixerVars
  <2>6. QED BY <2>1, <2>3, <2>4, <2>5 DEF MixerNext
<1>3. QED BY <1>1, <1>2, PTL DEF MixerSpec

\* A switch whose duration has run out stays off until its condition has been
\* seen false (modifiers.go:28-32).
THEOREM WindowsApart == MixerSpec => WindowsAreApart
<1>1. ASSUME StackInv, [MixerNext]_mixerVars
      PROVE  [\A i \in stuck \cap stuck' : ~out'[i]]_mixerVars
  <2>1. ASSUME NEW in \in Inputs, NEW dt \in Lateness, Tick(in, dt)
        PROVE  \A i \in stuck \cap stuck' : ~out'[i]
    BY <1>1, <2>1, StackTicks
  <2>2. ASSUME UNCHANGED <<model, out, stuck>> PROVE \A i \in stuck \cap stuck' : ~out'[i]
    <3>1. model # NoModel => \A i \in stuck : i \in DOMAIN Defs /\ ~states[i].on /\ out[i] = states[i].on
      BY <1>1 DEF StackInv, Locked
    <3>2. model = NoModel => stuck = {}
      BY <1>1 DEF StackInv
    <3>3. QED BY <2>2, <3>1, <3>2
  <2>3. ASSUME NEW m \in Models \cup {NoModel}, Store(m)
        PROVE  \A i \in stuck \cap stuck' : ~out'[i]
    BY <2>3 DEF Store
  <2>4. CASE IdleTick \/ TakeSound \/ Say \/ OldDrains
    BY <2>2, <2>4 DEF IdleTick, TakeSound, Say, OldDrains, TakeLate, SayLate, Retire,
               mixerVars
  <2>5. QED BY <1>1, <2>1, <2>3, <2>4 DEF MixerNext
<1>2. QED BY <1>1, StackInvHolds, PTL DEF MixerSpec, WindowsAreApart

-----------------------------------------------------------------------------

LEMMA ChainFacts ==
  ASSUME NEW m \in Models, File[m].arm.cut
  PROVE  /\ {LatchOf(m), EdgeOf(m), LowOf(m)} \subseteq DOMAIN File[m].switches
         /\ ThrottleChannel(m) \in Channels
         /\ \E j \in ThrottleOverrides(m) :
               /\ IsLogic(File[m].functions[j].switch, LatchOf(m), TRUE)
               /\ \A k \in ThrottleOverrides(m) : k >= j => File[m].functions[k].value = -100
<1>1. ArmChain(m)
  BY LayoutAssumption
<1>2. QED BY <1>1, Zenon DEF ArmChain

LEMMA PositionBool ==
  ASSUME NEW e, e.src = "position", e.not = FALSE, NEW in, NEW o
  PROVE  /\ TRUE \in Bool(e, in, o) <=> AtPosition(e, in)
         /\ Truthy(e, in, o, FALSE) <=> AtPosition(e, in)
<1>1. Bool(e, in, o) = {AtPosition(e, in)}
  BY DEF Bool
<1>2. AtPosition(e, in) \in BOOLEAN
  BY DEF AtPosition
<1>3. QED BY <1>1, <1>2 DEF Truthy

LEMMA LogicBool ==
  ASSUME NEW e, NEW i, NEW in, NEW o, i \in DOMAIN o
  PROVE  /\ IsLogic(e, i, FALSE) => (TRUE \in Bool(e, in, o) <=> o[i]) /\ (Truthy(e, in, o, FALSE) <=> o[i])
         /\ IsLogic(e, i, TRUE) => (TRUE \in Bool(e, in, o) <=> ~o[i])
<1> DEFINE x == e.arg \in DOMAIN o /\ o[e.arg]
<1>0. x \in BOOLEAN
  OBVIOUS
<1>1. ASSUME IsLogic(e, i, FALSE) PROVE (TRUE \in Bool(e, in, o) <=> o[i]) /\ (Truthy(e, in, o, FALSE) <=> o[i])
  <2>1. Bool(e, in, o) = {x}
    BY <1>1 DEF Bool, IsLogic
  <2>2. x <=> o[i]
    BY <1>1 DEF IsLogic
  <2>3. e.src = "logic"
    BY <1>1 DEF IsLogic
  <2> HIDE DEF x
  <2>4. TRUE \in {x} <=> x
    BY <1>0
  <2>5. TRUE \in Bool(e, in, o) <=> o[i]
    BY <2>1, <2>2, <2>4
  <2>6. Truthy(e, in, o, FALSE) <=> TRUE \in Bool(e, in, o)
    BY <2>3 DEF Truthy
  <2>7. QED BY <2>5, <2>6
<1>2. ASSUME IsLogic(e, i, TRUE) PROVE TRUE \in Bool(e, in, o) <=> ~o[i]
  <2>1. Bool(e, in, o) = {~b : b \in {x}}
    BY <1>2 DEF Bool, IsLogic
  <2>2. x <=> o[i]
    BY <1>2 DEF IsLogic
  <2> HIDE DEF x
  <2>3. TRUE \in Bool(e, in, o) <=> ~x
    BY <1>0, <2>1
  <2>4. QED BY <2>2, <2>3
<1>3. QED BY <1>1, <1>2

LEMMA StickFacts ==
  ASSUME NEW e, UprightThrottle(e), NEW in \in Inputs, NEW o
  PROVE  LET v == in.axes["Thr"]
         IN  /\ v \in -100..100 \cup {Gone}
             /\ v = Gone => Value(e, in, o) = {}
             /\ v # Gone => Value(e, in, o) = {v} \/ Value(e, in, o) = {0}
<1> DEFINE v == in.axes["Thr"]
<1>1. v \in Sticks \cup {Gone}
  BY DEF Inputs
<1>2. v \in -100..100 \cup {Gone}
  BY <1>1, MixerAssumption
<1>3. Value(e, in, o) = Axis(e, in)
  <2>1. Value(e, in, o) = PlainValue(e, in, o)
    BY DEF Value, UprightThrottle
  <2>2. PlainValue(e, in, o) = Axis(e, in)
    BY DEF PlainValue, UprightThrottle
  <2>3. QED BY <2>1, <2>2
<1>4. Axis(e, in) = IF v = Gone THEN {} ELSE {IF Magnitude(v) < e.arg THEN 0 ELSE v}
  BY DEF Axis, UprightThrottle
<1> HIDE DEF v
<1>5. v = Gone => Value(e, in, o) = {}
  BY <1>3, <1>4
<1>6. v # Gone => Value(e, in, o) = {v} \/ Value(e, in, o) = {0}
  BY <1>3, <1>4
<1>7. QED BY <1>2, <1>5, <1>6 DEF v

LEMMA LowMeans ==
  ASSUME NEW d, d.func = "VNEG", UprightThrottle(d.op1), d.c \in -100..0,
         NEW s, NEW in \in Inputs, NEW o, Evaluate(d, s, in, o).on
  PROVE  in.axes["Thr"] # Gone /\ in.axes["Thr"] < d.c
<1>1. Evaluate(d, s, in, o) = Result(Comparison(d, in, o), s)
  BY DEF Evaluate, Comparisons
<1>2. Comparison(d, in, o)
  BY <1>1 DEF Result
<1>3. PICK v \in Value(d.op1, in, o) : v < d.c
  BY <1>2 DEF Comparison
<1>4. QED BY <1>3, StickFacts

EdgeDoes(d, s, r, down) ==
    /\ r.s.v1 <=> down
    /\ r.s.held = IF down THEN IF s.v1 THEN s.held ELSE 0 ELSE 0
    /\ r.on => ~down /\ s.v1 /\ s.held >= d.t1 /\ s.held <= d.t2

LEMMA EdgeMeans ==
  ASSUME NEW d, d.func = "EDGE", d.op1.src = "position", d.op1.not = FALSE, d.until = "constant",
         NEW s, IsState(s), NEW in, NEW o
  PROVE  EdgeDoes(d, s, Evaluate(d, s, in, o), AtPosition(d.op1, in))
<1> DEFINE v1 == Truthy(d.op1, in, o, FALSE)
        rising == v1 /\ ~s.v1
        held == IF rising THEN 0 ELSE s.held
        fired == s.fired /\ ~rising
        long == ~fired /\ held >= d.t1
        early == v1 /\ d.until = "immediate" /\ long
        late == /\ ~v1 /\ s.v1 /\ long
                /\ d.until = "unbounded" \/ (d.until = "constant" /\ held <= d.t2)
        h == IF v1 THEN held ELSE 0
        f == v1 /\ (fired \/ early)
        r == Evaluate(d, s, in, o)
        down == AtPosition(d.op1, in)
<1>1. r = Result(early \/ late, [s EXCEPT !.v1 = v1, !.held = h, !.fired = f])
  BY DEF Evaluate, Comparisons, Edge
<1>2. v1 <=> down
  BY PositionBool
<1>3. r.on <=> early \/ late
  <2> DEFINE y == early \/ late
             x == [s EXCEPT !.v1 = v1, !.held = h, !.fired = f]
  <2>1. r = Result(y, x)
    BY <1>1
  <2> HIDE DEF x, y, r
  <2>2. r.on = y
    BY <2>1 DEF Result
  <2>3. QED BY <2>2, Zenon DEF y
<1>4. r.s = [s EXCEPT !.v1 = v1, !.held = h, !.fired = f]
  BY <1>1 DEF Result
<1>5. r.on => ~down /\ s.v1 /\ s.held >= d.t1 /\ s.held <= d.t2
  <2>1. early \/ late => late
    OBVIOUS
  <2>2. late => ~v1 /\ s.v1 /\ held >= d.t1 /\ held <= d.t2 /\ held = s.held
    OBVIOUS
  <2> HIDE DEF v1, late, early, held, down, r
  <2>3. QED BY <1>2, <1>3, <2>1, <2>2
<1>6. h = IF down THEN IF s.v1 THEN s.held ELSE 0 ELSE 0
  BY <1>2
<1> HIDE DEF v1, h, f, r
<1>7. r.s.v1 = v1 /\ r.s.held = h
  BY <1>4 DEF IsState
<1>8. QED BY <1>2, <1>5, <1>6, <1>7 DEF r, EdgeDoes

LEMMA LatchMeans ==
  ASSUME NEW d, d.func = "STICKY", NEW i, IsLogic(d.op1, i, FALSE),
         NEW s, IsState(s), NEW in, NEW o, i \in DOMAIN o
  PROVE  LET r == Evaluate(d, s, in, o)
         IN  (r.on <=> r.s.latched) /\ (r.on => s.latched \/ o[i])
<1> DEFINE v1 == Truthy(d.op1, in, o, FALSE)
           v2 == Truthy(d.op2, in, o, FALSE)
           latched == (s.latched \/ (v1 /\ ~s.v1)) /\ ~(v2 /\ ~s.v2)
           r == Evaluate(d, s, in, o)
<1>1. r = Result(latched, [s EXCEPT !.v1 = v1, !.v2 = v2, !.latched = latched])
  BY DEF Evaluate, Comparisons, Sticky
<1>2. v1 <=> o[i]
  BY LogicBool
<1>3. latched => s.latched \/ o[i]
  BY <1>2
<1> HIDE DEF v1, v2, latched
<1>4. r.on = latched /\ r.s = [s EXCEPT !.v1 = v1, !.v2 = v2, !.latched = latched]
  BY <1>1 DEF Result
<1> HIDE DEF r
<1>5. r.s.latched = latched
  BY <1>4 DEF IsState
<1>6. QED BY <1>3, <1>4, <1>5 DEF r

-----------------------------------------------------------------------------

\* A finite set of integers that is not empty has a greatest element.
LEMMA GreatestInt ==
  ASSUME NEW T, T \subseteq Int, IsFiniteSet(T), T # {}
  PROVE  Max(T) \in T /\ \A y \in T : Max(T) >= y
<1> DEFINE U == {{y \in T : y > x} : x \in T}
<1>1. \A x \in T : {y \in T : y > x} \in FiniteSubsetsOf(Int)
  <2> TAKE x \in T
  <2>1. IsFiniteSet({y \in T : y > x})
    BY FS_Subset
  <2>2. QED BY <2>1 DEF FiniteSubsetsOf
<1>2. U \subseteq FiniteSubsetsOf(Int) /\ U # {}
  BY <1>1
<1>3. PICK I \in U : \A J \in U : <<J, I>> \notin StrictSubsetOrdering(Int)
  <2>1. IsWellFoundedOn(StrictSubsetOrdering(Int), FiniteSubsetsOf(Int))
    BY FS_StrictSubsetOrderingWellFounded
  <2> HIDE DEF U
  <2>2. QED BY <1>2, <2>1, WFMin
<1>4. PICK x \in T : I = {y \in T : y > x}
  OBVIOUS
<1>5. ASSUME NEW y \in T, y > x PROVE FALSE
  <2> DEFINE J == {z \in T : z > y}
  <2>1. J \in U
    OBVIOUS
  <2>2. J \in SUBSET Int /\ I \in SUBSET Int /\ J \subseteq I /\ y \in I /\ y \notin J
    <3>1. y \in I
      BY <1>4, <1>5
    <3>2. y \notin J
      <4>1. ~(y > y)
        OBVIOUS
      <4>2. QED BY <4>1
    <3>3. J \subseteq I
      <4> SUFFICES ASSUME NEW z \in T, z > y PROVE z > x
        BY <1>4
      <4>1. QED BY <1>5
    <3>4. J \in SUBSET Int /\ I \in SUBSET Int
      BY <1>4
    <3>5. QED BY <3>1, <3>2, <3>3, <3>4
  <2> HIDE DEF J, U
  <2>3. <<J, I>> \in StrictSubsetOrdering(Int)
    BY <2>2 DEF StrictSubsetOrdering
  <2>4. QED BY <1>3, <2>1, <2>3
<1>6. \A y \in T : x >= y
  BY <1>5
<1>7. QED BY <1>6 DEF Max

LEMMA ImageFinite ==
  ASSUME NEW S, IsFiniteSet(S), NEW f
  PROVE  IsFiniteSet({f[x] : x \in S})
<1> DEFINE T == {f[x] : x \in S}
           g == [x \in S |-> f[x]]
<1>1. g \in [S -> T]
  OBVIOUS
<1>2. \A t \in T : \E x \in S : g[x] = t
  OBVIOUS
<1> HIDE DEF T, g
<1>3. g \in Surjection(S, T)
  BY <1>1, <1>2 DEF Surjection
<1>4. IsFiniteSet(T)
  BY <1>3, FS_Surjection
<1>5. QED BY <1>4 DEF T

LEMMA LeastInt ==
  ASSUME NEW T, T \subseteq Int, IsFiniteSet(T), T # {}
  PROVE  Min(T) \in T /\ \A y \in T : Min(T) <= y
<1> DEFINE N == {-y : y \in T}
<1>1. N \subseteq Int /\ N # {}
  OBVIOUS
<1>2. IsFiniteSet(N)
  <2> DEFINE f == [y \in T |-> -y]
  <2>1. N = {f[y] : y \in T}
    OBVIOUS
  <2> HIDE DEF f
  <2>2. QED BY <2>1, ImageFinite
<1> HIDE DEF N
<1>3. Max(N) \in N /\ \A y \in N : Max(N) >= y
  BY <1>1, <1>2, GreatestInt
<1>4. PICK x \in T : Max(N) = -x
  BY <1>3 DEF N
<1>5. \A y \in T : x <= y
  <2> TAKE y \in T
  <2>1. -y \in N
    BY DEF N
  <2>2. -x >= -y
    BY <1>3, <1>4, <2>1
  <2>3. QED BY <2>2
<1>6. QED BY <1>5 DEF Min

LEMMA FileFacts ==
  ASSUME NEW m \in Models
  PROVE  /\ IsFiniteSet(DOMAIN File[m].functions) /\ DOMAIN File[m].functions \subseteq Int
         /\ File[m].mixes = Def[m].mixes
<1>1. File[m] = LET sw == Listed(Def[m].switches, NoSwitch)
                    fn == Listed(Def[m].functions, NoFunction)
                IN  [switches |-> [i \in DOMAIN sw |-> ParsedSwitch(sw[i])],
                     functions |-> [j \in DOMAIN fn |-> ParsedFunction(fn[j])],
                     mixes |-> Def[m].mixes, arm |-> Def[m].arm]
  BY DEF File
<1> DEFINE n == Cardinality(DOMAIN Def[m].functions)
<1>2. DOMAIN File[m].functions = 1..n
  BY <1>1 DEF Listed
<1>3. n \in Nat
  BY FilesAssumption, FS_CardinalityType
<1> HIDE DEF n
<1>4. IsFiniteSet(1..n)
  BY <1>3, FS_Interval
<1>5. QED BY <1>1, <1>2, <1>3, <1>4

\* The throttle channel is one the stick is mixed to, or there is none.
LEMMA ThrottleIsMixed ==
  ASSUME NEW m \in Models
  PROVE  \/ ThrottleChannel(m) = -1
         \/ \E i \in DOMAIN File[m].mixes : File[m].mixes[i].dest = ThrottleChannel(m)
<1> DEFINE M == File[m].mixes
           thr == {mix \in Range(M) : mix.src.src = "axis" /\ mix.src.of = "Thr"}
           heavy == {mix \in thr : \A other \in thr :
                                  Magnitude(other.weight) <= Magnitude(mix.weight)}
           W == {Magnitude(mix.weight) : mix \in thr}
           D == {mix.dest : mix \in heavy}
<1>1. IsFiniteSet(Range(M)) /\ \A mix \in Range(M) : mix.dest \in Int /\ mix.weight \in Int
  <2>1. IsFiniteSet(DOMAIN M)
    BY FileFacts, FilesAssumption
  <2>2. IsFiniteSet({M[i] : i \in DOMAIN M})
    BY <2>1, ImageFinite
  <2>3. QED BY <2>2, FileFacts, FilesAssumption DEF Range
<1>2. IsFiniteSet(thr) /\ IsFiniteSet(heavy)
  <2>1. thr \subseteq Range(M) /\ heavy \subseteq Range(M)
    OBVIOUS
  <2> HIDE DEF thr, heavy
  <2>2. QED BY <1>1, <2>1, FS_Subset
<1>3. CASE thr = {}
  BY <1>3 DEF ThrottleChannel
<1>4. CASE thr # {}
  <2>1. ThrottleChannel(m) = Min(D)
    BY <1>4 DEF ThrottleChannel
  <2>2. W \subseteq Int /\ W # {} /\ IsFiniteSet(W)
    <3>1. IsFiniteSet(W)
      <4> HIDE DEF thr
      <4> DEFINE f == [mix \in thr |-> Magnitude(mix.weight)]
      <4>1. W = {f[mix] : mix \in thr}
        OBVIOUS
      <4> HIDE DEF f
      <4>2. QED BY <1>2, <4>1, ImageFinite
    <3>2. \A mix \in thr : Magnitude(mix.weight) \in Int
      BY <1>1 DEF Magnitude
    <3>3. QED BY <1>4, <3>1, <3>2
  <2>3. Max(W) \in W /\ \A w \in W : Max(W) >= w
    <3> HIDE DEF W
    <3>1. QED BY <2>2, GreatestInt
  <2>4. PICK mix \in thr : Magnitude(mix.weight) = Max(W)
    BY <2>3
  <2>5. \A other \in thr : Magnitude(other.weight) <= Magnitude(mix.weight)
    <3> TAKE other \in thr
    <3>1. Magnitude(other.weight) \in W
      OBVIOUS
    <3> DEFINE x == Magnitude(other.weight)
               y == Magnitude(mix.weight)
    <3>2. x \in Int /\ y \in Int /\ y >= x
      BY <2>2, <2>3, <2>4, <3>1
    <3> HIDE DEF x, y
    <3>3. x <= y
      BY <3>2
    <3>4. QED BY <3>3 DEF x, y
  <2>6. mix \in heavy
    BY <2>5
  <2>7. D \subseteq Int /\ D # {} /\ IsFiniteSet(D)
    <3>1. D \subseteq Int /\ D # {}
      BY <1>1, <2>6
    <3>2. IsFiniteSet(D)
      <4> HIDE DEF heavy
      <4> DEFINE f == [en \in heavy |-> en.dest]
      <4>1. D = {f[en] : en \in heavy}
        OBVIOUS
      <4> HIDE DEF f, D
      <4>2. QED BY <1>2, <4>1, ImageFinite
    <3>3. QED BY <3>1, <3>2
  <2>8. Min(D) \in D
    <3> HIDE DEF D
    <3>1. QED BY <2>7, LeastInt
  <2>9. PICK top \in Range(M) : top.dest = Min(D)
    BY <2>8
  <2>10. PICK i \in DOMAIN M : M[i] = top
    BY DEF Range
  <2>11. QED BY <2>1, <2>9, <2>10
<1>5. QED BY <1>3, <1>4

LEMMA ScaledLow ==
  ASSUME NEW x \in -100..100, NEW w \in 0..100, Clamp((x * w) \div 100) <= LowLimit
  PROVE  x <= LowLimit
<1> DEFINE n == x * w
           q == n \div 100
<1>1. n \in Int
  OBVIOUS
<1>2. CASE x > -97
  <2>1. n >= -96 * w
    <3>1. (x + 96) * w >= 0
      BY <1>2
    <3>2. (x + 96) * w = n + 96 * w
      OBVIOUS
    <3>3. QED BY <1>1, <3>1, <3>2
  <2>2. n >= -9600
    BY <2>1
  <2> HIDE DEF n
  <2>3. q \in Int /\ q >= -96
    BY <1>1, <2>2
  <2>4. Clamp(q) > -97
    <3> HIDE DEF q
    <3>1. QED BY <2>3 DEF Clamp
  <2>5. Clamp(q) <= -97
    BY DEF LowLimit, n
  <2>6. Clamp(q) \in Int
    <3> HIDE DEF q
    <3>1. QED BY <2>3 DEF Clamp
  <2> HIDE DEF q
  <2>7. QED BY <2>4, <2>5, <2>6
<1>3. QED BY <1>2 DEF LowLimit

\* What the mixes leave of the throttle: a low value is the stick's, or the rest
\* of a channel that has no stick.
LEMMA MixedLow ==
  ASSUME NEW m \in Models, ThrottleChannel(m) \in Channels, NEW in \in Inputs, NEW o,
         Mixed(m, ThrottleChannel(m), in, o) <= LowLimit
  PROVE  \/ in.axes["Thr"] # Gone /\ in.axes["Thr"] <= LowLimit
         \/ in.axes["Thr"] = Gone /\ SafeDefault(ThrottleChannel(m)) <= LowLimit
<1> DEFINE M == File[m].mixes
           c == ThrottleChannel(m)
           v == in.axes["Thr"]
           live == {i \in DOMAIN M : M[i].dest = c /\ Contribution(M[i], in, o) # {}}
<1>1. Mixed(m, c, in, o) = IF live = {} THEN SafeDefault(c)
                           ELSE CHOOSE x \in Contribution(M[Max(live)], in, o) : TRUE
  BY DEF Mixed
<1>2. \A i \in DOMAIN M : M[i].dest = c => UprightThrottle(M[i].src) /\ M[i].weight \in 0..100
  BY LayoutAssumption DEF PlainThrottle
<1>3. ASSUME NEW i \in DOMAIN M, M[i].dest = c
      PROVE  /\ v = Gone => Contribution(M[i], in, o) = {}
             /\ v # Gone => Contribution(M[i], in, o) # {}
             /\ \A y \in Contribution(M[i], in, o) : y <= LowLimit => v # Gone /\ v <= LowLimit
  <2> DEFINE V == Value(M[i].src, in, o)
             w == M[i].weight
  <2>1. /\ v \in -100..100 \cup {Gone} /\ (v = Gone => V = {}) /\ (v # Gone => V = {v} \/ V = {0})
    BY <1>2, <1>3, StickFacts
  <2>2. w \in 0..100
    BY <1>2, <1>3
  <2>3. Contribution(M[i], in, o) = {Clamp((x * w) \div 100) : x \in V}
    BY DEF Contribution
  <2> HIDE DEF V, v, w
  <2>4. ASSUME NEW y \in Contribution(M[i], in, o), y <= LowLimit PROVE v # Gone /\ v <= LowLimit
    <3>1. PICK x \in V : y = Clamp((x * w) \div 100)
      BY <2>3
    <3>2. v # Gone /\ x \in -100..100 /\ (x = v \/ x = 0)
      BY <2>1, <3>1
    <3>3. x <= LowLimit
      BY <2>2, <2>4, <3>1, <3>2, ScaledLow
    <3>4. QED BY <3>2, <3>3 DEF LowLimit
  <2>5. QED BY <2>1, <2>3, <2>4
<1>4. CASE live = {}
  <2>1. SafeDefault(c) <= LowLimit
    BY <1>1, <1>4
  <2>2. c # -1
    BY <2>1 DEF SafeDefault, LowLimit
  <2>3. PICK i \in DOMAIN M : M[i].dest = c
    BY <2>2, ThrottleIsMixed
  <2>4. v = Gone
    BY <1>3, <1>4, <2>3
  <2>5. QED BY <2>1, <2>4
<1>5. CASE live # {}
  <2>1. Max(live) \in live
    <3>1. IsFiniteSet(DOMAIN M) /\ DOMAIN M \subseteq Int
      BY FileFacts, FilesAssumption
    <3>2. live \subseteq DOMAIN M
      OBVIOUS
    <3> HIDE DEF live
    <3>3. IsFiniteSet(live)
      BY <3>1, <3>2, FS_Subset
    <3>4. QED BY <1>5, <3>1, <3>2, <3>3, GreatestInt
  <2> DEFINE i == Max(live)
  <2>2. i \in DOMAIN M /\ M[i].dest = c /\ Contribution(M[i], in, o) # {}
    BY <2>1
  <2>3. Mixed(m, c, in, o) = CHOOSE x \in Contribution(M[i], in, o) : TRUE
    BY <1>1, <1>5
  <2> HIDE DEF i, live
  <2>4. Mixed(m, c, in, o) \in Contribution(M[i], in, o)
    BY <2>2, <2>3
  <2> HIDE DEF M, v
  <2>5. QED BY <1>3, <2>2, <2>4 DEF v
<1>6. QED BY <1>4, <1>5

\* The overrides that hold now: the last one counts.
Forced(m, in, o) == {j \in ThrottleOverrides(m) : Fires(File[m].functions[j], in, o)}

LEMMA ForcedLast ==
  ASSUME NEW m \in Models, NEW in, NEW o, Forced(m, in, o) # {}
  PROVE  /\ Max(Forced(m, in, o)) \in Forced(m, in, o)
         /\ \A j \in Forced(m, in, o) : Max(Forced(m, in, o)) >= j
<1>1. Forced(m, in, o) \subseteq DOMAIN File[m].functions
  BY DEF Forced, ThrottleOverrides
<1>2. IsFiniteSet(Forced(m, in, o)) /\ Forced(m, in, o) \subseteq Int
  BY <1>1, FileFacts, FS_Subset
<1>3. QED BY <1>2, GreatestInt

LEMMA ThrottleResolved ==
  ASSUME NEW m \in Models, NEW in, NEW o, ThrottleChannel(m) \in Channels
  PROVE  Resolve(m, in, o)[ThrottleChannel(m)] =
            IF Forced(m, in, o) = {} THEN Mixed(m, ThrottleChannel(m), in, o)
            ELSE File[m].functions[Max(Forced(m, in, o))].value
<1> DEFINE fs == File[m].functions
           c == ThrottleChannel(m)
           forced(d) == {j \in DOMAIN fs : /\ fs[j].func = "OVERRIDE"
                                        /\ fs[j].enabled /\ fs[j].channel = d
                                        /\ Fires(fs[j], in, o)}
<1>1. Resolve(m, in, o) = [d \in Channels |-> IF forced(d) = {} THEN Mixed(m, d, in, o)
                                              ELSE fs[Max(forced(d))].value]
  BY DEF Resolve
<1>2. forced(c) = Forced(m, in, o)
  BY DEF Forced, ThrottleOverrides
<1> HIDE DEF forced
<1>3. QED BY <1>1, <1>2

\* Without the latch the throttle channel of a file with a cut is at its minimum.
LEMMA CutHolds ==
  ASSUME NEW m \in Models, File[m].arm.cut, NEW in, NEW o, LatchOf(m) \in DOMAIN o, ~o[LatchOf(m)]
  PROVE  Resolve(m, in, o)[ThrottleChannel(m)] = -100
<1>1. PICK j \in ThrottleOverrides(m) :
         /\ IsLogic(File[m].functions[j].switch, LatchOf(m), TRUE)
         /\ \A k \in ThrottleOverrides(m) : k >= j => File[m].functions[k].value = -100
  BY ChainFacts
<1>2. Fires(File[m].functions[j], in, o)
  <2>1. TRUE \in Bool(File[m].functions[j].switch, in, o)
    BY <1>1, LogicBool
  <2>2. QED BY <1>1, <2>1 DEF Fires, IsLogic
<1>3. j \in Forced(m, in, o)
  BY <1>1, <1>2 DEF Forced
<1>4. Max(Forced(m, in, o)) \in ThrottleOverrides(m) /\ Max(Forced(m, in, o)) >= j
  BY <1>3, ForcedLast DEF Forced
<1>5. File[m].functions[Max(Forced(m, in, o))].value = -100
  BY <1>1, <1>4
<1>6. ThrottleChannel(m) \in Channels
  BY ChainFacts
<1>7. QED BY <1>3, <1>5, <1>6, ThrottleResolved

\* A low throttle channel, and who made it low.
LEMMA LowIsTrue ==
  ASSUME NEW m \in Models, NEW in \in Inputs, NEW o,
         File[m].arm.cut => LatchOf(m) \in DOMAIN o,
         IsLow(m, Resolve(m, in, o))
  PROVE  \/ in.axes["Thr"] <= LowLimit
         \/ File[m].arm.cut /\ ~o[LatchOf(m)]
         \/ in.axes["Thr"] = Gone /\ SafeDefault(ThrottleChannel(m)) <= LowLimit
<1>1. ThrottleChannel(m) \in Channels /\ Resolve(m, in, o)[ThrottleChannel(m)] <= LowLimit
  BY DEF IsLow
<1>2. CASE Forced(m, in, o) = {}
  BY <1>1, <1>2, ThrottleResolved, MixedLow
<1>3. CASE Forced(m, in, o) # {}
  <2> DEFINE j == Max(Forced(m, in, o))
             f == File[m].functions[j]
  <2>1. j \in ThrottleOverrides(m) /\ Fires(f, in, o) /\ f.value <= LowLimit
    BY <1>1, <1>3, ForcedLast, ThrottleResolved DEF Forced
  <2> HIDE DEF j
  <2>2. File[m].arm.cut /\ IsLogic(f.switch, LatchOf(m), TRUE)
    BY <2>1, LayoutAssumption DEF PlainThrottle, LatchOf
  <2>3. ~o[LatchOf(m)]
    BY <2>1, <2>2, LogicBool DEF Fires
  <2>4. QED BY <2>2, <2>3
<1>4. QED BY <1>2, <1>3

-----------------------------------------------------------------------------

IsSeen(g) ==
    g = [pressed |-> g.pressed, held |-> g.held, ready |-> g.ready, was |-> g.was,
         made |-> g.made, lost |-> g.lost, ticked |-> g.ticked, low |-> g.low,
         silent |-> g.silent]

\* How far the switches of the chain are is how far the gesture is.
ChainInv(m) ==
    LET edge == states[EdgeOf(m)]
        latch == states[LatchOf(m)]
    IN  /\ edge.v1 <=> seen.pressed
        /\ edge.held = seen.held
        /\ out[LowOf(m)] => seen.ready
        /\ out[EdgeOf(m)] => seen.was
        /\ out[LatchOf(m)] <=> latch.latched
        /\ out[LatchOf(m)] => seen.made
        /\ seen.ticked => (ch[ThrottleChannel(m)] > -100 => out[LatchOf(m)])

LowInv(m) ==
    seen.ticked /\ toldLow =>
       \/ seen.low
       \/ File[m].arm.cut /\ ~out[LatchOf(m)]
       \/ seen.silent /\ SafeDefault(ThrottleChannel(m)) <= LowLimit

ThrottleInv ==
    /\ IsSeen(seen)
    /\ model # NoModel => LowInv(model) /\ (File[model].arm.cut => ChainInv(model))

\* What one tick of the chain does, switch by switch.
LEMMA ChainTicks ==
  ASSUME NEW m \in Models, File[m].arm.cut, NEW in \in Inputs, NEW dt \in Lateness,
         model = m, StackInv, Tick(in, dt), ChainInv(m), IsSeen(seen)
  PROVE  ChainInv(m)'
<1> DEFINE D == File[m].switches
           arm == File[m].arm
           L == LatchOf(m)
           E == EdgeOf(m)
           W == LowOf(m)
           down == AtPosition(arm.button, in)
           e(i) == Evaluate(D[i], Aged(states[i], dt), in, out)
<1>1. /\ m # NoModel
      /\ states' = [i \in DOMAIN D |-> Switched(D[i], states[i], in, dt)]
      /\ out' = [i \in DOMAIN D |-> states'[i].on]
      /\ ch' = Resolve(m, in, out')
  BY MixerAssumption DEF Tick
<1>2. /\ out = [i \in DOMAIN D |-> states[i].on]
      /\ \A i \in DOMAIN D : SwitchInv(D[i], states[i])
  BY <1>1 DEF StackInv, Defs
<1>3. ASSUME NEW i \in DOMAIN D
      PROVE  SwitchDoes(D[i], states[i], states'[i], e(i), in)
  <2>1. D[i].delay \in Nat /\ dt \in Nat
    BY FilesAssumption, MixerAssumption
  <2>2. IsState(states[i]) /\ states[i].delay \subseteq 0..AgeCap
    BY <1>2 DEF SwitchInv
  <2>3. states'[i] = Switched(D[i], states[i], in, dt)
    BY <1>1
  <2> HIDE DEF D
  <2>4. QED BY <2>1, <2>2, <2>3, SwitchedFacts, Zenon
<1>4. ASSUME NEW i \in DOMAIN D
      PROVE  /\ out'[i] => Gated(D[i], e(i).on, in, out)
             /\ states'[i].v1 = e(i).s.v1 /\ states'[i].held = e(i).s.held
             /\ states'[i].latched = e(i).s.latched
             /\ D[i].delay = 0 /\ D[i].duration = 0 => (out'[i] <=> Gated(D[i], e(i).on, in, out))
  <2>1. out'[i] = states'[i].on
    BY <1>1
  <2> HIDE DEF D, e
  <2>2. QED BY <1>3, <2>1 DEF SwitchDoes
<1>5. /\ {L, E, W} \subseteq DOMAIN D
      /\ D[W].func = "VNEG" /\ UprightThrottle(D[W].op1) /\ D[W].andsw = arm.guard
      /\ D[W].c = arm.below /\ arm.below \in -100..0
      /\ D[E].func = "EDGE" /\ D[E].op1 = arm.button /\ D[E].until = "constant"
      /\ D[E].t1 = arm.t1 /\ D[E].t2 = arm.t2
      /\ IsLogic(D[E].andsw, W, FALSE)
      /\ D[L].func = "STICKY" /\ IsLogic(D[L].op1, E, FALSE)
      /\ D[L].andsw.src = "none" /\ D[L].delay = 0 /\ D[L].duration = 0
      /\ arm.button.src = "position" /\ arm.button.not = FALSE
      /\ arm.guard.src = "position" /\ arm.guard.not = FALSE
  <2>1. ArmChain(m)
    BY LayoutAssumption
  <2>2. QED BY <2>1, Zenon DEF ArmChain
<1>6. PICK latch, lost : seen' = Gesture(m, in, dt, seen, latch, lost) /\ latch = out'[L]
  BY DEF Tick, LatchOf
<1> DEFINE held == IF ~seen.pressed THEN 0 ELSE Cap(seen.held + dt)
<1>7. /\ seen'.pressed = down
      /\ seen'.held = IF down THEN held ELSE 0
      /\ seen'.ready <=> in.axes["Thr"] # Gone /\ in.axes["Thr"] < arm.below /\ AtPosition(arm.guard, in)
      /\ seen'.was <=> seen.pressed /\ ~down /\ held >= arm.t1 /\ held <= arm.t2 /\ seen.ready
      /\ seen'.made <=> latch /\ (seen.made \/ seen.was)
  BY <1>6 DEF Gesture
<1>8. ASSUME NEW i \in DOMAIN D
      PROVE  IsState(Aged(states[i], dt)) /\ Aged(states[i], dt).v1 = states[i].v1
             /\ Aged(states[i], dt).latched = states[i].latched
             /\ Aged(states[i], dt).held = IF states[i].v1 THEN Cap(states[i].held + dt) ELSE states[i].held
  BY <1>2, AgedFacts DEF SwitchInv
<1>9. /\ states[E].v1 <=> seen.pressed
      /\ states[E].held = seen.held
      /\ out[W] => seen.ready
      /\ out[E] => seen.was
      /\ out[L] <=> states[L].latched
      /\ out[L] => seen.made
  BY DEF ChainInv
<1> HIDE DEF D, arm, L, E, W, down, e
<1>10. out'[W] => seen'.ready
  <2>1. SUFFICES ASSUME out'[W] PROVE seen'.ready
    OBVIOUS
  <2>2. e(W).on /\ TRUE \in Bool(arm.guard, in, out)
    BY <1>4, <1>5, <2>1 DEF Gated
  <2>3. AtPosition(arm.guard, in)
    BY <1>5, <2>2, PositionBool
  <2>4. in.axes["Thr"] # Gone /\ in.axes["Thr"] < D[W].c
    BY <1>5, <2>2, LowMeans DEF e
  <2>5. QED BY <1>5, <1>7, <2>3, <2>4
<1>11. /\ e(E).s.v1 <=> down
       /\ e(E).s.held = IF down THEN IF Aged(states[E], dt).v1 THEN Aged(states[E], dt).held ELSE 0 ELSE 0
       /\ e(E).on => /\ ~down /\ Aged(states[E], dt).v1
                     /\ Aged(states[E], dt).held >= arm.t1 /\ Aged(states[E], dt).held <= arm.t2
  <2>1. IsState(Aged(states[E], dt))
    BY <1>5, <1>8
  <2>2. EdgeDoes(D[E], Aged(states[E], dt), e(E), down)
    <3>1. D[E].op1.src = "position" /\ D[E].op1.not = FALSE /\ down = AtPosition(D[E].op1, in)
      BY <1>5, Zenon DEF down
    <3>2. QED BY <1>5, <2>1, <3>1, EdgeMeans, Zenon DEF e
  <2>3. QED BY <1>5, <2>2 DEF EdgeDoes
<1>12. /\ states'[E].v1 <=> seen'.pressed
       /\ states'[E].held = seen'.held
  BY <1>4, <1>5, <1>7, <1>8, <1>9, <1>11
<1>13. out'[E] => seen'.was
  <2>1. SUFFICES ASSUME out'[E] PROVE seen'.was
    OBVIOUS
  <2>2. D[E].andsw.src = "logic"
    BY <1>5 DEF IsLogic
  <2>3. e(E).on /\ TRUE \in Bool(D[E].andsw, in, out)
    BY <1>4, <1>5, <2>1, <2>2 DEF Gated
  <2>4. out[W]
    <3>1. W \in DOMAIN out /\ IsLogic(D[E].andsw, W, FALSE)
      BY <1>2, <1>5
    <3>2. TRUE \in Bool(D[E].andsw, in, out) <=> out[W]
      BY <3>1, LogicBool
    <3>3. QED BY <2>3, <3>2
  <2>5. QED BY <1>5, <1>7, <1>8, <1>9, <1>11, <2>3, <2>4
<1>14. (out'[L] <=> states'[L].latched) /\ (out'[L] => out[L] \/ out[E])
  <2>1. out'[L] <=> e(L).on
    BY <1>4, <1>5 DEF Gated
  <2>2. IsState(Aged(states[L], dt)) /\ E \in DOMAIN out
    BY <1>2, <1>5, <1>8
  <2>3. (e(L).on <=> e(L).s.latched) /\ (e(L).on => Aged(states[L], dt).latched \/ out[E])
    BY <1>5, <2>2, LatchMeans DEF e
  <2>4. QED BY <1>4, <1>5, <1>8, <1>9, <2>1, <2>3
<1>15. out'[L] => seen'.made
  BY <1>6, <1>7, <1>9, <1>14
<1>16. ch'[ThrottleChannel(m)] > -100 => out'[L]
  <2>1. L \in DOMAIN out'
    BY <1>1, <1>5
  <2>2. PICK o : o = out'
    OBVIOUS
  <2>3. ~o[L] => Resolve(m, in, o)[ThrottleChannel(m)] = -100
    BY <2>1, <2>2, CutHolds DEF L
  <2>4. QED BY <1>1, <2>2, <2>3
<1>17. QED BY <1>10, <1>12, <1>13, <1>14, <1>15, <1>16 DEF ChainInv, L, E, W

\* A stack that has just been built.
LEMMA NewStackFacts ==
  ASSUME NEW m \in Models, File[m].arm.cut, NEW st, st = NewStates(m), NEW o, o = Off(st)
  PROVE  /\ st[EdgeOf(m)].v1 = FALSE /\ st[EdgeOf(m)].held = 0
         /\ st[LatchOf(m)].latched = FALSE
         /\ \A i \in {LatchOf(m), EdgeOf(m), LowOf(m)} : o[i] = FALSE
<1> DEFINE D == File[m].switches
<1>1. st = [i \in DOMAIN D |-> Fresh] /\ o = [i \in DOMAIN D |-> FALSE]
  BY MixerAssumption DEF NewStates, Off
<1>2. {LatchOf(m), EdgeOf(m), LowOf(m)} \subseteq DOMAIN D
  BY ChainFacts
<1> HIDE DEF D
<1>3. Fresh.v1 = FALSE /\ Fresh.held = 0 /\ Fresh.latched = FALSE
  BY DEF Fresh
<1>4. QED BY <1>1, <1>2, <1>3

LEMMA NoGestureFacts ==
  /\ IsSeen(NoGesture) /\ NoGesture.ticked = FALSE
  /\ NoGesture.pressed = FALSE /\ NoGesture.held = 0
BY DEF NoGesture, IsSeen

LEMMA ThrottleTicks ==
  ASSUME StackInv, ThrottleInv, NEW in \in Inputs, NEW dt \in Lateness, Tick(in, dt)
  PROVE  ThrottleInv'
<1>1. PICK m : m = model
  OBVIOUS
<1>2. m \in Models /\ m # NoModel /\ model' = m
  BY <1>1 DEF Tick, StackInv
<1>3. ASSUME File[m].arm.cut PROVE ChainInv(m)'
  BY <1>1, <1>2, <1>3, ChainTicks DEF ThrottleInv
<1>4. PICK latch, lost : seen' = Gesture(m, in, dt, seen, latch, lost)
  BY <1>1 DEF Tick
<1>5. /\ IsSeen(seen')
      /\ seen'.low <=> in.axes["Thr"] <= LowLimit
      /\ seen'.silent <=> in.axes["Thr"] = Gone
  BY <1>4 DEF Gesture, IsSeen
<1>6. LowInv(m)'
  <2>1. PICK o : o = out'
    OBVIOUS
  <2>2. toldLow' = IsLow(m, Resolve(m, in, o))
    BY <1>1, <2>1 DEF Tick
  <2>3. File[m].arm.cut => LatchOf(m) \in DOMAIN o
    <3>1. out' = [i \in DOMAIN File[m].switches |-> states'[i].on]
      BY <1>1 DEF Tick
    <3>2. File[m].arm.cut => LatchOf(m) \in DOMAIN File[m].switches
      BY <1>2, ChainFacts
    <3>3. QED BY <2>1, <3>1, <3>2
  <2>4. ASSUME toldLow'
        PROVE  \/ in.axes["Thr"] <= LowLimit
               \/ File[m].arm.cut /\ ~o[LatchOf(m)]
               \/ in.axes["Thr"] = Gone /\ SafeDefault(ThrottleChannel(m)) <= LowLimit
    BY <1>2, <2>2, <2>3, <2>4, LowIsTrue
  <2>5. QED BY <1>5, <2>1, <2>4 DEF LowInv
<1>7. QED BY <1>2, <1>3, <1>5, <1>6 DEF ThrottleInv

LEMMA ThrottleInvHolds == MixerSpec => []ThrottleInv
<1>1. MixerInit => ThrottleInv
  <2> SUFFICES ASSUME MixerInit PROVE ThrottleInv
    OBVIOUS
  <2>1. model \in Models /\ states = NewStates(model) /\ out = Off(states) /\ seen = NoGesture
    BY DEF MixerInit
  <2>2. ASSUME File[model].arm.cut PROVE ChainInv(model)
    BY <2>1, <2>2, NewStackFacts, NoGestureFacts DEF ChainInv
  <2>3. QED BY <2>1, <2>2, NoGestureFacts DEF ThrottleInv, LowInv
<1>2. StackInv /\ ThrottleInv /\ [MixerNext]_mixerVars => ThrottleInv'
  <2> SUFFICES ASSUME StackInv, ThrottleInv, [MixerNext]_mixerVars PROVE ThrottleInv'
    OBVIOUS
  <2>1. ASSUME NEW in \in Inputs, NEW dt \in Lateness, Tick(in, dt) PROVE ThrottleInv'
    BY <2>1, ThrottleTicks
  <2>2. ASSUME UNCHANGED <<model, states, out, ch, toldLow>>,
               seen' = seen \/ seen' = [seen EXCEPT !.lost = TRUE]
        PROVE  ThrottleInv'
    <3>1. IsSeen(seen)
      BY DEF ThrottleInv
    <3>2. /\ IsSeen(seen') /\ seen'.pressed = seen.pressed /\ seen'.held = seen.held
          /\ seen'.ready = seen.ready /\ seen'.was = seen.was /\ seen'.made = seen.made
          /\ seen'.ticked = seen.ticked /\ seen'.low = seen.low /\ seen'.silent = seen.silent
      BY <2>2, <3>1 DEF IsSeen
    <3>3. PICK m : m = model
      OBVIOUS
    <3>4. LowInv(m) => LowInv(m)'
      BY <2>2, <3>2 DEF LowInv
    <3>5. ChainInv(m) => ChainInv(m)'
      BY <2>2, <3>2 DEF ChainInv
    <3>6. QED BY <2>2, <3>2, <3>3, <3>4, <3>5 DEF ThrottleInv
  <2>3. ASSUME NEW m \in Models \cup {NoModel}, Store(m) PROVE ThrottleInv'
    <3>1. model' = m /\ states' = NewStates(m) /\ out' = Off(states') /\ seen' = NoGesture
      BY <2>3 DEF Store
    <3>2. PICK st, o : st = states' /\ o = out'
      OBVIOUS
    <3>3. ASSUME m # NoModel, File[m].arm.cut PROVE ChainInv(m)'
      <4>1. /\ st[EdgeOf(m)].v1 = FALSE /\ st[EdgeOf(m)].held = 0 /\ st[LatchOf(m)].latched = FALSE
            /\ \A i \in {LatchOf(m), EdgeOf(m), LowOf(m)} : o[i] = FALSE
        BY <3>1, <3>2, <3>3, NewStackFacts
      <4>2. QED BY <3>1, <3>2, <4>1, NoGestureFacts DEF ChainInv
    <3>4. QED BY <3>1, <3>3, NoGestureFacts DEF ThrottleInv, LowInv
  <2>4. CASE UNCHANGED mixerVars
    BY <2>2, <2>4 DEF mixerVars
  <2>5. CASE IdleTick \/ TakeSound \/ Say \/ OldDrains
    BY <2>2, <2>5 DEF IdleTick, TakeSound, Say, OldDrains, TakeLate, SayLate, Retire,
               mixerVars
  <2>6. QED BY <2>1, <2>3, <2>4, <2>5 DEF MixerNext
<1>3. QED BY <1>1, <1>2, StackInvHolds, PTL DEF MixerSpec

\* The motors need the arm gesture, and the arm machine hears of a low throttle
\* only when the stick, the latch or a resting channel makes it low: for every
\* set of files laid out so, all sticks, panels and late ticks.
THEOREM ThrottleTrue == MixerSpec => []ThrottleIsTrue
<1>1. StackInv /\ ThrottleInv => ThrottleIsTrue
  <2>1. ASSUME StackInv, ThrottleInv PROVE MotorsNeedGesture
    <3>1. ASSUME Running, File[model].arm.cut PROVE ChainInv(model) /\ seen.ticked
      BY <2>1, <3>1 DEF ThrottleInv, Running
    <3>2. QED BY <3>1 DEF MotorsNeedGesture, ChainInv, LatchOf
  <2>2. ASSUME StackInv, ThrottleInv PROVE GateIsStickOrCut
    BY <2>2 DEF ThrottleInv, LowInv, GateIsStickOrCut, Running, LatchOf
  <2>3. QED BY <2>1, <2>2 DEF ThrottleIsTrue
<1>2. QED BY <1>1, StackInvHolds, ThrottleInvHolds, PTL

-----------------------------------------------------------------------------

Words == {"armed", "disarm"}
Word(on) == IF on THEN "armed" ELSE "disarm"

\* The last announcement on its way, or the last one that arrived.
LastWord(w) ==
    /\ sounds # <<>> => sounds[Len(sounds)] = w
    /\ sounds = <<>> /\ saying # {} => saying = {w}
    /\ sounds = <<>> /\ saying = {} => heard = w

WordInv(m) ==
    LET fs == File[m].functions
    IN  /\ sounds \in Seq(Words)
        /\ \A j \in DOMAIN fs : fs[j].func = "PLAY" =>
              /\ ~seen.ticked => ~triggered[j]
              /\ seen.ticked => (triggered[j] <=> (fs[j].name = Word(out[LatchOf(m)])))
        /\ seen.ticked /\ ~seen.lost => LastWord(Word(out[LatchOf(m)]))

SoundInv ==
    /\ IsSeen(seen)
    /\ model # NoModel /\ File[model].arm.announced => WordInv(model)

\* The announcers of a file.
LEMMA AnnouncerFacts ==
  ASSUME NEW m \in Models, File[m].arm.announced
  PROVE  LET fs == File[m].functions
         IN  /\ LatchOf(m) \in DOMAIN File[m].switches
             /\ \E a, d \in DOMAIN fs :
                   /\ fs[a].func = "PLAY" /\ fs[a].name = "armed" /\ IsLogic(fs[a].switch, LatchOf(m), FALSE)
                   /\ fs[d].func = "PLAY" /\ fs[d].name = "disarm" /\ IsLogic(fs[d].switch, LatchOf(m), TRUE)
                   /\ \A j \in DOMAIN fs : fs[j].func = "PLAY" => j \in {a, d}
BY LayoutAssumption DEF Announced, LatchOf

LEMMA AnnouncerFires ==
  ASSUME NEW m \in Models, File[m].arm.announced, NEW in, NEW o, LatchOf(m) \in DOMAIN o,
         NEW j \in DOMAIN File[m].functions, File[m].functions[j].func = "PLAY"
  PROVE  Fires(File[m].functions[j], in, o) <=> (File[m].functions[j].name = Word(o[LatchOf(m)]))
<1> DEFINE fs == File[m].functions
<1>1. PICK a, d \in DOMAIN fs :
                   /\ fs[a].func = "PLAY" /\ fs[a].name = "armed" /\ IsLogic(fs[a].switch, LatchOf(m), FALSE)
                   /\ fs[d].func = "PLAY" /\ fs[d].name = "disarm" /\ IsLogic(fs[d].switch, LatchOf(m), TRUE)
                   /\ \A k \in DOMAIN fs : fs[k].func = "PLAY" => k \in {a, d}
  BY AnnouncerFacts
<1>2. CASE j = a
  <2>1. TRUE \in Bool(fs[j].switch, in, o) <=> o[LatchOf(m)]
    BY <1>1, <1>2, LogicBool
  <2>2. fs[j].switch.src # "none" /\ fs[j].name = "armed"
    BY <1>1, <1>2 DEF IsLogic
  <2>3. QED BY <2>1, <2>2 DEF Fires, Word
<1>3. CASE j = d
  <2>1. TRUE \in Bool(fs[j].switch, in, o) <=> ~o[LatchOf(m)]
    BY <1>1, <1>3, LogicBool
  <2>2. fs[j].switch.src # "none" /\ fs[j].name = "disarm"
    BY <1>1, <1>3 DEF IsLogic
  <2>3. QED BY <2>1, <2>2 DEF Fires, Word
<1>4. QED BY <1>1, <1>2, <1>3

\* The announcers that fire say w, those that did say before.
Rings(m, fires, w, before) ==
    \A j \in DOMAIN File[m].functions : File[m].functions[j].func = "PLAY" =>
       /\ fires[j] <=> (File[m].functions[j].name = w)
       /\ triggered[j] <=> (File[m].functions[j].name = before)

\* Which announcers begin to sound in a tick: none, or the one of the latch.
LEMMA OneAnnounces ==
  ASSUME NEW m \in Models, File[m].arm.announced, NEW fires, NEW w \in Words, NEW before,
         Rings(m, fires, w, before)
  PROVE  /\ w = before => NewSounds(m, fires) = <<>>
         /\ w # before => NewSounds(m, fires) = <<w>>
<1> DEFINE fs == File[m].functions
           ringing == {j \in DOMAIN fs : fs[j].func = "PLAY" /\ fires[j] /\ ~triggered[j]}
           order == CHOOSE q \in [1..Cardinality(ringing) -> ringing] :
                       \A x, y \in DOMAIN q : x < y => q[x] < q[y]
<1>1. NewSounds(m, fires) = [i \in DOMAIN order |-> fs[order[i]].name]
  BY DEF NewSounds
<1>2. CASE w = before
  <2>1. ringing = {}
    BY <1>2 DEF Rings
  <2> HIDE DEF ringing
  <2>2. 1..Cardinality(ringing) = {}
    BY <2>1, FS_EmptySet
  <2>3. <<>> \in [1..Cardinality(ringing) -> ringing]
    BY <2>2
  <2>4. \A x, y \in DOMAIN <<>> : x < y => <<>>[x] < <<>>[y]
    OBVIOUS
  <2>5. order \in [1..Cardinality(ringing) -> ringing]
    BY <2>3, <2>4
  <2>6. DOMAIN order = {}
    BY <2>2, <2>5
  <2> HIDE DEF order
  <2>7. NewSounds(m, fires) = [i \in {} |-> fs[order[i]].name]
    BY <1>1, <2>6
  <2>8. [i \in {} |-> fs[order[i]].name] = <<>>
    OBVIOUS
  <2>9. QED BY <1>2, <2>7, <2>8
<1>3. CASE w # before
  <2>1. PICK k \in DOMAIN fs : ringing = {k} /\ fs[k].name = w
    <3>1. PICK a, d \in DOMAIN fs :
             /\ fs[a].func = "PLAY" /\ fs[a].name = "armed"
             /\ fs[d].func = "PLAY" /\ fs[d].name = "disarm"
             /\ \A k \in DOMAIN fs : fs[k].func = "PLAY" => k \in {a, d}
      BY AnnouncerFacts
    <3>2. CASE w = "armed"
      <4>1. ringing = {a}
        BY <1>3, <3>1, <3>2 DEF Rings
      <4>2. QED BY <3>1, <3>2, <4>1
    <3>3. CASE w = "disarm"
      <4>1. ringing = {d}
        BY <1>3, <3>1, <3>3 DEF Rings
      <4>2. QED BY <3>1, <3>3, <4>1
    <3>4. QED BY <3>2, <3>3 DEF Words
  <2> HIDE DEF ringing, fs
  <2>2. 1..Cardinality(ringing) = {1}
    BY <2>1, FS_Singleton
  <2>3. \E q \in [1..Cardinality(ringing) -> ringing] : \A x, y \in DOMAIN q : x < y => q[x] < q[y]
    <3> DEFINE q == [i \in {1} |-> k]
    <3>1. q \in [1..Cardinality(ringing) -> ringing]
      BY <2>1, <2>2
    <3>2. \A x, y \in DOMAIN q : ~(x < y)
      OBVIOUS
    <3> HIDE DEF q
    <3>3. QED BY <3>1, <3>2
  <2>4. order \in [1..Cardinality(ringing) -> ringing]
    BY <2>3
  <2> HIDE DEF order
  <2>5. order \in [{1} -> {k}]
    BY <2>1, <2>2, <2>4
  <2>6. NewSounds(m, fires) = [i \in {1} |-> w]
    BY <1>1, <2>1, <2>5
  <2>7. [i \in {1} |-> w] = <<w>>
    OBVIOUS
  <2>8. QED BY <1>3, <2>6, <2>7
<1>4. QED BY <1>2, <1>3

LEMMA QueueFacts ==
  ASSUME NEW q \in Seq(Words), NEW t, t = SubSeq(q, 1, Min({QueueCap, Len(q)}))
  PROVE  t \in Seq(Words) /\ (Len(q) <= QueueCap => t = q)
<1>1. QueueCap \in Nat /\ Len(q) \in Nat
  BY MixerAssumption
<1> DEFINE k == Min({QueueCap, Len(q)})
<1>2. k \in {QueueCap, Len(q)} /\ k <= QueueCap /\ k <= Len(q)
  <2>1. \E x \in {QueueCap, Len(q)} : \A y \in {QueueCap, Len(q)} : x <= y
    <3>1. CASE QueueCap <= Len(q)
      BY <1>1, <3>1
    <3>2. CASE Len(q) <= QueueCap
      BY <1>1, <3>2
    <3>3. QED BY <1>1, <3>1, <3>2
  <2>2. QED BY <2>1 DEF Min
<1> HIDE DEF k
<1>3. t = SubSeq(q, 1, k) /\ k \in 0..Len(q)
  BY <1>1, <1>2 DEF k
<1>4. t \in Seq(Words)
  <2>1. \A i \in 1..k : q[i] \in Words
    BY <1>1, <1>3
  <2>2. k \in Int
    BY <1>1, <1>3
  <2>3. SubSeq(q, 1, k) \in Seq(Words)
    BY <2>1, <2>2, SubSeqProperties
  <2>4. QED BY <1>3, <2>3
<1>5. ASSUME Len(q) <= QueueCap PROVE t = q
  <2>1. k = Len(q)
    BY <1>1, <1>2, <1>5
  <2>2. QED BY <1>3, <2>1
<1>6. QED BY <1>4, <1>5

LEMMA WordTicks ==
  ASSUME NEW m \in Models, File[m].arm.announced, NEW in \in Inputs, NEW dt \in Lateness,
         model = m, StackInv, Tick(in, dt), WordInv(m), IsSeen(seen)
  PROVE  WordInv(m)'
<1> DEFINE fs == File[m].functions
           L == LatchOf(m)
<1>1. PICK o, f : o = out' /\ f = triggered'
  OBVIOUS
<1>2. /\ f = [j \in DOMAIN fs |-> Fires(fs[j], in, o)]
      /\ LatchOf(m) \in DOMAIN o
  <2>1. o = [i \in DOMAIN File[m].switches |-> states'[i].on]
    BY <1>1 DEF Tick
  <2>2. f = [j \in DOMAIN fs |-> Fires(fs[j], in, o)]
    BY <1>1 DEF Tick
  <2>3. QED BY <2>1, <2>2, AnnouncerFacts
<1> DEFINE w == Word(o[L])
           before == IF seen.ticked THEN Word(out[L]) ELSE "nothing"
           new == NewSounds(m, f)
           ringing == sounds \o new
<1>3. w \in Words
  BY DEF Word, Words
<1>4. \A j \in DOMAIN fs : fs[j].func = "PLAY" =>
         (f[j] <=> (fs[j].name = w)) /\ (triggered[j] <=> (fs[j].name = before))
  <2> SUFFICES ASSUME NEW j \in DOMAIN fs, fs[j].func = "PLAY"
               PROVE  (f[j] <=> (fs[j].name = w)) /\ (triggered[j] <=> (fs[j].name = before))
    OBVIOUS
  <2>1. f[j] <=> Fires(fs[j], in, o)
    BY <1>2
  <2>2. Fires(fs[j], in, o) <=> (fs[j].name = w)
    BY <1>2, AnnouncerFires, Zenon
  <2>3. fs[j].name \in Words
    BY AnnouncerFacts DEF Words
  <2>4. triggered[j] <=> (fs[j].name = before)
    <3>1. CASE seen.ticked
      BY <3>1 DEF WordInv
    <3>2. CASE ~seen.ticked
      <4>1. ~triggered[j] /\ before = "nothing"
        BY <3>2 DEF WordInv
      <4>2. QED BY <2>3, <4>1 DEF Words
    <3>3. QED BY <3>1, <3>2
  <2>5. QED BY <2>1, <2>2, <2>4
<1>5. (w = before => new = <<>>) /\ (w # before => new = <<w>>)
  <2> HIDE DEF w, before, fs
  <2>1. Rings(m, f, w, before)
    BY <1>4 DEF Rings, fs
  <2>2. QED BY <1>3, <2>1, OneAnnounces, Zenon
<1>6. /\ sounds' = SubSeq(ringing, 1, Min({QueueCap, Len(ringing)}))
      /\ saying' = saying /\ heard' = heard
  BY <1>1 DEF Tick
<1>7. PICK latch, lost : /\ seen' = Gesture(m, in, dt, seen, latch, lost)
                         /\ lost <=> seen.lost \/ Len(ringing) > QueueCap
  BY <1>1 DEF Tick
<1>8. seen'.ticked /\ (seen'.lost <=> lost)
  BY <1>7 DEF Gesture
<1>9. sounds \in Seq(Words)
  BY DEF WordInv
<1> HIDE DEF w, before, new
<1>10. new \in Seq(Words) /\ ringing \in Seq(Words) /\ Len(ringing) \in Nat
  <2>1. <<w>> \in Seq(Words)
    BY <1>3
  <2>2. new \in Seq(Words)
    <3>1. CASE w = before
      <4>1. <<>> \in Seq(Words)
        OBVIOUS
      <4>2. QED BY <1>5, <3>1, <4>1
    <3>2. CASE w # before
      BY <1>5, <2>1, <3>2
    <3>3. QED BY <3>1, <3>2
  <2>3. QED BY <1>9, <2>2
<1>11. sounds' \in Seq(Words) /\ (Len(ringing) <= QueueCap => sounds' = ringing)
  <2> HIDE DEF ringing
  <2>1. PICK q : q = sounds'
    OBVIOUS
  <2>2. q \in Seq(Words) /\ (Len(ringing) <= QueueCap => q = ringing)
    BY <1>6, <1>10, <2>1, QueueFacts
  <2>3. QED BY <2>1, <2>2
<1>12. ASSUME ~seen'.lost PROVE LastWord(w)'
  <2>1. ~seen.lost /\ sounds' = ringing
    BY <1>7, <1>8, <1>10, <1>11, <1>12, MixerAssumption
  <2>2. CASE w = before
    <3>1. new = <<>> /\ ringing = sounds
      BY <1>5, <1>9, <2>2
    <3>2. seen.ticked /\ w = Word(out[L])
      <4>1. w # "nothing"
        BY <1>3 DEF Words
      <4>2. QED BY <2>2, <4>1 DEF before
    <3>3. LastWord(w)
      BY <2>1, <3>2 DEF WordInv
    <3>4. sounds' = sounds
      BY <2>1, <3>1
    <3>5. QED BY <1>6, <3>3, <3>4 DEF LastWord, w
  <2>3. CASE w # before
    <3>1. ringing = sounds \o <<w>>
      BY <1>5, <2>3
    <3>2. ringing # <<>> /\ ringing[Len(ringing)] = w
      BY <1>3, <1>9, <3>1
    <3>3. QED BY <2>1, <3>2 DEF LastWord, w
  <2>4. QED BY <2>2, <2>3
<1>13. \A j \in DOMAIN fs : fs[j].func = "PLAY" => (triggered'[j] <=> (fs[j].name = Word(out'[L])))
  BY <1>1, <1>4 DEF w
<1>14. QED BY <1>1, <1>8, <1>11, <1>12, <1>13 DEF WordInv, w

LEMMA TakeFacts ==
  ASSUME NEW s \in Seq(Words), s # <<>>
  PROVE  /\ Tail(s) \in Seq(Words)
         /\ Tail(s) # <<>> => Tail(s)[Len(Tail(s))] = s[Len(s)]
         /\ Tail(s) = <<>> => Head(s) = s[Len(s)]
<1>1. Len(s) \in Nat /\ Len(s) # 0
  OBVIOUS
<1>2. Tail(s) \in Seq(Words) /\ Len(Tail(s)) = Len(s) - 1 /\ Head(s) = s[1]
  BY <1>1
<1>3. ASSUME Tail(s) # <<>> PROVE Tail(s)[Len(Tail(s))] = s[Len(s)]
  <2>1. Len(Tail(s)) # 0
    BY <1>2, <1>3
  <2>2. QED BY <1>1, <1>2, <2>1
<1>4. ASSUME Tail(s) = <<>> PROVE Head(s) = s[Len(s)]
  <2>1. Len(s) = 1
    BY <1>1, <1>2, <1>4
  <2>2. QED BY <1>2, <2>1
<1>5. QED BY <1>2, <1>3, <1>4

LEMMA SoundInvHolds == MixerSpec => []SoundInv
<1>1. MixerInit => SoundInv
  <2> SUFFICES ASSUME MixerInit PROVE SoundInv
    OBVIOUS
  <2>1. /\ seen = NoGesture /\ sounds = <<>>
        /\ triggered = [j \in DOMAIN File[model].functions |-> FALSE]
    BY DEF MixerInit, Off
  <2>2. QED BY <2>1, NoGestureFacts DEF SoundInv, WordInv
<1>2. StackInv /\ SoundInv /\ [MixerNext]_mixerVars => SoundInv'
  <2> SUFFICES ASSUME StackInv, SoundInv, [MixerNext]_mixerVars PROVE SoundInv'
    OBVIOUS
  <2>0. PICK m : m = model
    OBVIOUS
  <2>1. ASSUME NEW in \in Inputs, NEW dt \in Lateness, Tick(in, dt) PROVE SoundInv'
    <3>1. m \in Models /\ m # NoModel /\ model' = m
      BY <2>0, <2>1 DEF Tick, StackInv
    <3>2. IsSeen(seen')
      <4>1. PICK latch, lost : seen' = Gesture(m, in, dt, seen, latch, lost)
        BY <2>0, <2>1 DEF Tick
      <4>2. QED BY <4>1 DEF Gesture, IsSeen
    <3>3. ASSUME File[m].arm.announced PROVE WordInv(m)'
      BY <2>0, <2>1, <3>1, <3>3, WordTicks DEF SoundInv
    <3>4. QED BY <3>1, <3>2, <3>3 DEF SoundInv
  <2>2. ASSUME UNCHANGED <<model, out, triggered, seen>>, WordInv(m) => WordInv(m)' PROVE SoundInv'
    BY <2>0, <2>2 DEF SoundInv
  <2>3. CASE TakeSound
    <3>1. /\ UNCHANGED <<model, out, triggered, seen, heard>>
          /\ saying = {} /\ sounds # <<>> /\ saying' = {Head(sounds)} /\ sounds' = Tail(sounds)
      BY <2>3 DEF TakeSound
    <3>2. ASSUME WordInv(m) PROVE WordInv(m)'
      <4>1. /\ sounds' \in Seq(Words)
            /\ sounds' # <<>> => sounds'[Len(sounds')] = sounds[Len(sounds)]
            /\ sounds' = <<>> => saying' = {sounds[Len(sounds)]}
        BY <3>1, <3>2, TakeFacts DEF WordInv
      <4>2. \A w : LastWord(w) => LastWord(w)'
        BY <3>1, <4>1 DEF LastWord
      <4>3. QED BY <3>1, <3>2, <4>1, <4>2 DEF WordInv
    <3>3. QED BY <2>2, <3>1, <3>2
  <2>4. CASE Say
    <3>1. /\ UNCHANGED <<model, out, triggered, seen, sounds>>
          /\ saying' = {} /\ \E name \in saying : heard' = name
      BY <2>4 DEF Say
    <3>2. \A w : LastWord(w) => LastWord(w)'
      BY <3>1 DEF LastWord
    <3>3. WordInv(m) => WordInv(m)'
      BY <3>1, <3>2 DEF WordInv
    <3>4. QED BY <2>2, <3>1, <3>3
  <2>5. CASE OldDrains
    <3>1. UNCHANGED <<model, out, triggered, sounds, saying, heard, seen>>
      BY <2>5 DEF OldDrains, TakeLate, SayLate, Retire
    <3>2. WordInv(m) => WordInv(m)'
      BY <3>1 DEF WordInv, LastWord
    <3>3. QED BY <2>2, <3>1, <3>2
  <2>6. ASSUME NEW n \in Models \cup {NoModel}, Store(n) PROVE SoundInv'
    <3>1. /\ model' = n /\ sounds' = <<>> /\ seen' = NoGesture
          /\ n # NoModel => triggered' = [j \in DOMAIN File[n].functions |-> FALSE]
      BY <2>6 DEF Store, NewTriggers, Off
    <3>2. QED BY <3>1, NoGestureFacts DEF SoundInv, WordInv
  <2>7. CASE UNCHANGED mixerVars
    <3>1. WordInv(m) => WordInv(m)'
      BY <2>7 DEF mixerVars, WordInv, LastWord
    <3>2. QED BY <2>2, <2>7, <3>1 DEF mixerVars
  <2>8. QED BY <2>1, <2>3, <2>4, <2>5, <2>6, <2>7 DEF MixerNext, IdleTick
<1>3. QED BY <1>1, <1>2, StackInvHolds, PTL DEF MixerSpec

\* For every file that announces its arm latch, the last announcement the active
\* stack's drain has handed over is what the latch is, unless its queue was full,
\* whatever the drains of replaced stacks still say.
THEOREM AnnouncedTruly == MixerSpec => []LastWordIsLatch
<1>1. SoundInv => LastWordIsLatch
  <2> SUFFICES ASSUME SoundInv, Running, ~seen.lost, File[model].arm.announced, sounds = <<>>, saying = {}
               PROVE  heard = IF out[File[model].arm.latch] THEN "armed" ELSE "disarm"
    BY DEF LastWordIsLatch
  <2>1. WordInv(model) /\ seen.ticked
    BY DEF SoundInv, Running
  <2>2. heard = Word(out[LatchOf(model)])
    BY <2>1 DEF WordInv, LastWord
  <2>3. QED BY <2>2 DEF Word, LatchOf
<1>2. QED BY <1>1, SoundInvHolds, PTL
=============================================================================
