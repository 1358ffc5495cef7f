---------------------------- MODULE HeartbeatLed ----------------------------
(***************************************************************************)
(* The LED by which the operator sees that the mixer loop is alive         *)
(* (internal/heartbeat): the loop ticks, a goroutine of its own toggles    *)
(* the line while the last tick is fresh.                                  *)
(*                                                                         *)
(* A tick of time is a ToggleInterval.                                     *)
(***************************************************************************)
EXTENDS Integers

CONSTANT Freshness  \* in ToggleIntervals

ASSUME LedAssumption == Freshness \in Nat

VARIABLES quiet,    \* the age of the last Tick
          ledWoken, \* the ticker of the goroutine has fired
          toggler,  \* the goroutine: "ticker", "write", or "returned"
          next,     \* the value it writes
          lit,      \* state of run: the value it toggled to last
          line,     \* the line the LED hangs on
          closing   \* Close: "no", "stop", "off", "closed"

ledVars == <<quiet, ledWoken, toggler, next, lit, line, closing>>

\* Tick, from the mixer loop.
Tick == quiet' = 0 /\ UNCHANGED <<ledWoken, toggler, next, lit, line, closing>>

\* run: a wake of the ticker.
Toggle ==
    /\ toggler = "ticker" /\ ledWoken /\ ledWoken' = FALSE /\ toggler' = "write"
    /\ lit' = IF quiet > Freshness THEN 0 ELSE 1 - lit
    /\ next' = lit' /\ UNCHANGED <<quiet, line, closing>>

SetValue ==
    /\ toggler = "write" /\ toggler' = "ticker" /\ line' = next
    /\ UNCHANGED <<quiet, ledWoken, next, lit, closing>>

\* run: the stop channel is closed.
StopToggling ==
    /\ toggler = "ticker" /\ closing # "no" /\ toggler' = "returned"
    /\ UNCHANGED <<quiet, ledWoken, next, lit, line, closing>>

CloseLed ==
    /\ closing = "no" /\ closing' = "stop"
    /\ UNCHANGED <<quiet, ledWoken, toggler, next, lit, line>>

\* Close waits for the goroutine, then turns the LED off.
TurnOff ==
    /\ closing = "stop" /\ toggler = "returned" /\ closing' = "closed" /\ line' = 0
    /\ UNCHANGED <<quiet, ledWoken, toggler, next, lit>>

\* The goroutine answers its ticker within the interval, and so does Close.
LedTime ==
    /\ ~ledWoken /\ toggler # "write" /\ closing # "stop"
    /\ quiet' = IF quiet > Freshness + 1 THEN quiet ELSE quiet + 1
    /\ ledWoken' = (toggler = "ticker")
    /\ UNCHANGED <<toggler, next, lit, line, closing>>

LedInit ==
    /\ quiet = 0 /\ ledWoken = FALSE /\ toggler = "ticker" /\ next = 0 /\ lit = 0 /\ line = 0
    /\ closing = "no"

LedNext == Tick \/ Toggle \/ SetValue \/ StopToggling \/ CloseLed \/ TurnOff \/ LedTime

LedSpec == LedInit /\ [][LedNext]_ledVars

----------------------------------------------------------------------------
\* A lit LED means a mixer loop that ran within the freshness window and the
\* interval after it, and nothing is left lit by a daemon that has shut down:
\* heartbeat.go run and Close.
LedIsHonest == line = 1 => quiet <= Freshness + 1 /\ closing # "closed"
=============================================================================
