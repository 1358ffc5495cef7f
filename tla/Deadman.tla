-------------------------------- MODULE Deadman -------------------------------
(***************************************************************************)
(* What the safety floor promises the aircraft, independently of how the   *)
(* RP2040 keeps its link states: the radio may be fed only while the Pi    *)
(* was heard recently, and once the feeding has stopped nothing but a new  *)
(* frame from the Pi starts it again.  A frame is dated by a clock that    *)
(* the controller may have read a while before, never by a later one, so   *)
(* the real silence is at most the one that is counted.                    *)
(***************************************************************************)
EXTENDS Naturals

CONSTANTS
    Bound,         \* the longest silence during which the radio is still fed
    DateBack       \* how far back a frame may be dated

VARIABLES
    silence,       \* time since the Pi was last heard, as it was dated
    feeding        \* may channel frames go to the radio?

dmVars == <<silence, feeding>>

DmInit == silence \in Nat /\ ~feeding

\* The Pi is heard: the silence restarts, and feeding may start.
Heard ==
    /\ silence' \in 0..DateBack
    /\ feeding' \in BOOLEAN /\ (feeding => feeding')

\* Time passes; it may not pass beyond the bound while the radio is fed.
Wait  == silence' >= silence /\ UNCHANGED feeding /\ (feeding => silence' <= Bound)

\* The feeding ends, by timeout or because the controller restarts.
Cease == ~feeding' /\ silence' >= silence

DmNext == Heard \/ Wait \/ Cease
DmSpec == DmInit /\ [][DmNext]_dmVars
===============================================================================
