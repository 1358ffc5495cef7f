------------------------------- MODULE MCMixer -------------------------------
(* Big Talon as shipped (configs/big_talon_zerotx.yml:414-451) but for its two *)
(* sounds, a latch with those two, a model with combinations only, one with    *)
(* every timed switch, and one with the throttle on the third channel.         *)
EXTENDS Mixer, TLC

Op(src, of, arg) == [src |-> src, of |-> of, arg |-> arg, not |-> FALSE, invert |-> FALSE]
Thr == Op("axis", "Thr", 5)
Pos(name, p) == Op("position", name, p)
L(i) == Op("logic", "", i)
N(v) == Op("constant", "", v)
Max1 == Op("max", "", 0)
Not(e) == [e EXCEPT !.not = TRUE]

Switch(func, def, andsw, delay, duration) ==
    [func |-> func, def |-> def, andsw |-> andsw, delay |-> delay, duration |-> duration]
Sw(func, def, andsw) == Switch(func, def, andsw, 0, 0)

Play(e, name) == [func |-> "PLAY", switch |-> e, def |-> << Op("track", name, 0) >>]
Override(e, c, v, enabled) == [func |-> "OVERRIDE", switch |-> e, def |-> << N(c), N(v), N(enabled) >>]
Mix(src, dest, weight) == [src |-> src, dest |-> dest, weight |-> weight]

Arm(latch, cut, announced) ==
    [latch |-> latch, cut |-> cut, announced |-> announced, button |-> Pos("SH", 2),
     guard |-> Pos("SF", 2), t1 |-> 0, t2 |-> 2, below |-> -99]

MCDef ==
    [talon |->
       [switches |-> << Sw("VNEG", << Thr, N(-99) >>, Pos("SF", 2)),
                        Sw("EDGE", << Pos("SH", 2), N(0), N(2) >>, L(1)),
                        Sw("STICKY", << L(2), L(4) >>, Unset),
                        Sw("VNEG", << Thr, N(-99) >>, Pos("SF", 0)) >>,
        functions |-> << Override(Not(L(3)), 0, -100, 1) >>,
        mixes |-> << Mix(Thr, 0, 100), Mix(Op("switch", "SF", 0), 5, 100) >>,
        arm |-> Arm(3, TRUE, FALSE)],
     herald |->
       [switches |-> << Sw("STICKY", << Pos("SH", 2), Pos("SF", 2) >>, Unset) >>,
        functions |-> << Play(L(1), "armed"), Play(Not(L(1)), "disarm") >>,
        mixes |-> << Mix(Thr, 0, 100) >>,
        arm |-> Arm(1, FALSE, TRUE)],
     plain |->
       [switches |-> << Sw("OR", << Pos("SH", 2), Op("telemetry", "", 0) >>, Unset),
                        Sw("XOR", << Not(L(1)), Max1 >>, Unset),
                        Sw("LESS", << Thr, N(-50) >>, Unset),
                        Sw("TIMER", << Thr >>, Unset) >>,
        functions |-> << Override(L(3), 4, 100, 0), Override(Max1, 4, 100, 1) >>,
        mixes |-> << Mix(Thr, 0, 100), Mix([Thr EXCEPT !.invert = TRUE], 4, 50),
                     Mix(Op("mode", "", 0), 4, 100), Mix(Op("selector", "SF", 0), 2, 100) >>,
        arm |-> Arm(1, FALSE, FALSE)],
     timed |->
       [switches |-> << Switch("AND", << Pos("SH", 2), Unset >>, Pos("SF", 2), 1, 2),
                        Switch("GREATER", << Thr, N(-50) >>, Unset, 0, 2),
                        Sw("TIMER", << N(1), N(2) >>, Unset),
                        Sw("ADIFFEGREATER", << Thr, N(100) >>, L(3)) >>,
        functions |-> << >>,
        mixes |-> << Mix(L(4), 0, 100), Mix(Op("button", "SH", 0), 5, 100) >>,
        arm |-> Arm(1, FALSE, FALSE)],
     aetr |->
       [switches |-> << Sw("VPOS", << Thr, N(0) >>, Unset) >>,
        functions |-> << >>,
        mixes |-> << Mix(Thr, 2, 100) >>,
        arm |-> Arm(1, FALSE, FALSE)]]

MCSticks == {-100, 0}
MCPositions == [SF |-> {0, 2}, SH |-> {0, 2}]
=============================================================================
