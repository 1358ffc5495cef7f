---------------------------- MODULE MCArmMachine ----------------------------
(* ArmMachine for TLC: the bounds are in the cfg file. *)
EXTENDS ArmMachine
=============================================================================
