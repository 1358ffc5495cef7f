---------------------------- MODULE MCFailsafeChain ---------------------------
(* The failsafe chain with short times: every comparison of the code keeps   *)
(* its order (heartbeat timeout < hold, joystick hold < handshake deadline). *)
EXTENDS FailsafeChain
===============================================================================
