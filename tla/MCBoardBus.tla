----------------------------- MODULE MCBoardBus -----------------------------
(* A board that cycles through an int and a float, as PolluxSensorBoard.   *)
EXTENDS BoardBus, TLC

IntThenFloat ==
  (0 :> {[type |-> I2C_INT, bytes |-> << 50, 0 >>],
         [type |-> I2C_INT, bytes |-> << 255, 255 >>]})
  @@
  (1 :> {[type |-> I2C_FLT, bytes |-> << 0, 16, 2, 65 >>],
         [type |-> I2C_FLT, bytes |-> << 1, 8, 4, 66 >>]})
=============================================================================
