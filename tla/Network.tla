------------------------------- MODULE Network -------------------------------
(***************************************************************************)
(* The names the gateway and the firmware share: a frame and a command     *)
(* carry a module's ZigBee address and a board's I2C address.              *)
(***************************************************************************)
CONSTANTS
  Node,  \* the modules, by ZigBee address
  Addr   \* I2C addresses of sensor boards
=============================================================================
