--------------------------- MODULE MCSensorModule ---------------------------
(* A board with two measures, one with one, and a commanded board that is   *)
(* not on the bus of the module.                                            *)
EXTENDS SensorModule, TLC

CONSTANTS environment, dust, sensoric

MCAddr == {environment, dust, sensoric}
MCRegisters == environment :> 2 @@ dust :> 1 @@ sensoric :> 2
SomeFitted == [n \in Node |-> {environment, dust}]
EverySensor == MCRegisters
=============================================================================
