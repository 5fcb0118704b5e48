---------------------------- MODULE SensorModule ----------------------------
(***************************************************************************)
(* The firmware of the sensor modules (Wakeupduino) under any gateway that *)
(* names, in a MEAS command, the number of sensors activated on the board. *)
(* Commands come at any time and in any order, timers run out whenever     *)
(* they can, and D0 is raised and lowered at will.                         *)
(***************************************************************************)
EXTENDS Wakeupduino

CONSTANT Counts  \* Counts[a]: sensors of board a the gateway has activated

ASSUME CountsAssumption == Counts \in [Addr -> Nat]

CommandArrives(n) ==
  \/ Deliver(n, HaltCommand)
  \/ \E a \in Addr : Deliver(n, MeasCommand(a, Counts[a]))

FrameLeaves(n) ==
  /\ up[n] # << >>
  /\ up' = [up EXCEPT ![n] = Tail(@)]
  /\ UNCHANGED << fw, counter, inbox, statusDue, glitches >>

Steps(n) ==
  \/ Runs(n) \/ DrainEnds(n) \/ StatusTimeout(n) \/ CommandTimeout(n)
  \/ ReportStatus(n) \/ PinHigh(n) \/ PinLow(n)
  \/ CommandArrives(n) \/ FrameLeaves(n)

ModuleNext == \E n \in Node : Steps(n)

ModuleSpec == ModuleInit /\ [][ModuleNext]_moduleVars

-----------------------------------------------------------------------------
(* The measure a board should make next, when the loop is at l: the one the *)
(* loop is at, and the first one for a board that is not being measured.    *)
Due(l, a) ==
  CASE l.addr = a /\ l.pc = "do_measure"     -> l.i
    [] l.addr = a /\ l.pc = "measure_status" -> l.i + 1
    [] OTHER                                 -> 0

(* The counter of each board on the bus keeps step with the loop variable   *)
(* of the firmware (sensor_meas on the board, wait_for_command here), for   *)
(* whatever commands come in between, as long as no transfer failed.        *)
(* Nothing synchronises the two.  Needs every register of a board           *)
(* activated.                                                               *)
Keeps(l, c, fitted) ==
  \A a \in fitted : c[a] = IF Due(l, a) = Registers[a] THEN 0 ELSE Due(l, a)

InStep == glitches = 0 => \A n \in Node : Keeps(fw[n], counter[n], Fitted[n])

(* Each result leaves the module under the number of the sensor that made   *)
(* it (send_results), as long as no transfer failed.                        *)
TrueResults(q) ==
  \A i \in DOMAIN q : q[i].cmd = "MEAS" => q[i].data = << q[i].addr, q[i].reg >>

ResultsMatch == glitches = 0 => \A n \in Node : TrueResults(up[n])

(* What makes the two inductive: each command on its way, and the loop,     *)
(* cover their board exactly.                                               *)
WholeQueue(q) ==
  \A i \in DOMAIN q : q[i].cmd = "MEAS" => q[i].nb = Registers[q[i].addr]
WholeLoop(l) ==
  l.pc \in {"do_measure", "measure_status"} => l.nb = Registers[l.addr]

WholeBoards == \A n \in Node : WholeQueue(inbox[n]) /\ WholeLoop(fw[n])
=============================================================================
