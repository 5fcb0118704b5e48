---------------------------- MODULE Wakeupduino ----------------------------
(***************************************************************************)
(* The firmware of a sensor module (PolluxWakeupduino): an Arduino that    *)
(* talks to the gateway through the XBee on its serial line and to sensor  *)
(* boards over I2C.  loop() builds a Pollux object (which drains the       *)
(* serial line), announces the module, serves commands until CMD_HALT or   *)
(* five silent seconds, and starts over.                                   *)
(*                                                                         *)
(* PolluxXbee::send transmits and then reads ONE packet, of whatever kind, *)
(* as the status of the transmission; that is a step of its own here.      *)
(***************************************************************************)
EXTENDS Network, Naturals, Sequences

CONSTANTS
  Registers,      \* Registers[a]: number of measures board a cycles through
  Fitted,         \* Fitted[n]: boards on the bus of module n
  Junk,           \* a value no board measured
  PowerSwitched,  \* the XBee's D0 pin cuts the power of the module
  MaxQueue,       \* bound: frames in a queue
  MaxGlitches     \* bound: measures that fail on a fitted board

ASSUME AddrAssumption == Addr # {}
ASSUME RegistersAssumption == Registers \in [Addr -> Nat \ {0}]
ASSUME FittedAssumption == Fitted \in [Node -> SUBSET Addr]
ASSUME PowerAssumption == PowerSwitched \in BOOLEAN
ASSUME BoundsAssumption == MaxQueue \in Nat \ {0} /\ MaxGlitches \in Nat

VARIABLES
  fw,        \* where the firmware of each module is, and its measure loop
  counter,   \* per module and board: the measure the board makes next
  inbox,     \* packets the XBee passed to the serial line, not yet read
  statusDue, \* transmissions whose status the XBee has not reported yet
  up,        \* per module: frames on their way to the gateway
  glitches   \* measures that failed so far (a broken I2C transfer may spoil
             \* the next measure too, see BoardBus: that makes two)

moduleVars == << fw, counter, inbox, statusDue, up, glitches >>

Measure == UNION {{<< a, r >> : r \in 0 .. Registers[a] - 1} : a \in Addr}

InitFrame        == [cmd |-> "INIT"]
HaltReply        == [cmd |-> "HALT"]
Result(a, r, d)  == [cmd |-> "MEAS", addr |-> a, reg |-> r, data |-> d]
Uplink == {InitFrame, HaltReply}
          \cup [cmd : {"MEAS"}, addr : Addr, reg : Nat, data : Measure \cup {Junk}]

(* Packets on the serial line: commands of the gateway, and what the XBee   *)
(* says itself (transmission, modem and AT statuses).                       *)
MeasCommand(a, k) == [cmd |-> "MEAS", addr |-> a, nb |-> k]
HaltCommand       == [cmd |-> "HALT"]
Notice            == [cmd |-> "NOTICE"]
Packet == {HaltCommand, Notice} \cup [cmd : {"MEAS"}, addr : Addr, nb : Nat]

(* The states of loop(), named for the call the firmware is in.             *)
Phase == {"off", "drain", "send_wake_up", "wake_up_status", "wait_for_command",
          "do_measure", "measure_status", "halt", "halt_status", "self_halt"}

(* The loop variables of one module, and the counters of its boards.        *)
Loop ==
  {l \in [pc : Phase, addr : Addr, i : Nat, nb : Nat] :
     l.i <= l.nb /\ (l.pc = "measure_status" => l.i < l.nb)}
Counters == {c \in [Addr -> Nat] : \A a \in Addr : c[a] < Registers[a]}

At(n, pc) == fw[n].pc = pc
Goto(n, pc) == fw' = [fw EXCEPT ![n].pc = pc]

Idle(pc) == [pc |-> pc, addr |-> CHOOSE a \in Addr : TRUE, i |-> 0, nb |-> 0]

(* Before pass i of the nb passes over board a.                             *)
DoMeasure(a, i, nb) == [pc |-> "do_measure", addr |-> a, i |-> i, nb |-> nb]

ModuleTypeOK ==
  /\ fw \in [Node -> Loop]
  /\ counter \in [Node -> Counters]
  /\ inbox \in [Node -> Seq(Packet)]
  /\ statusDue \in [Node -> 0 .. MaxQueue]
  /\ up \in [Node -> Seq(Uplink)] /\ \A n \in Node : Len(up[n]) <= MaxQueue
  /\ glitches \in 0 .. MaxGlitches

(* A module that D0 powers is off until it is woken; one that is always     *)
(* powered is in loop() already.                                            *)
ModuleInit ==
  /\ fw = [n \in Node |-> Idle(IF PowerSwitched THEN "off" ELSE "drain")]
  /\ counter = [n \in Node |-> [a \in Addr |-> 0]]
  /\ inbox = [n \in Node |-> << >>]
  /\ statusDue = [n \in Node |-> 0]
  /\ up = [n \in Node |-> << >>]
  /\ glitches = 0

-----------------------------------------------------------------------------
(* The XBee of the module.                                                  *)

(* What D0 does is outside src/.  Either the pin switches the supply of     *)
(* the Arduino and its boards, or nothing follows: the sketch attaches no   *)
(* interrupt to it and never sleeps.                                        *)
PinHigh(n) ==
  /\ IF PowerSwitched /\ At(n, "off")
     THEN fw' = [fw EXCEPT ![n] = Idle("drain")]
     ELSE UNCHANGED fw
  /\ UNCHANGED << counter, inbox, statusDue, up, glitches >>

PinLow(n) ==
  /\ IF PowerSwitched
     THEN /\ fw' = [fw EXCEPT ![n] = Idle("off")]
          /\ counter' = [counter EXCEPT ![n] = [a \in Addr |-> 0]]
          /\ inbox' = [inbox EXCEPT ![n] = << >>]
     ELSE UNCHANGED << fw, counter, inbox >>
  /\ UNCHANGED << statusDue, up, glitches >>

(* A packet reaches the serial line; a module without power loses it.       *)
Enqueue(n, packet) ==
  IF At(n, "off") THEN UNCHANGED inbox
  ELSE /\ Len(inbox[n]) < MaxQueue
       /\ inbox' = [inbox EXCEPT ![n] = Append(@, packet)]

Deliver(n, packet) ==
  /\ Enqueue(n, packet)
  /\ UNCHANGED << fw, counter, statusDue, up, glitches >>

ReportStatus(n) ==
  /\ statusDue[n] > 0
  /\ statusDue' = [statusDue EXCEPT ![n] = @ - 1]
  /\ Enqueue(n, Notice)
  /\ UNCHANGED << fw, counter, up, glitches >>

-----------------------------------------------------------------------------
(* PolluxXbee::send, first half: the frame leaves.                          *)
Transmit(n, frame) ==
  /\ Len(up[n]) < MaxQueue /\ statusDue[n] < MaxQueue
  /\ up' = [up EXCEPT ![n] = Append(@, frame)]
  /\ statusDue' = [statusDue EXCEPT ![n] = @ + 1]

(* Second half: readPacket(500) takes the next packet, whatever it is, or   *)
(* runs out of time.                                                        *)
ReadStatus(n) ==
  /\ inbox[n] # << >>
  /\ inbox' = [inbox EXCEPT ![n] = Tail(@)]

NoStatus(n) == UNCHANGED inbox

(* Pollux(): packets that arrive while the line is drained are dropped.     *)
(* The drain may be as short as no time at all: its timer is not modelled.  *)
DrainPacket(n) ==
  /\ At(n, "drain") /\ inbox[n] # << >>
  /\ inbox' = [inbox EXCEPT ![n] = Tail(@)]
  /\ UNCHANGED << fw, counter, statusDue, up, glitches >>

DrainEnds(n) ==
  /\ At(n, "drain")
  /\ Goto(n, "send_wake_up")
  /\ UNCHANGED << counter, inbox, statusDue, up, glitches >>

SendWakeUp(n) ==
  /\ At(n, "send_wake_up")
  /\ Transmit(n, InitFrame)
  /\ Goto(n, "wake_up_status")
  /\ UNCHANGED << counter, inbox, glitches >>

AfterStatus_Repeats(n) ==  \* mutant: the loop variable is not counted up
  \/ At(n, "wake_up_status") /\ Goto(n, "wait_for_command")
  \/ At(n, "measure_status") /\ Goto(n, "do_measure")
  \/ At(n, "halt_status") /\ fw' = [fw EXCEPT ![n] = Idle("drain")]

(* After the status read, the firmware goes on where send was called.       *)
AfterStatus(n) ==
  \/ At(n, "wake_up_status") /\ Goto(n, "wait_for_command")
  \/ At(n, "measure_status")
     /\ fw' = [fw EXCEPT ![n] = DoMeasure(@.addr, @.i + 1, @.nb)]
  \/ At(n, "halt_status") /\ fw' = [fw EXCEPT ![n] = Idle("drain")]

StatusRead(n) ==
  /\ AfterStatus(n)
  /\ ReadStatus(n)
  /\ UNCHANGED << counter, statusDue, up, glitches >>

StatusTimeout(n) ==
  /\ AfterStatus(n)
  /\ NoStatus(n)
  /\ UNCHANGED << counter, statusDue, up, glitches >>

TakeCommand_FromOne(n) ==  \* mutant: the loop starts at 1
  /\ At(n, "wait_for_command") /\ inbox[n] # << >>
  /\ LET packet == Head(inbox[n]) IN
     \/ /\ packet.cmd = "MEAS"
        /\ fw' = [fw EXCEPT ![n] = DoMeasure(packet.addr, 1, packet.nb)]
     \/ packet.cmd = "HALT" /\ Goto(n, "halt")
     \/ packet.cmd = "NOTICE" /\ UNCHANGED fw
  /\ inbox' = [inbox EXCEPT ![n] = Tail(@)]
  /\ UNCHANGED << counter, statusDue, up, glitches >>

(* wait_for_command                                                         *)
TakeCommand(n) ==
  /\ At(n, "wait_for_command") /\ inbox[n] # << >>
  /\ LET packet == Head(inbox[n]) IN
     \/ /\ packet.cmd = "MEAS"
        /\ fw' = [fw EXCEPT ![n] = DoMeasure(packet.addr, 0, packet.nb)]
     \/ packet.cmd = "HALT" /\ Goto(n, "halt")
     \/ packet.cmd = "NOTICE" /\ UNCHANGED fw
  /\ inbox' = [inbox EXCEPT ![n] = Tail(@)]
  /\ UNCHANGED << counter, statusDue, up, glitches >>

CommandTimeout_Stays(n) ==  \* mutant: the module waits for ever
  /\ At(n, "wait_for_command")
  /\ UNCHANGED moduleVars

CommandTimeout(n) ==
  /\ At(n, "wait_for_command")
  /\ Goto(n, "self_halt")
  /\ UNCHANGED << counter, inbox, statusDue, up, glitches >>

-----------------------------------------------------------------------------
(* The measure loop: nb times do_measure(addr, i), each a measure of what   *)
(* the board's own counter says.                                            *)
Measuring(n) == At(n, "do_measure") /\ fw[n].i < fw[n].nb

MeasuresDone(n) ==
  /\ At(n, "do_measure") /\ fw[n].i = fw[n].nb
  /\ Goto(n, "wait_for_command")
  /\ UNCHANGED << counter, inbox, statusDue, up, glitches >>

Advance_NoWrap(n, a) ==  \* mutant: the counter is not reset
  counter' = [counter EXCEPT ![n][a] = @ + 1]

Advance(n, a) ==
  counter' = [counter EXCEPT ![n][a] = IF @ + 1 = Registers[a] THEN 0 ELSE @ + 1]

MeasureSucceeds(n) ==
  LET a == fw[n].addr IN
  /\ Measuring(n) /\ a \in Fitted[n]
  /\ Advance(n, a)
  /\ Transmit(n, Result(a, fw[n].i, << a, counter[n][a] >>))
  /\ Goto(n, "measure_status")
  /\ UNCHANGED << inbox, glitches >>

(* send_command gets no acknowledge: no result is sent.                     *)
MeasureRefused(n) ==
  LET a == fw[n].addr IN
  /\ Measuring(n)
  /\ \/ a \notin Fitted[n] /\ UNCHANGED glitches
     \/ a \in Fitted[n] /\ glitches < MaxGlitches /\ glitches' = glitches + 1
  /\ fw' = [fw EXCEPT ![n].i = @ + 1]
  /\ UNCHANGED << counter, inbox, statusDue, up >>

(* A later transfer fails: the board may or may not have measured, and what *)
(* is sent is what was left in the result buffer by an earlier measure; if  *)
(* the left-over type is none of those known, nothing is sent.              *)
MeasureGarbled(n) ==
  LET a == fw[n].addr IN
  /\ Measuring(n) /\ a \in Fitted[n]
  /\ glitches < MaxGlitches /\ glitches' = glitches + 1
  /\ Advance(n, a) \/ UNCHANGED counter
  /\ \/ /\ Transmit(n, Result(a, fw[n].i, Junk))
        /\ Goto(n, "measure_status")
     \/ /\ fw' = [fw EXCEPT ![n].i = @ + 1]
        /\ UNCHANGED << up, statusDue >>
  /\ UNCHANGED inbox

-----------------------------------------------------------------------------
(* halt(): after CMD_HALT the module says so; after a time-out it lowers    *)
(* its own D0 by a local AT command and reads one packet as the reply.      *)
SendHalt(n) ==
  /\ At(n, "halt")
  /\ Transmit(n, HaltReply)
  /\ Goto(n, "halt_status")
  /\ UNCHANGED << counter, inbox, glitches >>

SelfHalt(n) ==
  /\ At(n, "self_halt")
  /\ IF PowerSwitched
     THEN PinLow(n)
     ELSE /\ fw' = [fw EXCEPT ![n] = Idle("drain")]
          /\ inbox' = [inbox EXCEPT ![n] = Tail(Append(@, Notice))]
          /\ UNCHANGED << counter, statusDue, up, glitches >>

-----------------------------------------------------------------------------
(* The steps of one module, those in which a timer runs out kept apart.     *)
Runs(n) ==
  \/ DrainPacket(n) \/ SendWakeUp(n) \/ StatusRead(n) \/ TakeCommand(n)
  \/ MeasuresDone(n) \/ MeasureSucceeds(n) \/ MeasureRefused(n)
  \/ MeasureGarbled(n) \/ SendHalt(n) \/ SelfHalt(n)
=============================================================================
