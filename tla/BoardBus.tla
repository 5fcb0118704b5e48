------------------------------ MODULE BoardBus ------------------------------
(***************************************************************************)
(* do_measure of the firmware and the I2C interrupts of one sensor board:  *)
(* eight transfers (write CMD_MEAS, read, write I2C_TYPE, read, write      *)
(* I2C_LEN, read, write I2C_GET, read), any of which may break off.        *)
(*                                                                         *)
(* A step is one interrupt of the board, USI_START_VECTOR or               *)
(* USI_OVERFLOW_VECTOR.  The slave holds SCL low while one runs, so master *)
(* and board move in lockstep; bus.phase says which bits are shifted next. *)
(* Traffic to other boards only resets overflowState, as every START does. *)
(***************************************************************************)
EXTENDS Buffer, Sequences

CONSTANTS
  Registers,  \* number of measures the board cycles through
  Readings,   \* Readings[r]: results the measure r may have
  MaxFaults   \* bound: transfers that break off

I2C_INT == 1
I2C_FLT == 2
I2C_LEN == 2
I2C_TYPE == 4
CMD_MEAS == 8
I2C_GET == 16
NO_REGISTER == 255   \* NO_CURRENT_REGISTER_SET
None == 255          \* "last" and "type" before their first use

(* An int has two bytes and a float four; every board sends one of them,   *)
(* and a result leaves a slot of the buffer free.                          *)
LengthOf(type) == IF type = I2C_INT THEN 2 ELSE 4
Reading ==
  {m \in [type : {I2C_INT, I2C_FLT}, bytes : Seq(Byte)] :
     Len(m.bytes) = LengthOf(m.type)}
NoReading == [type |-> None, bytes |-> << >>]

ASSUME RegistersAssumption == Registers \in Nat \ {0}
ASSUME ReadingsAssumption == Readings \in [0 .. Registers - 1 -> (SUBSET Reading) \ {{}}]
ASSUME RoomAssumption == BUFFER_SIZE > LengthOf(I2C_FLT)
ASSUME FaultsAssumption == MaxFaults \in Nat

VARIABLES
  pc,       \* the transfer do_measure is in
  bus,      \* what is on the bus, and the bytes still to transfer
  got,      \* bytes the master has read in this transfer
  res,      \* the i2c_result of the firmware
  overflowState, currentRegister,  \* usiTwiSlave.c
  usidr,                           \* the shift register of the board
  last, type, input_buffer, output_buffer,  \* TinyWire
  counter,  \* i of sensor_meas
  written,  \* bytes the running sensor_meas has written
  made,     \* history: what the board measured last
  fresh,    \* history: it did so in this do_measure
  calm,     \* history: measures begun and ended since a transfer broke off
  faults    \* transfers that broke off

masterVars == << pc, bus, got, res >>
slaveVars == << overflowState, currentRegister, usidr, last, type,
                input_buffer, output_buffer, counter, written >>
history == << made, fresh, calm, faults >>
vars == << masterVars, slaveVars, history >>

Writes == {"meas_cmd", "type_cmd", "len_cmd", "get_cmd"}
Reads == {"meas_reply", "type_reply", "len_reply", "get_reply"}

(* The register a transfer is about.                                        *)
Command(transfer) ==
  CASE transfer \in {"meas_cmd", "meas_reply"} -> CMD_MEAS
    [] transfer \in {"type_cmd", "type_reply"} -> I2C_TYPE
    [] transfer \in {"len_cmd", "len_reply"} -> I2C_LEN
    [] transfer \in {"get_cmd", "get_reply"} -> I2C_GET

BusPhase == {"idle", "address", "ack", "byte", "measuring", "reading", "reply"}
OverflowState == {"CHECK_ADDRESS", "SEND_DATA", "REQUEST_REPLY", "CHECK_REPLY",
                  "REQUEST_DATA", "GET_DATA"}

TypeOK ==
  /\ pc \in Writes \cup Reads \cup {"refused", "send"}
  /\ bus \in [phase : BusPhase, left : Nat]
  /\ got \in Seq(Byte)
  /\ res \in [type : Byte, len : Word, buf : Array]
  /\ overflowState \in OverflowState
  /\ currentRegister \in Byte /\ usidr \in Byte
  /\ last \in {I2C_GET, None} /\ type \in {I2C_INT, I2C_FLT, None}
  /\ input_buffer \in Buffers /\ output_buffer \in Buffers
  /\ counter \in 0 .. Registers - 1
  /\ made \in Reading \cup {NoReading}
  /\ written \in 0 .. Len(made.bytes)
  /\ fresh \in BOOLEAN /\ calm \in 0 .. 2 /\ faults \in 0 .. MaxFaults

Quiet == [phase |-> "idle", left |-> 0]

Init ==
  /\ pc = "meas_cmd" /\ bus = Quiet /\ got = << >>
  /\ \E t \in {I2C_INT, None} :  \* res.type is not initialized
       res = [type |-> t, len |-> 0, buf |-> [i \in Slots |-> 0]]
  /\ overflowState = "CHECK_ADDRESS" /\ currentRegister = NO_REGISTER
  /\ usidr = 0
  /\ last = None /\ type = None
  /\ input_buffer = Cleared /\ output_buffer = Cleared
  /\ counter = 0 /\ written = 0
  /\ made = NoReading /\ fresh = FALSE /\ calm = 2 /\ faults = 0

-----------------------------------------------------------------------------
(* The master: send_command and get_results go from transfer to transfer.   *)

(* requestFrom takes the low byte of its int argument, and no more than a   *)
(* buffer.  With 0 the library (outside src/) counts down from 256: it      *)
(* reads until nothing is left, and keeps no byte.                          *)
Quantity ==
  IF pc # "get_reply" THEN 1
  ELSE IF res.len % 256 > BUFFER_SIZE THEN BUFFER_SIZE ELSE res.len % 256
Kept(bytes) ==
  IF pc = "get_reply" /\ (res.len % 256 = 0 \/ res.len > 32767)
  THEN << >> ELSE bytes

(* recv: the bytes that came, and a '\0' behind them.  (Behind a full       *)
(* buffer that falls on Pollux::_halt, which is false already.)             *)
Received(buf, bytes) ==
  IF bytes = << >> THEN buf
  ELSE [i \in Slots |-> IF i < Len(bytes) THEN bytes[i + 1]
                        ELSE IF i = Len(bytes) THEN 0 ELSE buf[i]]

WriteEnds_RefusesLate(succeeds) ==  \* mutant: send_command fails with the type
  /\ \/ pc = "meas_cmd" /\ pc' = IF succeeds THEN "meas_reply" ELSE "refused"
     \/ pc = "type_cmd" /\ pc' = IF succeeds THEN "type_reply" ELSE "refused"
     \/ pc = "len_cmd" /\ pc' = IF succeeds THEN "len_reply" ELSE "send"
     \/ pc = "get_cmd" /\ pc' = IF succeeds THEN "get_reply" ELSE "send"
  /\ bus' = Quiet
  /\ UNCHANGED << got, res >>

WriteEnds(succeeds) ==
  /\ \/ pc = "meas_cmd" /\ pc' = IF succeeds THEN "meas_reply" ELSE "refused"
     \/ pc = "type_cmd" /\ pc' = IF succeeds THEN "type_reply" ELSE "len_cmd"
     \/ pc = "len_cmd" /\ pc' = IF succeeds THEN "len_reply" ELSE "send"
     \/ pc = "get_cmd" /\ pc' = IF succeeds THEN "get_reply" ELSE "send"
  /\ bus' = Quiet
  /\ UNCHANGED << got, res >>

(* recv is void in effect: type and length are taken from the buffer even   *)
(* if nothing was read into it.                                             *)
ReadEnds(bytes) ==
  LET buf == Received(res.buf, Kept(bytes)) IN
  /\ \/ pc = "meas_reply" /\ pc' = "type_cmd" /\ res' = [res EXCEPT !.buf = buf]
     \/ /\ pc = "type_reply" /\ pc' = "len_cmd"
        /\ res' = [res EXCEPT !.buf = buf, !.type = buf[0]]
     \/ /\ pc = "len_reply" /\ pc' = "get_cmd"
        /\ res' = [res EXCEPT !.buf = buf, !.len = buf[0] + 256 * buf[1]]
     \/ pc = "get_reply" /\ pc' = "send" /\ res' = [res EXCEPT !.buf = buf]
  /\ bus' = Quiet
  /\ got' = << >>

(* send_results, or the return without one; then the next do_measure.       *)
NextMeasure ==
  /\ pc \in {"send", "refused"}
  /\ pc' = "meas_cmd"
  /\ fresh' = FALSE
  /\ calm' = IF calm < 2 THEN calm + 1 ELSE 2
  /\ UNCHANGED << bus, got, res, slaveVars, made, faults >>

-----------------------------------------------------------------------------
(* The interrupts of the board.                                             *)

(* USI_START_VECTOR                                                         *)
StartCondition ==
  /\ bus.phase = "idle" /\ pc \in Writes \cup Reads
  /\ overflowState' = "CHECK_ADDRESS"
  /\ bus' = [phase |-> "address",
             left |-> IF pc \in Writes THEN 1
                      ELSE IF Quantity = 0 THEN BUFFER_SIZE + 1 ELSE Quantity]
  /\ UNCHANGED << pc, got, res, currentRegister, usidr, last, type,
                  input_buffer, output_buffer, counter, written, history >>

CheckAddress ==
  /\ bus.phase = "address" /\ overflowState = "CHECK_ADDRESS"
  /\ overflowState' = IF pc \in Reads THEN "SEND_DATA" ELSE "REQUEST_DATA"
  /\ bus' = [phase |-> "ack", left |-> bus.left]
  /\ UNCHANGED << pc, got, res, currentRegister, usidr, last, type,
                  input_buffer, output_buffer, counter, written, history >>

(* The acknowledge of the board went out: the master writes its byte, or is *)
(* done.                                                                    *)
RequestData ==
  /\ bus.phase = "ack" /\ overflowState = "REQUEST_DATA"
  /\ overflowState' = "GET_DATA"
  /\ \/ /\ bus.left > 0
        /\ bus' = [phase |-> "byte", left |-> bus.left]
        /\ UNCHANGED << pc, got, res >>
     \/ bus.left = 0 /\ WriteEnds(TRUE)
  /\ UNCHANGED << currentRegister, usidr, last, type, input_buffer,
                  output_buffer, counter, written, history >>

GetData_KeepsRegister ==  \* mutant: a value does not end its register
  /\ bus.phase = "byte" /\ overflowState = "GET_DATA"
  /\ overflowState' = "REQUEST_DATA"
  /\ usidr' = Command(pc)
  /\ \/ /\ currentRegister = NO_REGISTER
        /\ currentRegister' = Command(pc)
        /\ UNCHANGED input_buffer
     \/ /\ currentRegister # NO_REGISTER
        /\ UNCHANGED currentRegister
        /\ input_buffer' = Push(Push(input_buffer, currentRegister), Command(pc))
  /\ bus' = [phase |-> "ack", left |-> bus.left - 1]
  /\ UNCHANGED << pc, got, res, last, type, output_buffer, counter, written,
                  history >>

(* A byte without a current register selects one; with one it is a value    *)
(* for it, which _on_receive_handler files in the input buffer.             *)
GetData ==
  /\ bus.phase = "byte" /\ overflowState = "GET_DATA"
  /\ overflowState' = "REQUEST_DATA"
  /\ usidr' = Command(pc)
  /\ \/ /\ currentRegister = NO_REGISTER
        /\ currentRegister' = Command(pc)
        /\ UNCHANGED input_buffer
     \/ /\ currentRegister # NO_REGISTER
        /\ currentRegister' = NO_REGISTER
        /\ input_buffer' = Push(Push(input_buffer, currentRegister), Command(pc))
  /\ bus' = [phase |-> "ack", left |-> bus.left - 1]
  /\ UNCHANGED << pc, got, res, last, type, output_buffer, counter, written,
                  history >>

(* _on_request_handler for every register but CMD_MEAS.                     *)
Requested(reg) ==
  LET rest == IF reg = I2C_GET THEN I2C_GET ELSE last IN
  \/ reg = I2C_TYPE /\ usidr' = type /\ UNCHANGED << last, output_buffer >>
  \/ reg = I2C_LEN /\ usidr' = SizeOf(output_buffer) /\ UNCHANGED << last, output_buffer >>
  \/ /\ reg \notin {I2C_TYPE, I2C_LEN} /\ SizeOf(output_buffer) > 0
     /\ last' = rest
     /\ IF rest = I2C_GET
        THEN usidr' = Popped(output_buffer) /\ output_buffer' = Pop(output_buffer)
        ELSE usidr' = 0 /\ UNCHANGED output_buffer
  \/ /\ reg \notin {I2C_TYPE, I2C_LEN} /\ SizeOf(output_buffer) = 0
     /\ last' = None /\ usidr' = 0 /\ UNCHANGED output_buffer

(* The board is asked for a byte: after its address, or after the master    *)
(* acknowledged the one before.                                             *)
Asked ==
  \/ bus.phase = "ack" /\ overflowState = "SEND_DATA"
  \/ bus.phase = "reply" /\ overflowState = "CHECK_REPLY" /\ bus.left > 0

SendData_KeepsRegister ==  \* mutant: the current register is not forgotten
  /\ Asked /\ currentRegister # CMD_MEAS
  /\ Requested(currentRegister)
  /\ overflowState' = "REQUEST_REPLY"
  /\ bus' = [phase |-> "reading", left |-> bus.left]
  /\ UNCHANGED << pc, got, res, currentRegister, type, input_buffer, counter,
                  written, history >>

SendData ==
  /\ Asked /\ currentRegister # CMD_MEAS
  /\ Requested(currentRegister)
  /\ currentRegister' = NO_REGISTER
  /\ overflowState' = "REQUEST_REPLY"
  /\ bus' = [phase |-> "reading", left |-> bus.left]
  /\ UNCHANGED << pc, got, res, type, input_buffer, counter, written, history >>

(* CMD_MEAS: sensor_meas runs inside the interrupt.  It sets the type, and  *)
(* then writes its bytes one by one.                                        *)
Measure_NoClear ==  \* mutant: the output buffer is not cleared
  /\ Asked /\ currentRegister = CMD_MEAS
  /\ \E m \in Readings[counter] : made' = m /\ type' = m.type
  /\ fresh' = TRUE
  /\ written' = 0
  /\ bus' = [phase |-> "measuring", left |-> bus.left]
  /\ UNCHANGED << pc, got, res, overflowState, currentRegister, usidr, last,
                  input_buffer, output_buffer, counter, calm, faults >>

Measure ==
  /\ Asked /\ currentRegister = CMD_MEAS
  /\ output_buffer' = Cleared
  /\ \E m \in Readings[counter] : made' = m /\ type' = m.type
  /\ fresh' = TRUE
  /\ written' = 0
  /\ bus' = [phase |-> "measuring", left |-> bus.left]
  /\ UNCHANGED << pc, got, res, overflowState, currentRegister, usidr, last,
                  input_buffer, counter, calm, faults >>

Write ==
  /\ bus.phase = "measuring" /\ written < Len(made.bytes)
  /\ output_buffer' =
       IF SizeOf(output_buffer) = BUFFER_SIZE THEN output_buffer
       ELSE Push(output_buffer, made.bytes[written + 1])
  /\ written' = written + 1
  /\ UNCHANGED << masterVars, overflowState, currentRegister, usidr, last, type,
                  input_buffer, counter, history >>

MeasureReturns ==
  /\ bus.phase = "measuring" /\ written = Len(made.bytes)
  /\ counter' = IF counter + 1 = Registers THEN 0 ELSE counter + 1
  /\ usidr' = 0
  /\ currentRegister' = NO_REGISTER
  /\ overflowState' = "REQUEST_REPLY"
  /\ bus' = [phase |-> "reading", left |-> bus.left]
  /\ UNCHANGED << pc, got, res, last, type, input_buffer, output_buffer,
                  written, history >>

(* The byte is out.                                                         *)
RequestReply ==
  /\ bus.phase = "reading" /\ overflowState = "REQUEST_REPLY"
  /\ overflowState' = "CHECK_REPLY"
  /\ got' = Append(got, usidr)
  /\ bus' = [phase |-> "reply", left |-> bus.left - 1]
  /\ UNCHANGED << pc, res, currentRegister, usidr, last, type, input_buffer,
                  output_buffer, counter, written, history >>

(* The master does not acknowledge the last byte; the board waits for the   *)
(* next START.                                                              *)
CheckReply ==
  /\ bus.phase = "reply" /\ overflowState = "CHECK_REPLY" /\ bus.left = 0
  /\ ReadEnds(got)
  /\ UNCHANGED << slaveVars, history >>

(* A transfer breaks off: the library returns what it has.  Right after the *)
(* START the board may see a STOP, and forgets its register.  While it      *)
(* holds SCL low, measuring, there is no START nor STOP.                    *)
BreaksOff ==
  /\ faults < MaxFaults /\ faults' = faults + 1
  /\ calm' = 0
  /\ bus.phase \notin {"idle", "measuring"}
  /\ \/ pc \in Writes /\ WriteEnds(FALSE)
     \/ pc \in Reads /\ ReadEnds(got)
  /\ \/ UNCHANGED currentRegister
     \/ bus.phase = "address" /\ currentRegister' = NO_REGISTER
  /\ UNCHANGED << overflowState, usidr, last, type, input_buffer, output_buffer,
                  counter, written, made, fresh >>

Next ==
  \/ StartCondition \/ CheckAddress \/ RequestData \/ GetData
  \/ SendData \/ Measure \/ Write \/ MeasureReturns
  \/ RequestReply \/ CheckReply
  \/ BreaksOff \/ NextMeasure

Spec == Init /\ [][Next]_vars

-----------------------------------------------------------------------------
(* The bytes written and not yet popped are in the buffer, in their order:  *)
(* 8-bit indices, a rear of 255 and a size computed from both never show    *)
(* (Buffer, TinyWire::write).  The boards send less than a buffer.          *)
QueueHolds ==
  LET size == SizeOf(output_buffer) IN
  /\ size <= written
  /\ \A k \in 1 .. size :
       output_buffer.queue[output_buffer.front + k - 1]
         = made.bytes[written - size + k]

(* What send_results sends is the type and the bytes of the one measure the *)
(* board made for it.                                                       *)
Truth ==
  /\ fresh
  /\ res.type = made.type
  /\ \A k \in 1 .. Len(made.bytes) : res.buf[k - 1] = made.bytes[k]

(* A result is the truth if no transfer broke off in this do_measure nor in *)
(* the one before: whatever state a broken transfer left firmware and board *)
(* in, one undisturbed do_measure ends it (send_command, get_results).      *)
ReadoutTrue == pc = "send" /\ calm = 2 => Truth

(* "for a given measure request it from the sensor" (do_measure,            *)
(* PolluxCommunicator.h:138): a result is the truth if no transfer broke    *)
(* off in this do_measure.                                                  *)
ReadoutAlone == pc = "send" /\ calm >= 1 => Truth

(* However transfers break off, a board measures at most once in a          *)
(* do_measure, and only as the reply to CMD_MEAS.                           *)
MeasuresOnce ==
  [][Measure => ~fresh /\ pc = "meas_reply"]_vars

-----------------------------------------------------------------------------
(* The promise of Readout.  A board that has measured in the running call   *)
(* is one ahead of the counter the call began with, which is shown until    *)
(* the call ends.                                                           *)
Ended == pc \in {"send", "refused"}
Before(r) == IF r = 0 THEN Registers - 1 ELSE r - 1
CounterOfCall ==
  IF fresh /\ ~Ended /\ bus.phase # "measuring" THEN Before(counter) ELSE counter

Outcome ==
  IF pc = "send" THEN "sent" ELSE IF pc = "refused" THEN "refused" ELSE "running"

(* What send_results sends: nothing, if the type is none it knows.          *)
Sent ==
  IF pc = "send" /\ res.type \in {I2C_INT, I2C_FLT}
  THEN [type |-> res.type, bytes |-> [k \in 1 .. LengthOf(res.type) |-> res.buf[k - 1]]]
  ELSE NoReading

R == INSTANCE Readout WITH
       Result  <- Reading,
       Nothing <- NoReading,
       counter <- CounterOfCall,
       call    <- Outcome,
       result  <- Sent,
       upset   <- 2 - calm

(* Eight transfers and the interrupts of the board amount to one call that  *)
(* succeeds, is refused or is garbled; one that is refused left the board   *)
(* where it was, and a broken transfer garbles two calls at most            *)
(* (do_measure, send_command, get_results, USI_OVERFLOW_VECTOR).            *)
KeepsReadout == R!Spec
=============================================================================
