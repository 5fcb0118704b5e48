--------------------------- MODULE BoardBusProofs ---------------------------
(***************************************************************************)
(* Proofs about BoardBus, for every size of the buffer, every set of       *)
(* readings and any number of broken transfers: the ring buffer is a       *)
(* queue, a board measures once per command, and a readout two undisturbed *)
(* measures old is the truth.                                              *)
(***************************************************************************)
EXTENDS BoardBus, TLAPS

-----------------------------------------------------------------------------
(* The inductive invariant, by parts.                                       *)

(* Where master and board stand in a transfer.                              *)
BusInv ==
  /\ pc \in {"refused", "send"} => bus.phase = "idle"
  /\ bus.phase \in {"address", "byte", "measuring", "reading"} => bus.left > 0
  /\ bus.phase = "byte" => pc \in Writes
  /\ bus.phase \in {"measuring", "reading", "reply"} => pc \in Reads
  /\ bus.phase # "idle" /\ pc \in Writes => bus.left <= 1
  /\ bus.phase = "ack" /\ pc \in Reads =>
       overflowState = "SEND_DATA" /\ bus.left > 0
  /\ bus.phase = "ack" /\ pc \in Writes => overflowState = "REQUEST_DATA"
  /\ bus.phase \notin {"reading", "reply"} => got = << >>
  /\ pc \in Reads \ {"get_reply"} =>
       /\ bus.phase \notin {"idle", "reply"} => bus.left = 1
       /\ bus.phase = "reply" => bus.left = 0 /\ Len(got) = 1
       /\ bus.phase = "reading" => got = << >>

(* The ring buffer is a queue of what was written and not yet popped.       *)
QueueInv ==
  /\ output_buffer.front <= written
  /\ output_buffer.rear = IF written = 0 THEN 255 ELSE written - 1
  /\ \A i \in Slots : output_buffer.front <= i /\ i < written =>
       output_buffer.queue[i] = made.bytes[i + 1]
  /\ bus.phase = "measuring" =>
       /\ output_buffer.front = 0
       /\ written = 0 => output_buffer.queue[0] = 0
       /\ made # NoReading
  /\ bus.phase # "measuring" => written = Len(made.bytes)
  /\ made # NoReading => type = made.type

(* A board that is asked to measure is asked by the reply to CMD_MEAS.      *)
CommandInv ==
  /\ pc \in Reads \ {"meas_reply"} => currentRegister # CMD_MEAS
  /\ pc \in Writes \ {"meas_cmd"} /\ bus.phase = "ack" /\ bus.left = 0 =>
       currentRegister # CMD_MEAS
  /\ pc \in {"meas_cmd", "refused"} => ~fresh
  /\ pc = "meas_reply" /\ bus.phase \in {"idle", "address", "ack"} => ~fresh
  /\ bus.phase = "measuring" =>
       pc = "meas_reply" /\ fresh /\ currentRegister = CMD_MEAS

(* The register the master has written and the board not yet served.        *)
Selected ==
  \/ pc \in Writes /\ bus.phase = "ack" /\ bus.left = 0
  \/ pc \in Reads /\ bus.phase \in {"idle", "address", "ack", "measuring"}

(* In an undisturbed do_measure the board's register is the master's; the   *)
(* one left by a broken transfer is gone with the first write.              *)
RegisterInv ==
  calm >= 1 =>
    /\ pc # "refused"
    /\ Selected =>
         \/ currentRegister = Command(pc)
         \/ /\ calm = 1 /\ pc \in {"meas_cmd", "meas_reply"}
            /\ bus.phase # "measuring" /\ currentRegister = NO_REGISTER
    /\ ~Selected =>
         currentRegister = NO_REGISTER \/ (calm = 1 /\ pc = "meas_cmd")

(* The board has measured for this do_measure ...                           *)
Measured ==
  \/ pc = "meas_reply" /\ bus.phase \in {"reading", "reply"}
  \/ pc \in (Writes \cup Reads) \ {"meas_cmd", "meas_reply"}
  \/ pc = "send"

(* ... and the master has begun to fetch the bytes.                         *)
Fetching == pc = "get_reply" /\ bus.phase \in {"reading", "reply"}

(* What has reached the firmware of the measure the board made: its type,   *)
(* its length, and byte by byte its value.                                  *)
Carried ==
  /\ fresh /\ made # NoReading
  /\ ~Fetching /\ pc # "send" => output_buffer.front = 0
  /\ pc = "type_reply" /\ bus.phase = "reading" => usidr = made.type
  /\ pc = "type_reply" /\ bus.phase = "reply" => got[1] = made.type
  /\ pc \in {"len_cmd", "len_reply", "get_cmd", "get_reply", "send"} =>
       res.type = made.type
  /\ pc = "len_reply" /\ bus.phase = "reading" => usidr = Len(made.bytes)
  /\ pc = "len_reply" /\ bus.phase = "reply" => got[1] = Len(made.bytes)
  /\ pc \in {"get_cmd", "get_reply"} => res.len = Len(made.bytes)
  /\ pc = "get_reply" /\ bus.phase # "idle" =>
       Len(got) + bus.left = Len(made.bytes)
  /\ Fetching =>
       /\ last = I2C_GET
       /\ \A k \in 1 .. Len(got) : got[k] = made.bytes[k]
  /\ Fetching /\ bus.phase = "reading" =>
       /\ output_buffer.front = Len(got) + 1
       /\ usidr = made.bytes[Len(got) + 1]
  /\ Fetching /\ bus.phase = "reply" => output_buffer.front = Len(got)
  /\ pc = "send" => \A k \in 1 .. Len(made.bytes) : res.buf[k - 1] = made.bytes[k]

(* It has when the last two do_measure were undisturbed.                    *)
DataInv == calm = 2 /\ Measured => Carried

IInv == TypeOK /\ BusInv /\ QueueInv /\ CommandInv /\ RegisterInv /\ DataInv

-----------------------------------------------------------------------------
USE DEF I2C_INT, I2C_FLT, I2C_LEN, I2C_TYPE, CMD_MEAS, I2C_GET, NO_REGISTER, None,
        Writes, Reads

(* Byte and Word as intervals of the integers.                              *)
LEMMA Bytes == \A x : x \in Byte <=> x \in Int /\ 0 <= x /\ x <= 255
BY DEF Byte

LEMMA Words == \A x : x \in Word <=> x \in Int /\ 0 <= x /\ x <= 65535
BY DEF Word

(* The ring buffer.                                                         *)
LEMMA BufferFields ==
  ASSUME NEW b, b \in Buffers
  PROVE  /\ b.queue \in Array
         /\ b.front \in Slots /\ b.rear \in Byte
BY DEF Buffers

LEMMA IsBuffer ==
  ASSUME NEW q \in Array, NEW f \in Slots, NEW r \in Byte
  PROVE  [queue |-> q, front |-> f, rear |-> r] \in Buffers
BY DEF Buffers

LEMMA SizeInBuffer ==
  ASSUME NEW b, b \in Buffers
  PROVE  SizeOf(b) \in 0 .. BUFFER_SIZE
<1>1. b.front \in Slots /\ b.rear \in Byte BY BufferFields
<1>2. QED BY <1>1, Bytes, BufferSizeAssumption DEF SizeOf, Slots

(* The index arithmetic of push and pop stays in the array.                 *)
LEMMA PushInBuffers ==
  ASSUME NEW b, b \in Buffers, NEW data \in Byte
  PROVE  Push(b, data) \in Buffers
<1>1. /\ b.queue \in Array
      /\ b.front \in Slots /\ b.rear \in Byte BY BufferFields
<1>2. NextRear(b) \in Byte BY <1>1, Bytes, BufferSizeAssumption DEF NextRear, Slots
<1>3. [b.queue EXCEPT ![NextRear(b)] = data] \in Array BY <1>1 DEF Array
<1>4. QED BY <1>1, <1>2, <1>3, IsBuffer DEF Push

LEMMA PopInBuffers ==
  ASSUME NEW b, b \in Buffers
  PROVE  Pop(b) \in Buffers /\ Popped(b) \in Byte
<1>1. /\ b.queue \in Array
      /\ b.front \in Slots /\ b.rear \in Byte BY BufferFields
<1>2. 0 \in Byte /\ 255 \in Byte /\ b.queue[b.front] \in Byte BY <1>1, Bytes DEF Array
<1>3. [b.queue EXCEPT ![b.front] = 0] \in Array BY <1>1, <1>2 DEF Array
<1>4. (IF b.front = BUFFER_SIZE - 1 THEN 0 ELSE b.front + 1) \in Slots
  BY <1>1, BufferSizeAssumption DEF Slots
<1>5. Pop(b) \in Buffers BY <1>1, <1>3, <1>4, IsBuffer DEF Pop
<1>6. QED BY <1>2, <1>5 DEF Popped

LEMMA ClearedInBuffers == Cleared \in Buffers
<1>1. [i \in Slots |-> 0] \in Array BY Bytes DEF Array
<1>2. 0 \in Slots /\ 255 \in Byte BY BufferSizeAssumption, Bytes DEF Slots
<1>3. QED BY <1>1, <1>2, IsBuffer DEF Cleared

(* What the type invariant says of the control state.                       *)
LEMMA ControlTypes ==
  ASSUME TypeOK
  PROVE  /\ pc \in Writes \cup Reads \cup {"refused", "send"}
         /\ bus.phase \in {"idle", "address", "ack", "byte", "measuring", "reading", "reply"}
         /\ bus.left \in Nat
         /\ calm \in 0 .. 2 /\ fresh \in BOOLEAN
         /\ currentRegister \in Byte
BY DEF TypeOK, BusPhase

(* A reading has two or four bytes, and room in the buffer.                 *)
LEMMA MadeFits ==
  ASSUME TypeOK
  PROVE  /\ made.bytes \in Seq(Byte) /\ Len(made.bytes) < BUFFER_SIZE
         /\ Len(made.bytes) \in {0, 2, 4}
         /\ made # NoReading => Len(made.bytes) \in {2, 4} /\ made.type \in {1, 2}
<1>1. BUFFER_SIZE \in Int /\ BUFFER_SIZE > 4
  BY RoomAssumption, BufferSizeAssumption DEF LengthOf
<1>2. CASE made = NoReading BY <1>1, <1>2 DEF NoReading
<1>3. CASE made # NoReading
  <2>1. made \in Reading BY <1>3 DEF TypeOK
  <2>2. /\ made.bytes \in Seq(Byte) /\ made.type \in {1, 2}
        /\ Len(made.bytes) = LengthOf(made.type)
    BY <2>1 DEF Reading
  <2>3. QED BY <1>1, <2>2 DEF LengthOf
<1>4. QED BY <1>2, <1>3

(* size() is the number of bytes written and not popped.                    *)
LEMMA SizeIsUnread ==
  ASSUME TypeOK, QueueInv
  PROVE  SizeOf(output_buffer) = written - output_buffer.front
<1>1. output_buffer.front \in Slots BY BufferFields DEF TypeOK
<1>2. written \in 0 .. Len(made.bytes) BY DEF TypeOK
<1>3. /\ output_buffer.front <= written
      /\ output_buffer.rear = IF written = 0 THEN 255 ELSE written - 1
  BY DEF QueueInv
<1>4. QED BY <1>1, <1>2, <1>3, MadeFits, BufferSizeAssumption DEF SizeOf, Slots

(* pop takes the byte written first.                                        *)
LEMMA PopTakesFirst ==
  ASSUME TypeOK, QueueInv, SizeOf(output_buffer) > 0
  PROVE  /\ output_buffer.front \in Nat /\ output_buffer.front < written
         /\ Popped(output_buffer) = made.bytes[output_buffer.front + 1]
         /\ Pop(output_buffer).front = output_buffer.front + 1
         /\ Pop(output_buffer).rear = output_buffer.rear
         /\ \A i \in Slots : i > output_buffer.front =>
              Pop(output_buffer).queue[i] = output_buffer.queue[i]
<1>1. /\ output_buffer.front \in Slots /\ output_buffer.rear \in Byte
      /\ output_buffer.queue \in Array
  BY BufferFields DEF TypeOK
<1>2. written \in 0 .. Len(made.bytes) BY DEF TypeOK
<1>3. output_buffer.front < written /\ output_buffer.front \in Nat
  BY <1>1, <1>2, SizeIsUnread, MadeFits, BufferSizeAssumption DEF Slots
<1>4. output_buffer.rear = written - 1 BY <1>2, <1>3, MadeFits DEF QueueInv
<1>5. ~PopFails(output_buffer) BY <1>2, <1>3, <1>4, MadeFits DEF PopFails
<1>6. output_buffer.front # BUFFER_SIZE - 1
  BY <1>2, <1>3, MadeFits, BufferSizeAssumption
<1>7. Pop(output_buffer) = [queue |-> [output_buffer.queue EXCEPT ![output_buffer.front] = 0],
                            front |-> output_buffer.front + 1,
                            rear |-> output_buffer.rear]
  BY <1>5, <1>6 DEF Pop
<1>8. \A i \in Slots : i > output_buffer.front =>
        [output_buffer.queue EXCEPT ![output_buffer.front] = 0][i] = output_buffer.queue[i]
  BY <1>1, BufferSizeAssumption DEF Slots, Array
<1>9. Popped(output_buffer) = output_buffer.queue[output_buffer.front]
  BY <1>5 DEF Popped
<1>10. QED BY <1>1, <1>3, <1>7, <1>8, <1>9 DEF QueueInv

(* push puts a byte behind those written before.                            *)
LEMMA PushAppends ==
  ASSUME TypeOK, QueueInv, bus.phase = "measuring", written < Len(made.bytes),
         NEW data
  PROVE  /\ SizeOf(output_buffer) # BUFFER_SIZE
         /\ Push(output_buffer, data).front = 0
         /\ Push(output_buffer, data).rear = written
         /\ written \in Slots
         /\ Push(output_buffer, data).queue = [output_buffer.queue EXCEPT ![written] = data]
<1>1. written \in 0 .. Len(made.bytes) BY DEF TypeOK
<1>2. /\ output_buffer.front = 0
      /\ output_buffer.rear = IF written = 0 THEN 255 ELSE written - 1
      /\ written = 0 => output_buffer.queue[0] = 0
  BY DEF QueueInv
<1>3. written \in Slots /\ written + 1 < BUFFER_SIZE
  BY <1>1, MadeFits, BufferSizeAssumption DEF Slots
<1>4. NextRear(output_buffer) = written
  BY <1>1, <1>2, <1>3, MadeFits, BufferSizeAssumption DEF NextRear
<1>5. SizeOf(output_buffer) # BUFFER_SIZE
  BY <1>1, <1>2, <1>3, SizeIsUnread, MadeFits, BufferSizeAssumption
<1>6. ~(output_buffer.front = written /\ output_buffer.queue[output_buffer.front] # 0)
  BY <1>2
<1>7. QED BY <1>2, <1>3, <1>4, <1>5, <1>6 DEF Push

(* What recv leaves in the buffer.                                          *)
LEMMA ReceivedType ==
  ASSUME NEW buf \in Array, NEW bytes \in Seq(Byte)
  PROVE  Received(buf, bytes) \in Array
<1>1. SUFFICES ASSUME bytes # << >>
               PROVE  Received(buf, bytes) \in Array
  BY DEF Received
<1>2. \A i \in Slots : (IF i < Len(bytes) THEN bytes[i + 1]
                        ELSE IF i = Len(bytes) THEN 0 ELSE buf[i]) \in Byte
  BY BufferSizeAssumption, Bytes DEF Slots, Array
<1>3. QED BY <1>1, <1>2 DEF Received, Array

(* The master asks for what the length says.                                *)
LEMMA QuantityType ==
  ASSUME TypeOK
  PROVE  /\ Quantity \in 0 .. BUFFER_SIZE
         /\ pc # "get_reply" => Quantity = 1
         /\ pc = "get_reply" /\ res.len \in {2, 4} => Quantity = res.len
<1>1. res.len \in Word BY DEF TypeOK
<1>2. res.len \in Nat /\ res.len % 256 \in Nat BY <1>1, Words
<1>3. BUFFER_SIZE \in Int /\ BUFFER_SIZE > 4
  BY RoomAssumption, BufferSizeAssumption DEF LengthOf
<1>4. QED BY <1>2, <1>3 DEF Quantity

(* What a read that ends leaves in the firmware.                            *)
LEMMA ReadEndsTypes ==
  ASSUME TypeOK, pc \in Reads, ReadEnds(got)
  PROVE  /\ pc' \in {"type_cmd", "len_cmd", "get_cmd", "send"}
         /\ bus' = Quiet /\ got' = << >>
         /\ res' \in [type : Byte, len : Word, buf : Array]
<1> DEFINE buf == Received(res.buf, Kept(got))
<1>1. /\ res.type \in Byte /\ res.len \in Word /\ res.buf \in Array
      /\ got \in Seq(Byte)
      /\ res = [type |-> res.type, len |-> res.len, buf |-> res.buf]
  BY DEF TypeOK
<1>2. Kept(got) \in Seq(Byte) BY <1>1 DEF Kept
<1>3. buf \in Array BY <1>1, <1>2, ReceivedType
<1>4. buf[0] \in Byte /\ buf[1] \in Byte
  BY <1>3, BufferSizeAssumption DEF Array, Slots
<1>5. buf[0] + 256 * buf[1] \in Word BY <1>4, Bytes, Words
<1>6. res' \in [type : Byte, len : Word, buf : Array]
  BY <1>1, <1>3, <1>4, <1>5 DEF ReadEnds
<1>7. QED BY <1>6 DEF ReadEnds

(* The type part of it.                                                     *)
LEMMA TypeOfInit == Init => TypeOK
<1> SUFFICES ASSUME Init PROVE TypeOK OBVIOUS
<1>1. [i \in Slots |-> 0] \in Array BY Bytes DEF Array
<1>2. res \in [type : Byte, len : Word, buf : Array]
  BY <1>1, Bytes, Words DEF Init
<1>3. counter \in 0 .. Registers - 1 /\ faults \in 0 .. MaxFaults
  BY RegistersAssumption, FaultsAssumption DEF Init
<1>4. bus \in [phase : BusPhase, left : Nat] /\ got \in Seq(Byte)
  BY DEF Init, Quiet, BusPhase
<1>5. /\ currentRegister \in Byte /\ usidr \in Byte
      /\ input_buffer \in Buffers /\ output_buffer \in Buffers
  BY ClearedInBuffers, Bytes DEF Init
<1>6. /\ made \in Reading \cup {NoReading} /\ written \in 0 .. Len(made.bytes)
      /\ fresh \in BOOLEAN /\ calm \in 0 .. 2
  <2>1. made = NoReading /\ written = 0 /\ fresh = FALSE /\ calm = 2 BY DEF Init
  <2>2. Len(made.bytes) = 0 BY <2>1 DEF NoReading
  <2>3. written \in 0 .. Len(made.bytes) /\ calm \in 0 .. 2 BY <2>1, <2>2
  <2>4. fresh \in BOOLEAN BY DEF Init
  <2>5. made \in Reading \cup {NoReading} BY <2>1
  <2>6. QED BY <2>3, <2>4, <2>5
<1>7. /\ pc \in Writes \cup Reads \cup {"refused", "send"}
      /\ overflowState \in OverflowState
      /\ last \in {I2C_GET, None} /\ type \in {I2C_INT, I2C_FLT, None}
  BY DEF Init, OverflowState
<1>8. QED BY <1>2, <1>3, <1>4, <1>5, <1>6, <1>7 DEF TypeOK

(* Firmware and board after power-on.                                       *)
LEMMA InitialInvariant == Init => IInv
<1> SUFFICES ASSUME Init PROVE IInv OBVIOUS
<1>1. TypeOK BY TypeOfInit
<1>2. BusInv BY DEF Init, BusInv, Quiet
<1>3. QueueInv BY BufferSizeAssumption DEF Init, QueueInv, Quiet, Cleared, NoReading, Slots
<1>4. CommandInv BY DEF Init, CommandInv, Quiet
<1>5. RegisterInv BY DEF Init, RegisterInv, Quiet, Selected
<1>6. DataInv BY DEF Init, DataInv, Measured
<1>7. QED BY <1>1, <1>2, <1>3, <1>4, <1>5, <1>6 DEF IInv

(* A START sets up the transfer do_measure is in.                           *)
LEMMA StartConditionKeeps == IInv /\ StartCondition => IInv'
<1> SUFFICES ASSUME IInv, StartCondition PROVE IInv' OBVIOUS
<1>0. TypeOK /\ BusInv /\ QueueInv /\ CommandInv /\ RegisterInv /\ DataInv BY DEF IInv
<1>a. /\ bus' \in [phase : BusPhase, left : Nat] /\ bus'.phase = "address"
      /\ bus'.left \in Nat \ {0}
      /\ pc # "get_reply" => bus'.left = 1
      /\ pc = "get_reply" /\ res.len \in {2, 4} => bus'.left = res.len
  BY <1>0, QuantityType, BufferSizeAssumption DEF StartCondition, BusPhase
<1>b. UNCHANGED << pc, got, res, currentRegister, usidr, last, type, input_buffer,
                   output_buffer, counter, written, made, fresh, calm, faults >>
  BY DEF StartCondition, history
<1>1. TypeOK'
  BY <1>0, <1>a, <1>b DEF TypeOK, OverflowState, StartCondition
<1>2. BusInv'
  BY <1>0, <1>a, <1>b, ControlTypes DEF BusInv, StartCondition
<1>3. QueueInv'
  BY <1>0, MadeFits DEF TypeOK, BusInv, QueueInv, StartCondition, masterVars, slaveVars, history
<1>4. CommandInv'
  BY <1>0, ControlTypes DEF BusInv, CommandInv, StartCondition, masterVars, slaveVars, history
<1>5. RegisterInv'
  BY <1>0, ControlTypes DEF BusInv, CommandInv, RegisterInv, Selected, Command, StartCondition, masterVars, slaveVars, history
<1>6. DataInv'
  <2> SUFFICES ASSUME calm' = 2, Measured' PROVE Carried' BY DEF DataInv
  <2>1. Carried /\ Measured /\ got = << >>
    BY <1>0, <1>b DEF DataInv, BusInv, Measured, StartCondition
  <2>2. pc = "get_reply" => bus'.left = Len(made.bytes)
    BY <1>0, <1>a, <2>1, MadeFits DEF Carried
  <2>3. Len(got) = 0 BY <2>1
  <2>4. ~Fetching /\ ~Fetching' /\ (pc \in {"type_reply", "len_reply"} => bus'.phase = "address")
    BY <1>a, <2>1, <1>0 DEF Fetching, StartCondition
  <2>5. QED BY <1>a, <1>b, <2>1, <2>2, <2>3, <2>4, MadeFits, <1>0 DEF Carried
<1>7. QED BY <1>1, <1>2, <1>3, <1>4, <1>5, <1>6 DEF IInv

(* The board recognises its address.                                        *)
LEMMA CheckAddressKeeps == IInv /\ CheckAddress => IInv'
<1> SUFFICES ASSUME IInv, CheckAddress PROVE IInv' OBVIOUS
<1>0. TypeOK /\ BusInv /\ QueueInv /\ CommandInv /\ RegisterInv /\ DataInv BY DEF IInv
<1>1. TypeOK'
  BY <1>0, BufferSizeAssumption, Bytes DEF TypeOK, BusInv, BusPhase, OverflowState, CheckAddress, masterVars, slaveVars, history
<1>2. BusInv'
  BY <1>0, ControlTypes DEF BusInv, CheckAddress, masterVars, slaveVars, history
<1>3. QueueInv'
  BY <1>0, MadeFits DEF TypeOK, BusInv, QueueInv, CheckAddress, masterVars, slaveVars, history
<1>4. CommandInv'
  BY <1>0, ControlTypes DEF BusInv, CommandInv, CheckAddress, masterVars, slaveVars, history
<1>5. RegisterInv'
  BY <1>0, ControlTypes DEF BusInv, CommandInv, RegisterInv, Selected, Command, CheckAddress, masterVars, slaveVars, history
<1>6. DataInv'
  BY <1>0, ControlTypes, MadeFits DEF BusInv, DataInv, Carried, Measured, Fetching, CheckAddress, masterVars, slaveVars, history
<1>7. QED BY <1>1, <1>2, <1>3, <1>4, <1>5, <1>6 DEF IInv

(* A command has been acknowledged, or is still to come.                    *)
LEMMA RequestDataKeeps == IInv /\ RequestData => IInv'
<1> SUFFICES ASSUME IInv, RequestData PROVE IInv' OBVIOUS
<1>0. TypeOK /\ BusInv /\ QueueInv /\ CommandInv /\ RegisterInv /\ DataInv BY DEF IInv
<1>1. TypeOK'
  <2>1. /\ pc' \in Writes \cup Reads \cup {"refused", "send"}
        /\ bus' \in [phase : BusPhase, left : Nat]
    BY <1>0, ControlTypes DEF BusPhase, RequestData, WriteEnds, Quiet, masterVars, slaveVars, history
  <2>2. overflowState' \in OverflowState BY DEF RequestData, OverflowState
  <2>3. UNCHANGED << got, res, currentRegister, usidr, last, type, input_buffer,
                     output_buffer, counter, written, made, fresh, calm, faults >>
    BY DEF RequestData, WriteEnds, history
  <2>4. QED BY <1>0, <2>1, <2>2, <2>3 DEF TypeOK
<1>2. BusInv'
  BY <1>0, ControlTypes DEF BusInv, RequestData, WriteEnds, Quiet, masterVars, slaveVars, history
<1>3. QueueInv'
  BY <1>0, MadeFits DEF TypeOK, BusInv, QueueInv, RequestData, WriteEnds, Quiet, masterVars, slaveVars, history
<1>4. CommandInv'
  BY <1>0, ControlTypes DEF BusInv, CommandInv, RequestData, WriteEnds, Quiet, masterVars, slaveVars, history
<1>5. RegisterInv'
  BY <1>0, ControlTypes DEF BusInv, CommandInv, RegisterInv, Selected, Command, RequestData, WriteEnds, Quiet, masterVars, slaveVars, history
<1>6. DataInv'
  BY <1>0, ControlTypes, MadeFits DEF BusInv, DataInv, Carried, Measured, Fetching, RequestData, WriteEnds, Quiet, masterVars, slaveVars, history
<1>7. QED BY <1>1, <1>2, <1>3, <1>4, <1>5, <1>6 DEF IInv

(* The board takes a command as register, or as a value for one.            *)
LEMMA GetDataKeeps == IInv /\ GetData => IInv'
<1> SUFFICES ASSUME IInv, GetData PROVE IInv' OBVIOUS
<1>0. TypeOK /\ BusInv /\ QueueInv /\ CommandInv /\ RegisterInv /\ DataInv BY DEF IInv
<1>1. TypeOK'
  <2>1. Command(pc) \in Byte
    BY <1>0, ControlTypes, Bytes DEF GetData, BusInv, Command
  <2>2. bus' \in [phase : BusPhase, left : Nat]
    BY <1>0, ControlTypes DEF GetData, BusInv, BusPhase
  <2>3. input_buffer \in Buffers /\ currentRegister \in Byte BY <1>0 DEF TypeOK
  <2>4. Push(Push(input_buffer, currentRegister), Command(pc)) \in Buffers
    BY <2>1, <2>3, PushInBuffers
  <2>5. input_buffer' \in Buffers /\ currentRegister' \in Byte /\ usidr' \in Byte
    BY <2>1, <2>3, <2>4, Bytes DEF GetData
  <2>6. overflowState' \in OverflowState BY DEF GetData, OverflowState
  <2>7. UNCHANGED << pc, got, res, last, type, output_buffer, counter, written,
                     made, fresh, calm, faults >>
    BY DEF GetData, history
  <2>8. QED BY <1>0, <2>2, <2>5, <2>6, <2>7 DEF TypeOK
<1>2. BusInv'
  BY <1>0, ControlTypes DEF BusInv, GetData, Command, masterVars, slaveVars, history
<1>3. QueueInv'
  BY <1>0, MadeFits DEF TypeOK, BusInv, QueueInv, GetData, Command, masterVars, slaveVars, history
<1>4. CommandInv'
  BY <1>0, ControlTypes DEF BusInv, CommandInv, GetData, Command, masterVars, slaveVars, history
<1>5. RegisterInv'
  BY <1>0, ControlTypes DEF BusInv, CommandInv, RegisterInv, Selected, Command, GetData, Command, masterVars, slaveVars, history
<1>6. DataInv'
  BY <1>0, ControlTypes, MadeFits DEF BusInv, DataInv, Carried, Measured, Fetching, GetData, Command, masterVars, slaveVars, history
<1>7. QED BY <1>1, <1>2, <1>3, <1>4, <1>5, <1>6 DEF IInv

(* The board answers with its type, its size or its next byte.              *)
LEMMA SendDataKeeps == IInv /\ SendData => IInv'
<1> SUFFICES ASSUME IInv, SendData PROVE IInv' OBVIOUS
<1>0. TypeOK /\ BusInv /\ QueueInv /\ CommandInv /\ RegisterInv /\ DataInv BY DEF IInv
<1>a. /\ UNCHANGED << pc, got, res, type, input_buffer, counter, written, made,
                      fresh, calm, faults >>
      /\ currentRegister' = NO_REGISTER
      /\ bus'.phase = "reading" /\ bus'.left = bus.left
      /\ bus' \in [phase : BusPhase, left : Nat]
  BY <1>0, ControlTypes DEF SendData, history, BusPhase
<1>b. \/ UNCHANGED output_buffer
      \/ /\ SizeOf(output_buffer) > 0
         /\ output_buffer' = Pop(output_buffer) /\ usidr' = Popped(output_buffer)
  BY DEF SendData, Requested
<1>1. TypeOK'
  <2>1. output_buffer \in Buffers /\ type \in Byte /\ last \in {I2C_GET, None}
    BY <1>0, Bytes DEF TypeOK
  <2>2. output_buffer' \in Buffers BY <1>b, <2>1, PopInBuffers
  <2>3. SizeOf(output_buffer) \in Byte
    BY <2>1, SizeInBuffer, Bytes, BufferSizeAssumption
  <2>4. Popped(output_buffer) \in Byte BY <2>1, PopInBuffers
  <2>5. usidr' \in Byte
    BY <2>1, <2>3, <2>4, Bytes DEF SendData, Requested
  <2>6. last' \in {I2C_GET, None} BY <2>1 DEF SendData, Requested
  <2>7. overflowState' \in OverflowState /\ currentRegister' \in Byte
    BY Bytes DEF SendData, OverflowState
  <2>8. QED BY <1>0, <1>a, <2>2, <2>5, <2>6, <2>7 DEF TypeOK
<1>2. BusInv'
  BY <1>0, ControlTypes DEF BusInv, SendData, Asked, Requested, masterVars, slaveVars, history
<1>3. QueueInv'
  <2>1. bus.phase # "measuring" /\ written = Len(made.bytes)
    BY <1>0 DEF SendData, Asked, QueueInv
  <2>2. CASE UNCHANGED output_buffer BY <1>0, <1>a, <2>1, <2>2 DEF QueueInv
  <2>3. CASE SizeOf(output_buffer) > 0 /\ output_buffer' = Pop(output_buffer)
    <3>1. written \in Nat BY <1>0, <2>1, MadeFits
    <3>2. output_buffer'.front <= written' BY <1>0, <1>a, <2>3, <3>1, PopTakesFirst
    <3>3. output_buffer'.rear = IF written' = 0 THEN 255 ELSE written' - 1
      BY <1>0, <1>a, <2>3, PopTakesFirst DEF QueueInv
    <3>4. \A i \in Slots : output_buffer'.front <= i /\ i < written' =>
            output_buffer'.queue[i] = made'.bytes[i + 1]
      BY <1>0, <1>a, <2>3, PopTakesFirst, BufferSizeAssumption DEF QueueInv, Slots
    <3>5. QED BY <1>0, <1>a, <2>1, <3>2, <3>3, <3>4 DEF QueueInv
  <2>4. QED BY <1>b, <2>2, <2>3
<1>4. CommandInv'
  BY <1>0, ControlTypes DEF BusInv, CommandInv, SendData, Asked, Requested, masterVars, slaveVars, history
<1>5. RegisterInv'
  BY <1>0, ControlTypes DEF BusInv, CommandInv, RegisterInv, Selected, Command, SendData, Asked, Requested, masterVars, slaveVars, history
<1>6. DataInv'
  <2> SUFFICES ASSUME calm' = 2, Measured' PROVE Carried' BY DEF DataInv
  <2>1. pc \in Reads /\ (bus.phase = "ack" \/ (bus.phase = "reply" /\ bus.left > 0))
    BY <1>0, ControlTypes DEF BusInv, SendData, Asked
  <2>2. bus.phase = "ack" => currentRegister = Command(pc)
    BY <1>0, <1>a, <2>1 DEF RegisterInv, Selected
  <2>3. pc # "meas_reply"
    BY <1>0, <2>1, <2>2 DEF SendData, Command, BusInv
  <2>4. Carried BY <1>0, <1>a, <2>1, <2>3 DEF DataInv, Measured
  <2>5. SizeOf(output_buffer) = Len(made.bytes) - output_buffer.front
    BY <1>0, <2>1, SizeIsUnread DEF QueueInv
  <2>6. CASE pc = "type_reply"
    <3>1. usidr' = made.type /\ UNCHANGED output_buffer
      BY <1>0, <2>1, <2>2, <2>4, <2>6 DEF Command, SendData, Requested, BusInv, QueueInv, Carried
    <3>2. QED BY <1>a, <2>4, <2>6, <3>1 DEF Carried, Fetching
  <2>7. CASE pc = "len_reply"
    <3>1. usidr' = SizeOf(output_buffer) /\ UNCHANGED output_buffer
      BY <1>0, <2>1, <2>2, <2>7 DEF Command, SendData, Requested, BusInv
    <3>2. output_buffer.front = 0 BY <2>4, <2>7 DEF Carried, Fetching
    <3>3. usidr' = Len(made.bytes) BY <1>0, <2>5, <3>1, <3>2, MadeFits
    <3>4. QED BY <1>a, <2>4, <2>7, <3>1, <3>3 DEF Carried, Fetching
  <2>8. CASE pc = "get_reply"
    <3>1. got \in Seq(Byte) /\ Len(got) \in Nat BY <1>0 DEF TypeOK
    <3>2. output_buffer.front = Len(got) /\ bus.left > 0
          /\ Len(got) + bus.left = Len(made.bytes)
      BY <1>0, <2>1, <2>4, <2>8 DEF Carried, Fetching, BusInv
    <3>3. currentRegister = I2C_GET \/ (currentRegister = NO_REGISTER /\ last = I2C_GET)
      BY <1>0, <1>a, <2>1, <2>2, <2>4, <2>8 DEF Command, Carried, Fetching, RegisterInv, Selected
    <3>4. SizeOf(output_buffer) > 0
      BY <1>0, <2>5, <3>1, <3>2, ControlTypes, MadeFits
    <3>5. /\ last' = I2C_GET
          /\ output_buffer' = Pop(output_buffer) /\ usidr' = Popped(output_buffer)
      BY <3>3, <3>4 DEF SendData, Requested
    <3>6. output_buffer'.front = Len(got) + 1 /\ usidr' = made.bytes[Len(got) + 1]
      BY <1>0, <3>2, <3>4, <3>5, PopTakesFirst
    <3>7. \A k \in 1 .. Len(got) : got[k] = made.bytes[k]
      BY <1>0, <2>1, <2>4, <2>8 DEF Carried, Fetching, BusInv
    <3>8. QED BY <1>a, <2>4, <2>8, <3>2, <3>5, <3>6, <3>7 DEF Carried, Fetching
  <2>9. QED BY <2>1, <2>3, <2>6, <2>7, <2>8
<1>7. QED BY <1>1, <1>2, <1>3, <1>4, <1>5, <1>6 DEF IInv

(* The reply to CMD_MEAS starts sensor_meas.                                *)
LEMMA MeasureKeeps == IInv /\ Measure => IInv'
<1> SUFFICES ASSUME IInv, Measure PROVE IInv' OBVIOUS
<1>0. TypeOK /\ BusInv /\ QueueInv /\ CommandInv /\ RegisterInv /\ DataInv BY DEF IInv
<1>a. /\ pc = "meas_reply" /\ bus.phase = "ack" /\ bus.left = 1 /\ got = << >>
  BY <1>0, ControlTypes DEF Measure, Asked, BusInv, CommandInv
<1>b. /\ UNCHANGED << pc, got, res, overflowState, currentRegister, usidr, last,
                      input_buffer, counter, calm, faults >>
      /\ bus'.phase = "measuring" /\ bus'.left = bus.left
      /\ bus' \in [phase : BusPhase, left : Nat]
      /\ output_buffer' = Cleared /\ written' = 0 /\ fresh' = TRUE
      /\ currentRegister = CMD_MEAS
  BY <1>0, ControlTypes DEF Measure, BusPhase
<1>c. made' \in Reading /\ type' = made'.type
  <2>1. counter \in 0 .. Registers - 1 BY <1>0 DEF TypeOK
  <2>2. Readings[counter] \subseteq Reading BY <2>1, ReadingsAssumption
  <2>3. QED BY <2>2 DEF Measure
<1>d. made' # NoReading /\ made'.type \in {1, 2} /\ Len(made'.bytes) \in Nat
  BY <1>c DEF Reading, NoReading
<1>1. TypeOK'
  <2>1. written' \in 0 .. Len(made'.bytes) BY <1>b, <1>d
  <2>2. fresh' \in BOOLEAN BY <1>b
  <2>3. QED BY <1>0, <1>b, <1>c, <1>d, <2>1, <2>2, ClearedInBuffers DEF TypeOK
<1>2. BusInv'
  BY <1>0, <1>a, <1>b DEF BusInv
<1>3. QueueInv'
  BY <1>b, <1>c, <1>d, BufferSizeAssumption DEF QueueInv, Cleared, Slots
<1>4. CommandInv'
  BY <1>a, <1>b DEF CommandInv
<1>5. RegisterInv'
  BY <1>0, <1>a, <1>b DEF RegisterInv, Selected, Command
<1>6. DataInv'
  BY <1>a, <1>b DEF DataInv, Measured
<1>7. QED BY <1>1, <1>2, <1>3, <1>4, <1>5, <1>6 DEF IInv

(* sensor_meas writes a byte of its result.                                 *)
LEMMA WriteKeeps == IInv /\ Write => IInv'
<1> SUFFICES ASSUME IInv, Write PROVE IInv' OBVIOUS
<1>0. TypeOK /\ BusInv /\ QueueInv /\ CommandInv /\ RegisterInv /\ DataInv BY DEF IInv
<1>a. /\ UNCHANGED << pc, bus, got, res, overflowState, currentRegister, usidr, last, type,
                      input_buffer, counter, made, fresh, calm, faults >>
      /\ bus.phase = "measuring" /\ written < Len(made.bytes) /\ written' = written + 1
  BY DEF Write, masterVars, history
<1>b. pc = "meas_reply" BY <1>0, <1>a DEF CommandInv
<1>c. written \in 0 .. Len(made.bytes) BY <1>0 DEF TypeOK
<1>d. made.bytes[written + 1] \in Byte BY <1>0, <1>a, <1>c, MadeFits
<1>e. output_buffer' = Push(output_buffer, made.bytes[written + 1])
  BY <1>0, <1>a, PushAppends DEF Write
<1>1. TypeOK'
  <2>1. output_buffer' \in Buffers BY <1>0, <1>d, <1>e, PushInBuffers DEF TypeOK
  <2>2. written' \in 0 .. Len(made.bytes) BY <1>0, <1>a, <1>c, MadeFits
  <2>3. QED BY <1>0, <1>a, <2>1, <2>2 DEF TypeOK
<1>2. BusInv'
  BY <1>0, <1>a DEF BusInv
<1>3. QueueInv'
  <2>1. /\ output_buffer'.front = 0 /\ output_buffer'.rear = written /\ written \in Slots
        /\ output_buffer'.queue = [output_buffer.queue EXCEPT ![written] = made.bytes[written + 1]]
    BY <1>0, <1>a, <1>e, PushAppends
  <2>2. output_buffer.queue \in Array BY <1>0, BufferFields DEF TypeOK
  <2>3. output_buffer.front = 0 BY <1>0, <1>a DEF QueueInv
  <2>4. \A i \in Slots : i < written + 1 => output_buffer'.queue[i] = made.bytes[i + 1]
    BY <1>0, <1>c, <2>1, <2>2, <2>3, BufferSizeAssumption, MadeFits
       DEF QueueInv, Slots, Array
  <2>5. QED BY <1>0, <1>a, <1>c, <2>1, <2>4, MadeFits DEF QueueInv
<1>4. CommandInv'
  BY <1>0, <1>a DEF CommandInv
<1>5. RegisterInv'
  BY <1>0, <1>a DEF RegisterInv, Selected
<1>6. DataInv'
  BY <1>a, <1>b DEF DataInv, Measured
<1>7. QED BY <1>1, <1>2, <1>3, <1>4, <1>5, <1>6 DEF IInv

(* sensor_meas is done.                                                     *)
LEMMA MeasureReturnsKeeps == IInv /\ MeasureReturns => IInv'
<1> SUFFICES ASSUME IInv, MeasureReturns PROVE IInv' OBVIOUS
<1>0. TypeOK /\ BusInv /\ QueueInv /\ CommandInv /\ RegisterInv /\ DataInv BY DEF IInv
<1>a. /\ UNCHANGED << pc, got, res, last, type, input_buffer, output_buffer, written,
                      made, fresh, calm, faults >>
      /\ bus.phase = "measuring" /\ written = Len(made.bytes)
      /\ bus'.phase = "reading" /\ bus'.left = bus.left
      /\ bus' \in [phase : BusPhase, left : Nat]
      /\ currentRegister' = NO_REGISTER /\ overflowState' = "REQUEST_REPLY" /\ usidr' = 0
  BY <1>0, ControlTypes DEF MeasureReturns, history, BusPhase
<1>b. pc = "meas_reply" BY <1>0, <1>a DEF CommandInv
<1>1. TypeOK'
  <2>1. counter' \in 0 .. Registers - 1
    BY <1>0, RegistersAssumption DEF TypeOK, MeasureReturns
  <2>2. currentRegister' \in Byte /\ usidr' \in Byte /\ overflowState' \in OverflowState
    BY <1>a, Bytes DEF OverflowState
  <2>3. QED BY <1>0, <1>a, <2>1, <2>2 DEF TypeOK
<1>2. BusInv'
  BY <1>0, <1>a, <1>b DEF BusInv
<1>3. QueueInv'
  BY <1>0, <1>a DEF QueueInv
<1>4. CommandInv'
  BY <1>0, <1>a, <1>b DEF CommandInv
<1>5. RegisterInv'
  BY <1>0, <1>a, <1>b DEF RegisterInv, Selected
<1>6. DataInv'
  BY <1>0, <1>a, <1>b DEF DataInv, Carried, Measured, Fetching, QueueInv, CommandInv
<1>7. QED BY <1>1, <1>2, <1>3, <1>4, <1>5, <1>6 DEF IInv

(* The master has read a byte.                                              *)
LEMMA RequestReplyKeeps == IInv /\ RequestReply => IInv'
<1> SUFFICES ASSUME IInv, RequestReply PROVE IInv' OBVIOUS
<1>0. TypeOK /\ BusInv /\ QueueInv /\ CommandInv /\ RegisterInv /\ DataInv BY DEF IInv
<1>a. /\ UNCHANGED << pc, res, currentRegister, usidr, last, type, input_buffer,
                      output_buffer, counter, written, made, fresh, calm, faults >>
      /\ bus.phase = "reading" /\ bus'.phase = "reply" /\ bus'.left = bus.left - 1
      /\ bus.left > 0 /\ bus' \in [phase : BusPhase, left : Nat]
  BY <1>0, ControlTypes DEF RequestReply, history, BusPhase, BusInv
<1>b. got \in Seq(Byte) /\ usidr \in Byte /\ got' = Append(got, usidr)
  BY <1>0 DEF TypeOK, RequestReply
<1>c. /\ got' \in Seq(Byte) /\ Len(got') = Len(got) + 1 /\ got'[Len(got) + 1] = usidr
      /\ \A k \in 1 .. Len(got) : got'[k] = got[k]
  BY <1>b
<1>d. pc \in Reads BY <1>0, <1>a DEF BusInv
<1>1. TypeOK'
  <2>1. overflowState' \in OverflowState BY DEF RequestReply, OverflowState
  <2>2. QED BY <1>0, <1>a, <1>c, <2>1 DEF TypeOK
<1>2. BusInv'
  BY <1>0, <1>a, <1>b, <1>c, <1>d, ControlTypes DEF BusInv
<1>3. QueueInv'
  BY <1>0, <1>a DEF QueueInv
<1>4. CommandInv'
  BY <1>0, <1>a DEF CommandInv
<1>5. RegisterInv'
  BY <1>0, <1>a DEF RegisterInv, Selected
<1>6. DataInv'
  <2> SUFFICES ASSUME calm' = 2, Measured' PROVE Carried' BY DEF DataInv
  <2>1. Carried BY <1>0, <1>a, <1>d DEF DataInv, Measured
  <2>2. pc # "get_reply" => got = << >> BY <1>0, <1>a, <1>d DEF BusInv
  <2>3. CASE pc # "get_reply"
    <3>1. got'[1] = usidr BY <1>c, <2>2, <2>3
    <3>2. QED BY <1>a, <1>d, <2>1, <2>3, <3>1 DEF Carried, Fetching
  <2>4. CASE pc = "get_reply"
    <3>1. /\ Len(got) + bus.left = Len(made.bytes) /\ last = I2C_GET
          /\ \A k \in 1 .. Len(got) : got[k] = made.bytes[k]
          /\ output_buffer.front = Len(got) + 1 /\ usidr = made.bytes[Len(got) + 1]
      BY <1>a, <2>1, <2>4 DEF Carried, Fetching
    <3>2. Len(got') + bus'.left = Len(made.bytes)
      <4>1. bus.left \in Nat /\ Len(got) \in Nat BY <1>0, <1>b, ControlTypes
      <4>2. Len(got') = Len(got) + 1 /\ bus'.left = bus.left - 1 BY <1>a, <1>c
      <4>3. Len(got) + bus.left = Len(made.bytes) BY <3>1
      <4>4. (Len(got) + 1) + (bus.left - 1) = Len(got) + bus.left BY <4>1
      <4>5. Len(got') + bus'.left = Len(got) + bus.left BY <4>2, <4>4
      <4>6. QED BY <4>3, <4>5
    <3>3. \A k \in 1 .. Len(got') : got'[k] = made.bytes[k]
      BY <1>b, <1>c, <3>1
    <3>4. QED BY <1>a, <1>c, <2>1, <2>4, <3>1, <3>2, <3>3 DEF Carried, Fetching
  <2>5. QED BY <2>3, <2>4
<1>7. QED BY <1>1, <1>2, <1>3, <1>4, <1>5, <1>6 DEF IInv

(* A read ends, and do_measure uses what it brought.                        *)
LEMMA CheckReplyKeeps == IInv /\ CheckReply => IInv'
<1> SUFFICES ASSUME IInv, CheckReply PROVE IInv' OBVIOUS
<1>0. TypeOK /\ BusInv /\ QueueInv /\ CommandInv /\ RegisterInv /\ DataInv BY DEF IInv
<1>a. /\ UNCHANGED << overflowState, currentRegister, usidr, last, type, input_buffer,
                      output_buffer, counter, written, made, fresh, calm, faults >>
      /\ bus.phase = "reply" /\ bus.left = 0
  BY DEF CheckReply, slaveVars, history
<1>b. pc \in Reads BY <1>0, <1>a DEF BusInv
<1>c. /\ pc' \in {"type_cmd", "len_cmd", "get_cmd", "send"}
      /\ bus' = Quiet /\ got' = << >>
      /\ res' \in [type : Byte, len : Word, buf : Array]
  BY <1>0, <1>b, ReadEndsTypes DEF CheckReply
<1>d. bus'.phase = "idle" /\ bus' \in [phase : BusPhase, left : Nat]
  BY <1>c DEF Quiet, BusPhase
<1>1. TypeOK'
  BY <1>0, <1>a, <1>c, <1>d DEF TypeOK
<1>2. BusInv'
  BY <1>c, <1>d DEF BusInv
<1>3. QueueInv'
  BY <1>0, <1>a, <1>d DEF QueueInv
<1>4. CommandInv'
  BY <1>0, <1>a, <1>c, <1>d DEF CommandInv
<1>5. RegisterInv'
  BY <1>0, <1>a, <1>b, <1>c, <1>d DEF RegisterInv, Selected
<1>6. DataInv'
  <2> SUFFICES ASSUME calm' = 2, Measured' PROVE Carried' BY DEF DataInv
  <2> DEFINE buf == Received(res.buf, Kept(got))
  <2>1. Carried BY <1>0, <1>a, <1>b DEF DataInv, Measured
  <2>2. got \in Seq(Byte) /\ res.len \in Word
        /\ res \in [type : Byte, len : Word, buf : Array] BY <1>0 DEF TypeOK
  <2>3. Len(got) > 0 /\ Kept(got) = got
    <3>1. CASE pc # "get_reply" BY <1>0, <1>a, <1>b, <3>1 DEF BusInv, Kept
    <3>2. CASE pc = "get_reply"
      <4>1. Len(got) = Len(made.bytes) /\ res.len = Len(made.bytes)
        BY <1>a, <2>1, <2>2, <3>2 DEF Carried
      <4>2. Len(made.bytes) \in {2, 4} BY <1>0, <2>1, MadeFits DEF Carried
      <4>3. res.len \in {2, 4} BY <4>1, <4>2
      <4>4. res.len % 256 # 0 /\ ~(res.len > 32767) BY <4>3
      <4>5. Len(got) > 0 BY <4>1, <4>2
      <4>6. QED BY <4>4, <4>5 DEF Kept
    <3>3. QED BY <3>1, <3>2
  <2>4. \A i \in Slots : buf[i] = IF i < Len(got) THEN got[i + 1]
                                  ELSE IF i = Len(got) THEN 0 ELSE res.buf[i]
    BY <2>2, <2>3 DEF Received
  <2>5. 0 \in Slots /\ 1 \in Slots BY BufferSizeAssumption DEF Slots
  <2>6. buf[0] = got[1] BY <2>2, <2>3, <2>4, <2>5
  <2>7. CASE pc = "meas_reply"
    BY <1>a, <1>c, <1>d, <2>1, <2>7 DEF CheckReply, ReadEnds, Carried, Fetching
  <2>8. CASE pc = "type_reply"
    <3>1. pc' = "len_cmd" /\ res'.type = buf[0]
      BY <2>2, <2>8 DEF CheckReply, ReadEnds
    <3>2. QED BY <1>a, <1>d, <2>1, <2>6, <2>8, <3>1 DEF Carried, Fetching
  <2>9. CASE pc = "len_reply"
    <3>1. pc' = "get_cmd" /\ res'.len = buf[0] + 256 * buf[1] /\ res'.type = res.type
      BY <2>2, <2>9 DEF CheckReply, ReadEnds
    <3>2. Len(got) = 1 BY <1>0, <1>a, <2>9 DEF BusInv
    <3>3. buf[1] = 0 BY <2>4, <2>5, <3>2
    <3>4. buf[0] = Len(made.bytes) BY <1>a, <2>1, <2>6, <2>9 DEF Carried
    <3>5. res'.len = Len(made.bytes) BY <1>0, <3>1, <3>3, <3>4, MadeFits
    <3>6. QED BY <1>a, <1>d, <2>1, <2>9, <3>1, <3>5 DEF Carried, Fetching
  <2>10. CASE pc = "get_reply"
    <3>1. pc' = "send" /\ res'.buf = buf /\ res'.type = res.type
      BY <2>2, <2>10 DEF CheckReply, ReadEnds
    <3>2. /\ Len(got) = Len(made.bytes)
          /\ \A k \in 1 .. Len(got) : got[k] = made.bytes[k]
      BY <1>a, <2>1, <2>2, <2>10 DEF Carried, Fetching
    <3>3. \A k \in 1 .. Len(made.bytes) : buf[k - 1] = made.bytes[k]
      BY <1>0, <2>2, <2>4, <3>2, MadeFits, BufferSizeAssumption DEF Slots
    <3>4. QED BY <1>a, <1>d, <2>1, <2>10, <3>1, <3>3 DEF Carried, Fetching
  <2>11. QED BY <1>b, <2>7, <2>8, <2>9, <2>10
<1>7. QED BY <1>1, <1>2, <1>3, <1>4, <1>5, <1>6 DEF IInv

(* A transfer breaks off: the next two do_measure promise nothing.          *)
LEMMA BreaksOffKeeps == IInv /\ BreaksOff => IInv'
<1> SUFFICES ASSUME IInv, BreaksOff PROVE IInv' OBVIOUS
<1>0. TypeOK /\ BusInv /\ QueueInv /\ CommandInv /\ RegisterInv /\ DataInv BY DEF IInv
<1>a. /\ UNCHANGED << overflowState, usidr, last, type, input_buffer,
                      output_buffer, counter, written, made, fresh >>
      /\ bus.phase \notin {"idle", "measuring"}
      /\ calm' = 0 /\ faults' \in 0 .. MaxFaults
      /\ currentRegister' \in {currentRegister, NO_REGISTER}
  BY <1>0, FaultsAssumption DEF BreaksOff, TypeOK
<1>b. /\ pc' \in {"refused", "type_cmd", "len_cmd", "get_cmd", "send"}
      /\ pc' = "refused" => pc = "meas_cmd"
      /\ bus' = Quiet /\ got' = << >>
      /\ res' \in [type : Byte, len : Word, buf : Array]
  <2>1. CASE pc \in Reads /\ ReadEnds(got) BY <1>0, <2>1, ReadEndsTypes
  <2>2. CASE pc \in Writes /\ WriteEnds(FALSE)
    <3>1. got = << >> BY <1>0, <2>2 DEF BusInv
    <3>2. res \in [type : Byte, len : Word, buf : Array] BY <1>0 DEF TypeOK
    <3>3. QED BY <2>2, <3>1, <3>2 DEF WriteEnds
  <2>3. QED BY <2>1, <2>2 DEF BreaksOff
<1>c. bus'.phase = "idle" /\ bus' \in [phase : BusPhase, left : Nat]
  BY <1>b DEF Quiet, BusPhase
<1>1. TypeOK'
  <2>1. currentRegister' \in Byte BY <1>0, <1>a, Bytes DEF TypeOK
  <2>2. calm' \in 0 .. 2 BY <1>a
  <2>3. QED BY <1>0, <1>a, <1>b, <1>c, <2>1, <2>2 DEF TypeOK
<1>2. BusInv'
  BY <1>b, <1>c DEF BusInv
<1>3. QueueInv'
  BY <1>0, <1>a, <1>c DEF QueueInv
<1>4. CommandInv'
  BY <1>0, <1>a, <1>b, <1>c DEF CommandInv
<1>5. RegisterInv'
  BY <1>a DEF RegisterInv
<1>6. DataInv'
  BY <1>a DEF DataInv
<1>7. QED BY <1>1, <1>2, <1>3, <1>4, <1>5, <1>6 DEF IInv

(* The loop goes on to the next do_measure.                                 *)
LEMMA NextMeasureKeeps == IInv /\ NextMeasure => IInv'
<1> SUFFICES ASSUME IInv, NextMeasure PROVE IInv' OBVIOUS
<1>0. TypeOK /\ BusInv /\ QueueInv /\ CommandInv /\ RegisterInv /\ DataInv BY DEF IInv
<1>a. /\ UNCHANGED << bus, got, res, overflowState, currentRegister, usidr, last, type,
                      input_buffer, output_buffer, counter, written, made, faults >>
      /\ pc \in {"send", "refused"} /\ pc' = "meas_cmd" /\ fresh' = FALSE
      /\ calm' = (IF calm < 2 THEN calm + 1 ELSE 2) /\ bus.phase = "idle"
  BY <1>0 DEF NextMeasure, slaveVars, BusInv
<1>1. TypeOK'
  <2>1. calm' \in 0 .. 2 BY <1>0, <1>a, ControlTypes
  <2>2. fresh' \in BOOLEAN BY <1>a
  <2>3. QED BY <1>0, <1>a, <2>1, <2>2 DEF TypeOK
<1>2. BusInv'
  BY <1>0, <1>a DEF BusInv
<1>3. QueueInv'
  BY <1>0, <1>a DEF QueueInv
<1>4. CommandInv'
  BY <1>a DEF CommandInv
<1>5. RegisterInv'
  BY <1>0, <1>a, ControlTypes DEF RegisterInv, Selected
<1>6. DataInv'
  BY <1>a DEF DataInv, Measured
<1>7. QED BY <1>1, <1>2, <1>3, <1>4, <1>5, <1>6 DEF IInv

-----------------------------------------------------------------------------
(* Any step, and none.                                                      *)
LEMMA StepKeeps == IInv /\ [Next]_vars => IInv'
<1> SUFFICES ASSUME IInv, [Next]_vars PROVE IInv' OBVIOUS
<1>1. CASE Next
  BY <1>1, StartConditionKeeps, CheckAddressKeeps, RequestDataKeeps, GetDataKeeps,
     SendDataKeeps, MeasureKeeps, WriteKeeps, MeasureReturnsKeeps,
     RequestReplyKeeps, CheckReplyKeeps, BreaksOffKeeps, NextMeasureKeeps DEF Next
<1>2. CASE UNCHANGED vars
  <2>1. /\ UNCHANGED << pc, bus, got, res, overflowState, currentRegister, usidr >>
        /\ UNCHANGED << last, type, input_buffer, output_buffer, counter, written >>
        /\ UNCHANGED << made, fresh, calm, faults >>
    BY <1>2 DEF vars, masterVars, slaveVars, history
  <2>2. TypeOK' BY <2>1 DEF IInv, TypeOK
  <2>3. BusInv' /\ QueueInv' /\ CommandInv'
    BY <2>1 DEF IInv, BusInv, QueueInv, CommandInv
  <2>4. RegisterInv' BY <2>1 DEF IInv, RegisterInv, Selected
  <2>5. DataInv' BY <2>1 DEF IInv, DataInv, Measured, Carried, Fetching
  <2>6. QED BY <2>2, <2>3, <2>4, <2>5 DEF IInv
<1>3. QED BY <1>1, <1>2

(* The invariant holds in every state of the readout.                       *)
THEOREM BoardInvariant == Spec => []IInv
<1>1. Init => IInv BY InitialInvariant
<1>2. IInv /\ [Next]_vars => IInv' BY StepKeeps
<1>3. QED BY <1>1, <1>2, PTL DEF Spec

(* Every variable of firmware, interrupt handlers and buffers keeps its     *)
(* type: no index of push, pop or recv leaves its array.                    *)
THEOREM BoardTypeCorrect == Spec => []TypeOK
<1>1. IInv => TypeOK BY DEF IInv
<1>2. QED BY <1>1, BoardInvariant, PTL

(* The ring buffer of TinyWire holds the bytes written and not yet popped,  *)
(* in their order, for every size it may be compiled with.                  *)
THEOREM BufferIsAQueue == Spec => []QueueHolds
<1>1. IInv => QueueHolds
  <2> SUFFICES ASSUME IInv PROVE QueueHolds OBVIOUS
  <2>0. TypeOK /\ QueueInv BY DEF IInv
  <2>1. SizeOf(output_buffer) = written - output_buffer.front
    BY <2>0, SizeIsUnread
  <2>2. output_buffer.front \in Slots BY <2>0, BufferFields DEF TypeOK
  <2>3. written \in 0 .. Len(made.bytes) BY <2>0 DEF TypeOK
  <2>4. \A i \in Slots : output_buffer.front <= i /\ i < written =>
          output_buffer.queue[i] = made.bytes[i + 1]
    BY <2>0 DEF QueueInv
  <2>5. written < BUFFER_SIZE /\ written \in Nat /\ output_buffer.front \in Nat
    BY <2>0, <2>2, <2>3, MadeFits, BufferSizeAssumption DEF Slots
  <2>6. \A k \in 1 .. written - output_buffer.front :
          output_buffer.queue[output_buffer.front + k - 1]
            = made.bytes[output_buffer.front + k]
    <3> TAKE k \in 1 .. written - output_buffer.front
    <3>1. output_buffer.front + k - 1 \in Slots
      BY <2>5, BufferSizeAssumption DEF Slots
    <3>2. output_buffer.front + k - 1 < written BY <2>5
    <3>3. QED BY <2>4, <2>5, <3>1, <3>2
  <2>7. \A k \in 1 .. written - output_buffer.front :
          written - (written - output_buffer.front) + k = output_buffer.front + k
    BY <2>5
  <2>8. SizeOf(output_buffer) <= written BY <2>1, <2>5
  <2>9. QED BY <2>1, <2>6, <2>7, <2>8 DEF QueueHolds
<1>2. QED BY <1>1, BoardInvariant, PTL

(* A result sent after two do_measure in which no transfer broke off has    *)
(* the type and the bytes of the one measure the board made for it.         *)
THEOREM ReadoutIsTrue == Spec => []ReadoutTrue
<1>1. IInv => ReadoutTrue
  BY DEF IInv, ReadoutTrue, DataInv, Measured, Carried, Truth
<1>2. QED BY <1>1, BoardInvariant, PTL

(* A board measures at most once in a do_measure, whatever breaks off.      *)
THEOREM BoardMeasuresOnce == Spec => MeasuresOnce
<1>1. IInv /\ [Next]_vars => [Measure => ~fresh /\ pc = "meas_reply"]_vars
  <2> SUFFICES ASSUME IInv, Measure PROVE ~fresh /\ pc = "meas_reply" OBVIOUS
  <2>0. TypeOK /\ BusInv /\ CommandInv BY DEF IInv
  <2>1. pc = "meas_reply" /\ bus.phase = "ack"
    BY <2>0, ControlTypes DEF Measure, Asked, BusInv, CommandInv
  <2>2. QED BY <2>0, <2>1 DEF CommandInv
<1>2. QED BY <1>1, BoardInvariant, PTL DEF Spec, MeasuresOnce

-----------------------------------------------------------------------------
(* The refinement of Readout.  What the board made in this call is a        *)
(* reading of the measure its counter stood at when it was asked.           *)
MadeInv ==
  fresh => made \in Readings[IF bus.phase = "measuring" THEN counter ELSE Before(counter)]

CallInv == IInv /\ MadeInv

LEMMA Counters ==
  ASSUME NEW r \in 0 .. Registers - 1
  PROVE  /\ Before(r) \in 0 .. Registers - 1
         /\ r = IF Before(r) + 1 = Registers THEN 0 ELSE Before(r) + 1
         /\ Before(IF r + 1 = Registers THEN 0 ELSE r + 1) = r
BY RegistersAssumption DEF Before

LEMMA MadeInvStep == IInv /\ MadeInv /\ [Next]_vars => MadeInv'
<1> SUFFICES ASSUME IInv, MadeInv, [Next]_vars PROVE MadeInv'
  OBVIOUS
<1>0. TypeOK /\ counter \in 0 .. Registers - 1
  BY DEF IInv, TypeOK
<1>1. ASSUME UNCHANGED << made, fresh, counter >>,
             bus.phase # "measuring", bus'.phase # "measuring"
      PROVE  MadeInv'
  BY <1>1 DEF MadeInv, Before
<1>2. CASE UNCHANGED << made, fresh, counter, bus >>
  BY <1>2 DEF MadeInv, Before
<1>3. CASE Measure
  <2>1. PICK m \in Readings[counter] : made' = m
    BY <1>3 DEF Measure
  <2>2. bus'.phase = "measuring" /\ counter' = counter
    BY <1>3 DEF Measure
  <2> QED BY <2>1, <2>2 DEF MadeInv
<1>4. CASE MeasureReturns
  <2>1. /\ made' = made /\ fresh' = fresh /\ bus.phase = "measuring"
        /\ bus'.phase = "reading"
        /\ counter' = IF counter + 1 = Registers THEN 0 ELSE counter + 1
    BY <1>4 DEF MeasureReturns, history
  <2>2. Before(counter') = counter
    BY <1>0, <2>1, Counters
  <2> QED BY <2>1, <2>2 DEF MadeInv
<1>5. CASE NextMeasure
  BY <1>5 DEF NextMeasure, MadeInv
<1>6. CASE StartCondition \/ CheckAddress \/ GetData \/ SendData \/ RequestReply
  BY <1>1, <1>6 DEF StartCondition, CheckAddress, GetData, SendData, Asked, RequestReply,
                    history
<1>7. CASE RequestData \/ CheckReply \/ BreaksOff
  BY <1>1, <1>7 DEF RequestData, CheckReply, BreaksOff, WriteEnds, ReadEnds, Quiet,
                    slaveVars, history
<1>8. CASE Write \/ UNCHANGED vars
  BY <1>2, <1>8 DEF Write, vars, masterVars, slaveVars, history
<1> QED BY <1>3, <1>4, <1>5, <1>6, <1>7, <1>8 DEF Next

(* What is sent is a reading, if anything.                                  *)
LEMMA SentType == TypeOK => Sent \in Reading \cup {NoReading}
<1> SUFFICES ASSUME TypeOK, pc = "send", res.type \in {I2C_INT, I2C_FLT}
             PROVE  Sent \in Reading
  BY DEF Sent
<1> DEFINE bytes == [k \in 1 .. LengthOf(res.type) |-> res.buf[k - 1]]
<1>1. LengthOf(res.type) \in Nat /\ LengthOf(res.type) < BUFFER_SIZE
  BY RoomAssumption, BufferSizeAssumption DEF LengthOf
<1>2. \A k \in 1 .. LengthOf(res.type) : k - 1 \in Slots
  BY <1>1, BufferSizeAssumption DEF Slots
<1>3. res.buf \in Array
  BY DEF TypeOK
<1>4. \A k \in 1 .. LengthOf(res.type) : res.buf[k - 1] \in Byte
  BY <1>2, <1>3 DEF Array
<1>5. bytes \in Seq(Byte) /\ Len(bytes) = LengthOf(res.type)
  BY <1>1, <1>4
<1>6. Sent = [type |-> res.type, bytes |-> bytes]
  BY DEF Sent
<1> HIDE DEF bytes
<1> QED BY <1>5, <1>6 DEF Reading

(* The truth is the reading the board made.                                 *)
LEMMA TruthIsSent == TypeOK /\ Truth /\ made \in Reading /\ pc = "send" => Sent = made
<1> SUFFICES ASSUME TypeOK, Truth, made \in Reading, pc = "send"
             PROVE  Sent = made
  OBVIOUS
<1>1. res.type = made.type /\ made.type \in {I2C_INT, I2C_FLT}
      /\ Len(made.bytes) = LengthOf(made.type) /\ made.bytes \in Seq(Byte)
      /\ made = [type |-> made.type, bytes |-> made.bytes]
  BY DEF Truth, Reading
<1>2. \A k \in 1 .. LengthOf(res.type) : res.buf[k - 1] = made.bytes[k]
  BY <1>1 DEF Truth
<1>3. made.bytes = [k \in 1 .. LengthOf(res.type) |-> res.buf[k - 1]]
  BY <1>1, <1>2
<1> QED BY <1>1, <1>3 DEF Sent

(* A step inside a call is none of Readout's.                               *)
LEMMA InsideCall ==
  ASSUME ~Ended, ~Ended', UNCHANGED << calm, faults >>, CounterOfCall' = CounterOfCall
  PROVE  UNCHANGED R!readoutVars
<1>1. Outcome' = Outcome /\ Sent' = Sent
  BY DEF Ended, Outcome, Sent
<1> QED BY <1>1 DEF R!readoutVars

LEMMA HandlerIsInside ==
  ASSUME IInv,
         \/ StartCondition \/ CheckAddress \/ GetData \/ SendData \/ Measure \/ Write
         \/ MeasureReturns \/ RequestReply \/ RequestData
  PROVE  UNCHANGED R!readoutVars
<1>0. TypeOK /\ BusInv /\ CommandInv /\ counter \in 0 .. Registers - 1
  BY DEF IInv, TypeOK
<1>1. ASSUME bus.phase # "idle" \/ pc \in Writes \cup Reads PROVE ~Ended
  BY <1>0, <1>1 DEF BusInv, Ended
<1>2. ASSUME ~Ended, pc' = pc, UNCHANGED << counter, fresh, calm, faults >>,
             bus.phase # "measuring", bus'.phase # "measuring"
      PROVE  UNCHANGED R!readoutVars
  <2>1. ~Ended' /\ CounterOfCall' = CounterOfCall
    BY <1>2 DEF Ended, CounterOfCall, Before
  <2> QED BY <1>2, <2>1, InsideCall
<1>3. CASE StartCondition \/ CheckAddress \/ GetData \/ SendData \/ RequestReply
  BY <1>1, <1>2, <1>3
     DEF StartCondition, CheckAddress, GetData, SendData, Asked, RequestReply, history
<1>4. CASE RequestData
  <2>1. ~Ended /\ UNCHANGED << counter, fresh, calm, faults >> /\ bus.phase = "ack"
    BY <1>1, <1>4 DEF RequestData, history
  <2>2. CASE pc' = pc /\ bus'.phase = "byte"
    BY <1>2, <2>1, <2>2
  <2>3. CASE WriteEnds(TRUE)
    <3>1. ~Ended' /\ bus'.phase = "idle"
      BY <2>3 DEF WriteEnds, Quiet, Ended
    <3>2. CounterOfCall' = CounterOfCall
      BY <2>1, <3>1 DEF CounterOfCall, Before
    <3> QED BY <2>1, <3>1, <3>2, InsideCall
  <2>4. (pc' = pc /\ bus' = [phase |-> "byte", left |-> bus.left]) \/ WriteEnds(TRUE)
    BY <1>4, Zenon DEF RequestData
  <2>5. [phase |-> "byte", left |-> bus.left].phase = "byte"
    OBVIOUS
  <2> QED BY <2>2, <2>3, <2>4, <2>5
<1>5. CASE Measure
  <2>1. ~Ended /\ ~Ended' /\ UNCHANGED << counter, calm, faults >>
        /\ bus'.phase = "measuring"
    BY <1>1, <1>5 DEF Measure, Asked, Ended
  <2>2. ~fresh
    <3>1. pc = "meas_reply" /\ bus.phase = "ack"
      BY <1>0, <1>5, ControlTypes DEF Measure, Asked, BusInv, CommandInv
    <3> QED BY <1>0, <3>1 DEF CommandInv
  <2>3. CounterOfCall' = CounterOfCall
    BY <2>1, <2>2 DEF CounterOfCall
  <2> QED BY <2>1, <2>3, InsideCall
<1>6. CASE Write
  <2>1. ~Ended /\ ~Ended' /\ UNCHANGED << counter, fresh, bus, calm, faults >>
    BY <1>1, <1>6 DEF Write, masterVars, history, Ended
  <2>2. CounterOfCall' = CounterOfCall
    BY <2>1 DEF CounterOfCall, Before
  <2> QED BY <2>1, <2>2, InsideCall
<1>7. CASE MeasureReturns
  <2>1. /\ ~Ended /\ ~Ended' /\ UNCHANGED << fresh, calm, faults >>
        /\ bus.phase = "measuring" /\ bus'.phase = "reading" /\ fresh
        /\ counter' = IF counter + 1 = Registers THEN 0 ELSE counter + 1
    BY <1>0, <1>1, <1>7 DEF MeasureReturns, history, Ended, CommandInv
  <2>2. Before(counter') = counter
    BY <1>0, <2>1, Counters
  <2>3. CounterOfCall' = CounterOfCall
    BY <2>1, <2>2 DEF CounterOfCall
  <2> QED BY <2>1, <2>3, InsideCall
<1> QED BY <1>3, <1>4, <1>5, <1>6, <1>7

(* The last readout of a call that nothing disturbs succeeds, any other is  *)
(* garbled at worst.                                                        *)
LEMMA ReplyEnds ==
  ASSUME CallInv, CallInv', CheckReply
  PROVE  R!Next \/ UNCHANGED R!readoutVars
<1>0. /\ TypeOK /\ TypeOK' /\ MadeInv /\ IInv' /\ counter \in 0 .. Registers - 1
      /\ calm \in 0 .. 2
  BY DEF CallInv, IInv, TypeOK
<1>1. /\ UNCHANGED << counter, fresh, made, calm, faults >>
      /\ bus.phase = "reply" /\ bus'.phase = "idle" /\ pc \in Reads
  BY DEF CheckReply, ReadEnds, Quiet, slaveVars, history
<1>2. ~Ended /\ Outcome = "running" /\ Sent = NoReading
  BY <1>1 DEF Ended, Outcome, Sent
<1>3. pc' \in {"type_cmd", "len_cmd", "get_cmd", "send"}
  BY DEF CheckReply, ReadEnds
<1>4. CASE pc' # "send"
  <2>1. ~Ended'
    BY <1>3, <1>4 DEF Ended
  <2>2. CounterOfCall' = CounterOfCall
    BY <1>1, <1>2, <2>1 DEF CounterOfCall, Before
  <2> QED BY <1>1, <1>2, <2>1, <2>2, InsideCall
<1>5. CASE pc' = "send"
  <2>1. Outcome' = "sent" /\ CounterOfCall' = counter
    BY <1>1, <1>5 DEF Outcome, CounterOfCall, Ended
  <2>2. CounterOfCall = IF fresh THEN Before(counter) ELSE counter
    BY <1>1, <1>2 DEF CounterOfCall
  <2>3. fresh => CounterOfCall' = IF CounterOfCall + 1 = Registers THEN 0
                                  ELSE CounterOfCall + 1
    BY <1>0, <2>1, <2>2, Counters
  <2>4. CASE calm = 2
    <3>1. Truth'
      BY <1>0, <1>1, <1>5, <2>4 DEF IInv, DataInv, Measured, Carried, Truth
    <3>2. fresh /\ made' = made /\ made \in Readings[CounterOfCall]
      BY <1>0, <1>1, <2>2, <3>1 DEF Truth, MadeInv
    <3>3. made' \in Reading
      BY <1>0, <2>2, <3>2, Counters, ReadingsAssumption
    <3>4. Sent' = made
      <4>1. (TypeOK /\ Truth /\ made \in Reading /\ pc = "send" => Sent = made)'
        BY TruthIsSent, PTL
      <4> QED BY <1>0, <1>5, <3>1, <3>2, <3>3, <4>1
    <3> QED BY <1>1, <1>2, <2>1, <2>3, <2>4, <3>2, <3>4
            DEF R!Next, R!Succeeds, R!Advances, R!Holds
  <2>5. CASE calm # 2
    <3>1. 2 - calm > 0
      BY <1>0, <2>5
    <3>2. Sent' \in Reading \cup {NoReading}
      <4>1. (TypeOK => Sent \in Reading \cup {NoReading})'
        BY SentType, PTL
      <4> QED BY <1>0, <4>1
    <3>3. R!Advances \/ CounterOfCall' = CounterOfCall
      BY <2>1, <2>2, <2>3 DEF R!Advances
    <3> QED BY <1>1, <1>2, <2>1, <3>1, <3>2, <3>3 DEF R!Next, R!Garbled, R!Holds
  <2> QED BY <2>4, <2>5
<1> QED BY <1>4, <1>5

(* A broken transfer disturbs, refuses or garbles the call.                 *)
LEMMA BreakingEnds ==
  ASSUME CallInv, CallInv', BreaksOff
  PROVE  R!Next
<1>0. /\ TypeOK /\ TypeOK' /\ CommandInv /\ counter \in 0 .. Registers - 1
  BY DEF CallInv, IInv, TypeOK
<1>1. /\ UNCHANGED << counter, fresh >>
      /\ bus.phase # "measuring" /\ bus'.phase = "idle" /\ pc \in Writes \cup Reads
  BY DEF BreaksOff, WriteEnds, ReadEnds, Quiet
<1>2. ~Ended /\ Outcome = "running" /\ Sent = NoReading
  BY <1>1 DEF Ended, Outcome, Sent
<1>3. R!Breaks
  BY DEF BreaksOff, R!Breaks
<1>4. pc' \in (Writes \cup Reads) \ {"meas_cmd"} \/ pc' = "send"
      \/ (pc' = "refused" /\ pc = "meas_cmd")
  BY DEF BreaksOff, WriteEnds, ReadEnds
<1>5. CounterOfCall = IF fresh THEN Before(counter) ELSE counter
  BY <1>1, <1>2 DEF CounterOfCall
<1>6. CASE pc' \in (Writes \cup Reads) \ {"meas_cmd"}
  <2>1. ~Ended' /\ Outcome' = "running" /\ Sent' = NoReading
    BY <1>6 DEF Ended, Outcome, Sent
  <2>2. CounterOfCall' = CounterOfCall
    BY <1>1, <1>5, <2>1 DEF CounterOfCall, Before
  <2> QED BY <1>2, <1>3, <2>1, <2>2 DEF R!Next, R!Disturbed
<1>7. CASE pc' = "refused" /\ pc = "meas_cmd"
  <2>1. Outcome' = "refused" /\ Sent' = NoReading /\ CounterOfCall' = counter
    BY <1>1, <1>7 DEF Ended, Outcome, Sent, CounterOfCall
  <2>2. CounterOfCall = counter
    BY <1>0, <1>5, <1>7 DEF CommandInv
  <2> QED BY <1>2, <1>3, <2>1, <2>2 DEF R!Next, R!Refused
<1>8. CASE pc' = "send"
  <2>1. Outcome' = "sent" /\ CounterOfCall' = counter
    BY <1>1, <1>8 DEF Outcome, CounterOfCall, Ended
  <2>2. R!Advances \/ CounterOfCall' = CounterOfCall
    BY <1>0, <1>5, <2>1, Counters DEF R!Advances
  <2>3. Sent' \in Reading \cup {NoReading}
    <3>1. (TypeOK => Sent \in Reading \cup {NoReading})'
      BY SentType, PTL
    <3> QED BY <1>0, <3>1
  <2> QED BY <1>2, <1>3, <2>1, <2>2, <2>3 DEF R!Next, R!Garbled
<1> QED BY <1>4, <1>6, <1>7, <1>8

LEMMA CallEnds ==
  ASSUME CallInv, NextMeasure
  PROVE  R!Next
<1>1. Ended /\ Outcome # "running" /\ CounterOfCall = counter
  BY DEF NextMeasure, Ended, Outcome, CounterOfCall
<1>2. /\ Outcome' = "running" /\ Sent' = NoReading /\ CounterOfCall' = counter
      /\ faults' = faults
  BY DEF NextMeasure, Outcome, Sent, CounterOfCall, slaveVars
<1>3. 2 - calm' = IF 2 - calm = 0 THEN 0 ELSE 2 - calm - 1
  <2>1. calm \in 0 .. 2
    BY DEF CallInv, IInv, TypeOK
  <2> QED BY <2>1 DEF NextMeasure
<1> QED BY <1>1, <1>2, <1>3 DEF R!Next, R!NextCall

(* The eight transfers of do_measure and the interrupts of the board, any   *)
(* of them broken off, are one call that sends the reading of the measure   *)
(* due, is refused and moves nothing, or was spoilt in it or in the one     *)
(* before: what the firmware's measure loop is modelled by (do_measure,     *)
(* get_results, USI_OVERFLOW_VECTOR, sensor_meas).                          *)
THEOREM BoardKeepsReadout == Spec => KeepsReadout
<1>1. Init => CallInv /\ R!Init
  <2> SUFFICES ASSUME Init PROVE CallInv /\ R!Init
    OBVIOUS
  <2>1. CallInv
    BY InitialInvariant DEF Init, CallInv, MadeInv
  <2>2. Outcome = "running" /\ Sent = NoReading /\ CounterOfCall = 0
    BY DEF Init, Outcome, Sent, CounterOfCall
  <2> QED BY <2>1, <2>2 DEF Init, R!Init
<1>2. CallInv /\ [Next]_vars => CallInv'
  BY StepKeeps, MadeInvStep DEF CallInv
<1>3. CallInv /\ CallInv' /\ [Next]_vars => [R!Next]_(R!readoutVars)
  <2> SUFFICES ASSUME CallInv, CallInv', [Next]_vars
               PROVE  R!Next \/ UNCHANGED R!readoutVars
    OBVIOUS
  <2>1. CASE UNCHANGED vars
    BY <2>1 DEF vars, masterVars, slaveVars, history, R!readoutVars, CounterOfCall,
                Outcome, Sent, Ended, Before
  <2>2. IInv
    BY DEF CallInv
  <2> QED BY <2>1, <2>2, HandlerIsInside, ReplyEnds, BreakingEnds, CallEnds DEF Next
<1> QED BY <1>1, <1>2, <1>3, PTL DEF Spec, KeepsReadout, R!Spec
=============================================================================
