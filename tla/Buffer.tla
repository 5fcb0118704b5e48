------------------------------- MODULE Buffer -------------------------------
(***************************************************************************)
(* The byte queue of the sensor boards (TinyWire/buffer.h).  front and     *)
(* rear are 8-bit indices and rear starts at -1, which is 255; size() is   *)
(* computed in int, so 255 - 0 + 1 is "more than BUFFER_SIZE" and reads as *)
(* empty.                                                                  *)
(***************************************************************************)
EXTENDS Integers

CONSTANT BUFFER_SIZE

(* An 8-bit rear reaches BUFFER_SIZE - 1 and still has 255 for "none".      *)
ASSUME BufferSizeAssumption == BUFFER_SIZE \in 2 .. 255

Byte == 0 .. 255
Word == {n \in Nat : n < 65536}
Slots == 0 .. BUFFER_SIZE - 1
Array == [Slots -> Byte]

Buffers == [queue : Array, front : Slots, rear : Byte]

Cleared == [queue |-> [i \in Slots |-> 0], front |-> 0, rear |-> 255]

NextRear_Wide(b) ==  \* mutant: the index has no 8 bits
  IF b.rear = BUFFER_SIZE - 1 THEN 0 ELSE b.rear + 1

NextRear(b) == IF b.rear = BUFFER_SIZE - 1 THEN 0 ELSE (b.rear + 1) % 256

(* rear moves before the test for a full queue, and stays moved.            *)
Push(b, data) ==
  LET rear == NextRear(b) IN
  [queue |-> IF b.front = rear /\ b.queue[b.front] # 0 THEN b.queue
             ELSE [b.queue EXCEPT ![rear] = data],
   front |-> b.front,
   rear |-> rear]

PopFails(b) == b.front = b.rear + 1

Popped(b) == IF PopFails(b) THEN 255 ELSE b.queue[b.front]

Pop(b) ==
  IF PopFails(b) THEN b
  ELSE [queue |-> [b.queue EXCEPT ![b.front] = 0],
        front |-> IF b.front = BUFFER_SIZE - 1 THEN 0 ELSE b.front + 1,
        rear |-> b.rear]

SizeOf(b) ==
  LET span == b.rear - b.front + 1
  IN  IF span < 0 \/ span > BUFFER_SIZE THEN 0 ELSE span
=============================================================================
