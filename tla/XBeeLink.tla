------------------------------- MODULE XBeeLink -------------------------------
(***************************************************************************)
(* The receiving end of the gateway's serial port (Xbee_communicator, over *)
(* beagle_serial): frames arrive byte by byte and some bytes are lost.     *)
(* rcpt_frame reads on from whatever looks like a delimiter, and as far as *)
(* the bytes it takes for a length, a type or a name tell it: any 16 bits, *)
(* which may lead it out of its buffer, or round and round in it.  The     *)
(* port does not block: when nothing is left, read answers 0xFF.  It       *)
(* pauses ten times as long between two reads as a byte takes on the line  *)
(* (TIMING, 9600 baud), so that it never overtakes a frame that is still   *)
(* arriving.                                                               *)
(***************************************************************************)
EXTENDS Naturals, Sequences

CONSTANTS Size,        \* bytes of a frame: delimiter, length, type, data, checksum
          Lookalike,   \* data bytes that look like a delimiter: nothing is escaped
          MaxRead,     \* what a misread frame may go on for within its buffer
          MaxFrames, MaxLost   \* bounds

ASSUME XBeeLinkAssumption ==
  /\ Size \in Nat /\ Size > 4 /\ Lookalike \subseteq 4 .. Size - 1
  /\ MaxRead \in Nat /\ MaxRead > 1
  /\ MaxFrames \in Nat /\ MaxLost \in Nat

VARIABLES port,        \* bytes that were not read: <<frame, place>>
          frames,      \* frames that have begun to arrive
          arriving,    \* the place of the next byte of the last one, 0 for none
          losses,
          damaged,     \* frames that lost a byte
          alone,       \* frames that found the receiver waiting for a frame
          last,        \* the last byte read of a frame that is as sent so far
          misread,     \* bytes still to be read of one that is not, 0 for none
          overrun,     \* one led out of the buffer, or never ends
          draining,    \* recv empties the port
          delivered    \* whole frames handed to run

readVars == << last, misread, overrun, draining, delivered >>
linkVars == << port, frames, arriving, losses, damaged, alone, readVars >>

Filler == << 0, 0 >>     \* 0xFF for a byte that is not there; no last byte
Byte == (1 .. MaxFrames) \X (1 .. Size)

LinkTypeOK ==
  /\ port \in Seq(Byte) /\ last \in Byte \cup {Filler}
  /\ frames \in 0 .. MaxFrames /\ arriving \in {0} \cup 2 .. Size
  /\ losses \in 0 .. MaxLost
  /\ {damaged, alone} \subseteq SUBSET (1 .. frames)
  /\ misread \in 0 .. MaxRead /\ {overrun, draining} \subseteq BOOLEAN
  /\ delivered \in Seq(1 .. frames)

LinkInit ==
  /\ port = << >> /\ frames = 0 /\ arriving = 0 /\ losses = 0
  /\ damaged = {} /\ alone = {}
  /\ last = Filler /\ misread = 0 /\ overrun = FALSE /\ draining = FALSE
  /\ delivered = << >>

Reading == last # Filler \/ misread > 0

(* epoll_wait wakes recv for a byte only.                                   *)
Woken == ~Reading /\ ~draining /\ ~overrun /\ port # << >>

InFrame_Waits == Reading /\ port # << >>  \* mutant: a read that waits for a byte

(* Inside a frame read answers in any case, when the pause is over.         *)
InFrame == Reading /\ (port # << >> \/ arriving = 0)

(* recv empties the port, to the pause.                                     *)
Drains == draining /\ (port # << >> \/ arriving = 0)

(* A misread frame has n bytes to go.  With the last one its checksum fails,*)
(* or its type is an unknown one and recv empties the port.                 *)
Misreads(n) ==
  /\ misread' = n
  /\ IF n = 0 THEN draining' \in BOOLEAN ELSE UNCHANGED draining

(* The frame is not as sent any more: its length may be any number, its     *)
(* type may have another's layout, a node's name may miss its final 0.  The *)
(* loops over the payload do not end above 255, and write where they are.   *)
Misled(least) ==
  /\ last' = Filler
  /\ \/ \E n \in least .. MaxRead : Misreads(n)
        /\ UNCHANGED overrun
     \/ overrun' = TRUE /\ UNCHANGED << misread, draining >>
  /\ UNCHANGED delivered

(* A byte that is no delimiter is dropped.  One that only looks like it is  *)
(* followed by a length and a type, whatever they are.                      *)
ReadDelimiter ==
  /\ Woken /\ port' = Tail(port)
  /\ \/ /\ Head(port)[2] = 1 /\ last' = Head(port)
        /\ UNCHANGED << misread, overrun, draining, delivered >>
     \/ Head(port)[2] \in Lookalike /\ Misled(2)
     \/ Head(port)[2] \notin {1} \cup Lookalike /\ UNCHANGED readVars

(* A byte b of the frame.  The checksum holds for a whole frame; where it   *)
(* happens to hold for another one, too, that is handed to run as well, and *)
(* not counted here.                                                        *)
Take(b) ==
  \/ /\ last # Filler /\ b = << last[1], last[2] + 1 >>
     /\ IF b[2] = Size
        THEN last' = Filler /\ delivered' = Append(delivered, b[1])
        ELSE last' = b /\ UNCHANGED delivered
     /\ UNCHANGED << misread, overrun, draining >>
  \/ /\ last # Filler /\ b # << last[1], last[2] + 1 >>
     /\ IF last[2] = Size - 1
        THEN last' = Filler /\ UNCHANGED << misread, overrun, draining, delivered >>
        ELSE Misled(0)
  \/ /\ last = Filler /\ Misreads(misread - 1)
     /\ UNCHANGED << last, overrun, delivered >>

ReadByte ==
  /\ InFrame
  /\ IF port # << >> THEN port' = Tail(port) /\ Take(Head(port))
     ELSE Take(Filler) /\ UNCHANGED port

(* recv reads to the first 0xFF, the port's filler or a byte of data.       *)
Drain ==
  /\ Drains
  /\ IF port # << >>
     THEN /\ port' = Tail(port)
          /\ draining' \in IF Head(port)[2] > 3 THEN BOOLEAN ELSE {TRUE}
     ELSE draining' = FALSE /\ UNCHANGED port
  /\ UNCHANGED << last, misread, overrun, delivered >>

Receive == ReadDelimiter \/ ReadByte \/ Drain

Busy == Woken \/ InFrame \/ Drains \/ overrun

(* The next byte from the XBee, or its loss.  A frame is alone if it finds  *)
(* the receiver with nothing left to do.                                    *)
ByteArrives ==
  \E first \in BOOLEAN :
    /\ IF first THEN arriving = 0 /\ frames < MaxFrames ELSE arriving # 0
    /\ frames' = IF first THEN frames + 1 ELSE frames
    /\ alone' = IF first /\ ~Busy THEN alone \cup {frames'} ELSE alone
    /\ LET place == IF first THEN 1 ELSE arriving
       IN  /\ arriving' = IF place = Size THEN 0 ELSE place + 1
           /\ \/ port' = Append(port, << frames', place >>)
                 /\ UNCHANGED << losses, damaged >>
              \/ /\ losses < MaxLost /\ losses' = losses + 1
                 /\ damaged' = damaged \cup {frames'}
                 /\ UNCHANGED port
    /\ UNCHANGED readVars

LinkStep ==
  \/ Receive /\ UNCHANGED << frames, arriving, losses, damaged, alone >>
  \/ ByteArrives

LinkSpec == LinkInit /\ [][LinkStep]_linkVars

-----------------------------------------------------------------------------
Quiet == port = << >> /\ arriving = 0 /\ ~Reading /\ ~draining /\ ~overrun
Delivered(f) == \E i \in DOMAIN delivered : delivered[i] = f

(* As long as no byte is lost, the receiver keeps to the frames: it         *)
(* delivers every one and never leaves its buffer.  A damaged frame may     *)
(* take it out of the buffer for good; short of that, a frame that comes    *)
(* whole to a receiver with nothing left to do is delivered, whatever was   *)
(* lost before: what is left of a damaged one never reaches beyond a pause. *)
(* No frame is delivered twice or before an earlier one (read, rcpt_frame,  *)
(* recv).                                                                   *)
LinkDelivers ==
  /\ damaged = {} => ~overrun /\ (Quiet => \A f \in 1 .. frames : Delivered(f))
  /\ Quiet => \A f \in alone \ damaged : Delivered(f)
  /\ \A i, j \in DOMAIN delivered : i < j => delivered[i] < delivered[j]
=============================================================================
