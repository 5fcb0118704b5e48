------------------------- MODULE SensorModuleProofs -------------------------
(***************************************************************************)
(* What TLAPS proves of the firmware, for every number of modules and      *)
(* boards, whatever commands come in and whenever timers run out.          *)
(***************************************************************************)
EXTENDS SensorModule, SequenceTheorems, TLAPS

(* One lemma per way an action moves a variable.                            *)
LEMMA IdleType ==
  ASSUME NEW pc \in Phase, pc # "measure_status"
  PROVE  Idle(pc) \in Loop
<1>1. (CHOOSE a \in Addr : TRUE) \in Addr
  BY AddrAssumption
<1> QED BY <1>1 DEF Idle, Loop

LEMMA GotoType ==
  ASSUME fw \in [Node -> Loop], NEW n \in Node, NEW pc \in Phase,
         pc # "measure_status" \/ fw[n].i < fw[n].nb, Goto(n, pc)
  PROVE  fw' \in [Node -> Loop]
<1>1. [fw[n] EXCEPT !.pc = pc] \in Loop
  BY DEF Loop
<1>2. fw' = [fw EXCEPT ![n] = [fw[n] EXCEPT !.pc = pc]]
  BY DEF Goto
<1> QED BY <1>1, <1>2

LEMMA SkipType ==
  ASSUME fw \in [Node -> Loop], NEW n \in Node, Measuring(n)
  PROVE  [fw EXCEPT ![n].i = @ + 1] \in [Node -> Loop]
<1>1. [fw[n] EXCEPT !.i = @ + 1] \in Loop
  BY DEF Loop, Measuring, At
<1>2. [fw EXCEPT ![n].i = @ + 1] = [fw EXCEPT ![n] = [fw[n] EXCEPT !.i = @ + 1]]
  OBVIOUS
<1> QED BY <1>1, <1>2

LEMMA ContinueType ==
  ASSUME fw \in [Node -> Loop], NEW n \in Node, At(n, "measure_status")
  PROVE  DoMeasure(fw[n].addr, fw[n].i + 1, fw[n].nb) \in Loop
<1>1. fw[n] \in Loop /\ fw[n].i < fw[n].nb
  BY DEF Loop, At
<1> QED BY <1>1 DEF Loop, Phase, DoMeasure

LEMMA AdvanceType ==
  ASSUME counter \in [Node -> Counters], NEW n \in Node, NEW a \in Addr, Advance(n, a)
  PROVE  counter' \in [Node -> Counters]
<1> DEFINE next == IF counter[n][a] + 1 = Registers[a] THEN 0 ELSE counter[n][a] + 1
<1>1. next \in Nat /\ next < Registers[a]
  BY RegistersAssumption DEF Counters
<1>2. [counter[n] EXCEPT ![a] = next] \in Counters
  BY <1>1 DEF Counters
<1>3. counter' = [counter EXCEPT ![n] = [counter[n] EXCEPT ![a] = next]]
  BY DEF Advance, Counters
<1> QED BY <1>2, <1>3

(* The part of the type that concerns frames sent and statuses due.         *)
RadioType ==
  /\ statusDue \in [Node -> 0 .. MaxQueue]
  /\ up \in [Node -> Seq(Uplink)] /\ \A n \in Node : Len(up[n]) <= MaxQueue

LEMMA TransmitType ==
  ASSUME RadioType, NEW n \in Node, NEW f \in Uplink, Transmit(n, f)
  PROVE  RadioType'
<1>1. /\ Append(up[n], f) \in Seq(Uplink)
      /\ Len(Append(up[n], f)) <= MaxQueue
  BY BoundsAssumption DEF RadioType, Transmit
<1>2. up' = [up EXCEPT ![n] = Append(up[n], f)]
  BY DEF Transmit
<1>3. up' \in [Node -> Seq(Uplink)] /\ \A m \in Node : Len(up'[m]) <= MaxQueue
  BY <1>1, <1>2 DEF RadioType
<1>4. statusDue' \in [Node -> 0 .. MaxQueue]
  BY BoundsAssumption DEF RadioType, Transmit
<1> QED BY <1>3, <1>4 DEF RadioType

LEMMA TailType ==
  ASSUME inbox \in [Node -> Seq(Packet)], NEW n \in Node, inbox[n] # << >>
  PROVE  /\ [inbox EXCEPT ![n] = Tail(@)] \in [Node -> Seq(Packet)]
         /\ Head(inbox[n]) \in Packet
BY HeadTailProperties

LEMMA EnqueueType ==
  ASSUME inbox \in [Node -> Seq(Packet)], NEW n \in Node, NEW p \in Packet, Enqueue(n, p)
  PROVE  inbox' \in [Node -> Seq(Packet)]
<1>1. Append(inbox[n], p) \in Seq(Packet)
  OBVIOUS
<1> QED BY <1>1 DEF Enqueue

LEMMA AnswerType ==
  ASSUME inbox \in [Node -> Seq(Packet)], NEW n \in Node
  PROVE  [inbox EXCEPT ![n] = Tail(Append(@, Notice))] \in [Node -> Seq(Packet)]
<1>1. Append(inbox[n], Notice) \in Seq(Packet) /\ Append(inbox[n], Notice) # << >>
  BY AppendProperties DEF Packet, Notice
<1> HIDE DEF Notice
<1>2. Tail(Append(inbox[n], Notice)) \in Seq(Packet)
  BY <1>1, HeadTailProperties
<1> QED BY <1>2

LEMMA Frames ==
  /\ InitFrame \in Uplink /\ HaltReply \in Uplink
  /\ HaltCommand \in Packet /\ Notice \in Packet
  /\ \A a \in Addr, k \in Nat : MeasCommand(a, k) \in Packet
  /\ \A a \in Addr, r \in Nat, d \in Measure \cup {Junk} : Result(a, r, d) \in Uplink
BY DEF InitFrame, HaltReply, HaltCommand, Notice, MeasCommand, Result, Uplink, Packet

LEMMA MeasureType ==
  ASSUME counter \in [Node -> Counters], NEW n \in Node, NEW a \in Addr
  PROVE  << a, counter[n][a] >> \in Measure
<1>1. counter[n][a] \in 0 .. Registers[a] - 1
  BY RegistersAssumption DEF Counters
<1> QED BY <1>1 DEF Measure

-----------------------------------------------------------------------------
LEMMA ModuleInitType == ModuleInit => ModuleTypeOK
<1> SUFFICES ASSUME ModuleInit PROVE ModuleTypeOK
  OBVIOUS
<1>1. fw \in [Node -> Loop]
  BY IdleType DEF ModuleInit, Phase
<1>2. counter \in [Node -> Counters]
  BY RegistersAssumption DEF ModuleInit, Counters
<1> QED BY <1>1, <1>2, BoundsAssumption DEF ModuleInit, ModuleTypeOK

(* The pieces of ModuleTypeOK, for the steps below.                         *)
LEMMA TypeParts ==
  ModuleTypeOK <=> /\ fw \in [Node -> Loop]
                   /\ counter \in [Node -> Counters]
                   /\ inbox \in [Node -> Seq(Packet)]
                   /\ RadioType
                   /\ glitches \in 0 .. MaxGlitches
BY DEF ModuleTypeOK, RadioType

LEMMA PinType ==
  ASSUME ModuleTypeOK, NEW n \in Node, PinHigh(n) \/ PinLow(n)
  PROVE  ModuleTypeOK'
<1>1. fw' \in [Node -> Loop]
  BY IdleType DEF ModuleTypeOK, PinHigh, PinLow, Phase
<1>2. [a \in Addr |-> 0] \in Counters
  BY RegistersAssumption DEF Counters
<1>3. counter' \in [Node -> Counters]
  BY <1>2 DEF ModuleTypeOK, PinHigh, PinLow
<1>4. inbox' \in [Node -> Seq(Packet)]
  <2>1. << >> \in Seq(Packet)
    OBVIOUS
  <2> QED BY <2>1 DEF ModuleTypeOK, PinHigh, PinLow
<1> QED BY <1>1, <1>3, <1>4 DEF ModuleTypeOK, PinHigh, PinLow

LEMMA StatusType ==
  ASSUME ModuleTypeOK, NEW n \in Node, StatusRead(n) \/ StatusTimeout(n)
  PROVE  ModuleTypeOK'
<1>1. fw' \in [Node -> Loop]
  <2>1. AfterStatus(n)
    BY DEF StatusRead, StatusTimeout
  <2>2. CASE At(n, "wake_up_status") /\ Goto(n, "wait_for_command")
    BY <2>2, GotoType DEF ModuleTypeOK, Phase
  <2>3. CASE /\ At(n, "measure_status")
             /\ fw' = [fw EXCEPT ![n] = DoMeasure(@.addr, @.i + 1, @.nb)]
    BY <2>3, ContinueType DEF ModuleTypeOK
  <2>4. CASE At(n, "halt_status") /\ fw' = [fw EXCEPT ![n] = Idle("drain")]
    BY <2>4, IdleType DEF ModuleTypeOK, Phase
  <2> QED BY <2>1, <2>2, <2>3, <2>4 DEF AfterStatus
<1>2. inbox' \in [Node -> Seq(Packet)]
  BY TailType DEF StatusRead, StatusTimeout, ReadStatus, NoStatus, ModuleTypeOK
<1> QED BY <1>1, <1>2 DEF StatusRead, StatusTimeout, ModuleTypeOK

LEMMA TakeCommandType ==
  ASSUME ModuleTypeOK, NEW n \in Node, TakeCommand(n)
  PROVE  ModuleTypeOK'
<1> DEFINE packet == Head(inbox[n])
<1>1. packet \in Packet /\ inbox' \in [Node -> Seq(Packet)]
  BY TailType DEF TakeCommand, ModuleTypeOK
<1>2. fw' \in [Node -> Loop]
  <2>1. CASE /\ packet.cmd = "MEAS"
             /\ fw' = [fw EXCEPT ![n] = DoMeasure(packet.addr, 0, packet.nb)]
    <3>1. packet.addr \in Addr /\ packet.nb \in Nat
      BY <1>1, <2>1 DEF Packet, HaltCommand, Notice
    <3>2. DoMeasure(packet.addr, 0, packet.nb) \in Loop
      BY <3>1 DEF Loop, Phase, DoMeasure
    <3> QED BY <2>1, <3>2 DEF ModuleTypeOK
  <2>2. CASE Goto(n, "halt")
    BY <2>2, GotoType DEF ModuleTypeOK, Phase
  <2>3. CASE UNCHANGED fw
    BY <2>3 DEF ModuleTypeOK
  <2> QED BY <2>1, <2>2, <2>3 DEF TakeCommand
<1> QED BY <1>1, <1>2 DEF TakeCommand, ModuleTypeOK

LEMMA MeasureStepType ==
  ASSUME ModuleTypeOK, NEW n \in Node,
         MeasureSucceeds(n) \/ MeasureRefused(n) \/ MeasureGarbled(n)
  PROVE  ModuleTypeOK'
<1> DEFINE a == fw[n].addr
<1>1. a \in Addr /\ fw[n].i \in Nat /\ Measuring(n)
  BY DEF ModuleTypeOK, Loop, MeasureSucceeds, MeasureRefused, MeasureGarbled
<1>2. glitches' \in 0 .. MaxGlitches
  BY BoundsAssumption
     DEF ModuleTypeOK, MeasureSucceeds, MeasureRefused, MeasureGarbled
<1>3. counter' \in [Node -> Counters]
  BY <1>1, AdvanceType
     DEF ModuleTypeOK, MeasureSucceeds, MeasureRefused, MeasureGarbled
<1>4. fw' \in [Node -> Loop]
  <2>1. CASE Goto(n, "measure_status")
    BY <1>1, <2>1, GotoType DEF Measuring, ModuleTypeOK, Phase
  <2>2. CASE fw' = [fw EXCEPT ![n].i = @ + 1]
    BY <1>1, <2>2, SkipType DEF ModuleTypeOK
  <2> QED BY <2>1, <2>2 DEF MeasureSucceeds, MeasureRefused, MeasureGarbled
<1>5. RadioType'
  <2>1. ASSUME NEW d \in Measure \cup {Junk}, Transmit(n, Result(a, fw[n].i, d))
        PROVE  RadioType'
    BY <1>1, <2>1, Frames, TransmitType, TypeParts
  <2>2. CASE UNCHANGED << up, statusDue >>
    BY <2>2 DEF ModuleTypeOK, RadioType
  <2>3. << a, counter[n][a] >> \in Measure
    BY <1>1, MeasureType DEF ModuleTypeOK
  <2> QED BY <2>1, <2>2, <2>3 DEF MeasureSucceeds, MeasureRefused, MeasureGarbled
<1>6. inbox' = inbox
  BY DEF MeasureSucceeds, MeasureRefused, MeasureGarbled
<1> QED BY <1>2, <1>3, <1>4, <1>5, <1>6 DEF ModuleTypeOK, RadioType

(* The steps that only move the program counter.                            *)
LEMMA QuietType ==
  ASSUME ModuleTypeOK, NEW n \in Node,
         DrainEnds(n) \/ CommandTimeout(n) \/ MeasuresDone(n)
  PROVE  ModuleTypeOK'
<1>1. fw' \in [Node -> Loop]
  BY GotoType DEF DrainEnds, CommandTimeout, MeasuresDone, ModuleTypeOK, Phase
<1> QED BY <1>1 DEF DrainEnds, CommandTimeout, MeasuresDone, ModuleTypeOK

LEMMA AnnounceType ==
  ASSUME ModuleTypeOK, NEW n \in Node, SendWakeUp(n) \/ SendHalt(n)
  PROVE  ModuleTypeOK'
<1>1. fw' \in [Node -> Loop]
  BY GotoType DEF SendWakeUp, SendHalt, ModuleTypeOK, Phase
<1>2. RadioType'
  BY TransmitType, Frames, TypeParts DEF SendWakeUp, SendHalt
<1> QED BY <1>1, <1>2 DEF SendWakeUp, SendHalt, ModuleTypeOK, RadioType

LEMMA SelfHaltType ==
  ASSUME ModuleTypeOK, NEW n \in Node, SelfHalt(n)
  PROVE  ModuleTypeOK'
<1>1. CASE PowerSwitched
  BY <1>1, PinType DEF SelfHalt
<1>2. CASE ~PowerSwitched
  <2>1. fw' \in [Node -> Loop]
    BY <1>2, IdleType DEF SelfHalt, ModuleTypeOK, Phase
  <2>2. inbox' \in [Node -> Seq(Packet)]
    BY <1>2, AnswerType DEF SelfHalt, ModuleTypeOK
  <2> QED BY <1>2, <2>1, <2>2 DEF SelfHalt, ModuleTypeOK
<1> QED BY <1>1, <1>2

(* What goes in and out of the module.                                      *)
LEMMA TrafficType ==
  ASSUME ModuleTypeOK, NEW n \in Node,
         DrainPacket(n) \/ ReportStatus(n) \/ CommandArrives(n) \/ FrameLeaves(n)
  PROVE  ModuleTypeOK'
<1>1. CASE DrainPacket(n)
  BY <1>1, TailType DEF DrainPacket, ModuleTypeOK
<1>2. CASE ReportStatus(n)
  <2>1. inbox' \in [Node -> Seq(Packet)]
    BY <1>2, EnqueueType, Frames DEF ReportStatus, ModuleTypeOK
  <2>2. statusDue' \in [Node -> 0 .. MaxQueue]
    BY <1>2, BoundsAssumption DEF ReportStatus, ModuleTypeOK
  <2> QED BY <1>2, <2>1, <2>2 DEF ReportStatus, ModuleTypeOK
<1>3. CASE CommandArrives(n)
  <2>1. PICK p \in Packet : Deliver(n, p)
    BY <1>3, Frames, CountsAssumption DEF CommandArrives
  <2>2. inbox' \in [Node -> Seq(Packet)]
    BY <2>1, EnqueueType DEF Deliver, ModuleTypeOK
  <2> QED BY <2>1, <2>2 DEF Deliver, ModuleTypeOK
<1>4. CASE FrameLeaves(n)
  <2>1. Tail(up[n]) \in Seq(Uplink) /\ Len(Tail(up[n])) <= MaxQueue
    BY <1>4, BoundsAssumption, HeadTailProperties DEF FrameLeaves, ModuleTypeOK
  <2> QED BY <1>4, <2>1 DEF FrameLeaves, ModuleTypeOK
<1> QED BY <1>1, <1>2, <1>3, <1>4

LEMMA ModuleNextType == ModuleTypeOK /\ [ModuleNext]_moduleVars => ModuleTypeOK'
<1> SUFFICES ASSUME ModuleTypeOK, [ModuleNext]_moduleVars PROVE ModuleTypeOK'
  OBVIOUS
<1>1. CASE UNCHANGED moduleVars
  BY <1>1 DEF moduleVars, ModuleTypeOK
<1>2. CASE ModuleNext
  BY <1>2, PinType, StatusType, TakeCommandType, MeasureStepType, QuietType,
     AnnounceType, SelfHaltType, TrafficType DEF ModuleNext, Steps, Runs
<1> QED BY <1>1, <1>2

(* The module's queues, loop and counters stay within their types.          *)
THEOREM ModuleTypeCorrect == ModuleSpec => []ModuleTypeOK
<1> QED BY ModuleInitType, ModuleNextType, PTL DEF ModuleSpec
-----------------------------------------------------------------------------
(* What the last two theorems assume: every register of a board is          *)
(* activated.                                                               *)
AllActivated == Counts = Registers

(* A failed transfer is never forgotten.                                    *)
LEMMA GlitchesStay ==
  ASSUME ModuleTypeOK, [ModuleNext]_moduleVars, glitches' = 0
  PROVE  glitches = 0
<1>1. CASE UNCHANGED moduleVars
  BY <1>1 DEF moduleVars
<1>2. ASSUME NEW n \in Node, Steps(n)
      PROVE  glitches' = glitches \/ glitches' = glitches + 1
  BY <1>2 DEF Steps, Runs, DrainPacket, SendWakeUp, StatusRead, TakeCommand, MeasuresDone,
              MeasureSucceeds, MeasureRefused, MeasureGarbled, SendHalt, SelfHalt, DrainEnds,
              StatusTimeout, CommandTimeout, ReportStatus, PinHigh, PinLow, CommandArrives,
              Deliver, FrameLeaves
<1>3. glitches \in Nat
  BY BoundsAssumption DEF ModuleTypeOK
<1> QED BY <1>1, <1>2, <1>3 DEF ModuleNext

LEMMA WholeTail ==
  ASSUME NEW q \in Seq(Packet), q # << >>, WholeQueue(q)
  PROVE  /\ WholeQueue(Tail(q))
         /\ Head(q).cmd = "MEAS" => Head(q).nb = Registers[Head(q).addr]
BY HeadTailProperties DEF WholeQueue

LEMMA WholeAppend ==
  ASSUME NEW q \in Seq(Packet), WholeQueue(q), NEW p \in Packet,
         p.cmd = "MEAS" => p.nb = Registers[p.addr]
  PROVE  WholeQueue(Append(q, p))
BY DEF WholeQueue

LEMMA TrueTail ==
  ASSUME NEW q \in Seq(Uplink), q # << >>, TrueResults(q)
  PROVE  TrueResults(Tail(q))
BY HeadTailProperties DEF TrueResults

LEMMA TrueAppend ==
  ASSUME NEW q \in Seq(Uplink), TrueResults(q), NEW f \in Uplink,
         f.cmd = "MEAS" => f.data = << f.addr, f.reg >>
  PROVE  TrueResults(Append(q, f))
BY DEF TrueResults

(* A step of module n leaves the others alone.                              *)
LEMMA OneModuleMoves ==
  ASSUME ModuleTypeOK, NEW n \in Node, Steps(n), NEW m \in Node, m # n
  PROVE  /\ fw'[m] = fw[m] /\ counter'[m] = counter[m]
         /\ inbox'[m] = inbox[m] /\ up'[m] = up[m]
<1>1. CASE PinHigh(n) \/ PinLow(n) \/ SelfHalt(n)
  BY <1>1 DEF PinHigh, PinLow, SelfHalt, ModuleTypeOK
<1>2. CASE StatusRead(n) \/ StatusTimeout(n)
  BY <1>2 DEF StatusRead, StatusTimeout, AfterStatus, ReadStatus, NoStatus, Goto,
              ModuleTypeOK
<1>3. CASE TakeCommand(n) \/ DrainEnds(n) \/ CommandTimeout(n) \/ MeasuresDone(n)
  BY <1>3 DEF TakeCommand, DrainEnds, CommandTimeout, MeasuresDone, Goto, ModuleTypeOK
<1>4. CASE SendWakeUp(n) \/ SendHalt(n)
  BY <1>4 DEF SendWakeUp, SendHalt, Transmit, Goto, ModuleTypeOK
<1>5. CASE MeasureSucceeds(n) \/ MeasureRefused(n) \/ MeasureGarbled(n)
  BY <1>5 DEF MeasureSucceeds, MeasureRefused, MeasureGarbled, Transmit, Advance, Goto,
              ModuleTypeOK
<1>6. CASE DrainPacket(n) \/ ReportStatus(n) \/ CommandArrives(n) \/ FrameLeaves(n)
  BY <1>6 DEF DrainPacket, ReportStatus, CommandArrives, Deliver, Enqueue, FrameLeaves,
              ModuleTypeOK
<1> QED BY <1>1, <1>2, <1>3, <1>4, <1>5, <1>6 DEF Steps, Runs

(* Commands stay whole: they come in whole, and the loop takes them as they *)
(* are.                                                                     *)
LEMMA WholeStep ==
  ASSUME AllActivated, ModuleTypeOK, WholeBoards, [ModuleNext]_moduleVars
  PROVE  WholeBoards'
<1>1. CASE UNCHANGED moduleVars
  BY <1>1 DEF moduleVars, WholeBoards
<1>2. ASSUME NEW n \in Node, Steps(n)
      PROVE  WholeQueue(inbox'[n]) /\ WholeLoop(fw'[n])
  <2>1. WholeQueue(inbox[n]) /\ WholeLoop(fw[n])
    BY DEF WholeBoards
  <2>2. /\ inbox[n] \in Seq(Packet)
        /\ fw[n] \in Loop /\ inbox \in [Node -> Seq(Packet)] /\ fw \in [Node -> Loop]
    BY DEF ModuleTypeOK
  <2>3. WholeQueue(<< >>)
    BY DEF WholeQueue
  <2>4. inbox[n] # << >> => WholeQueue(Tail(inbox[n]))
    BY <2>1, <2>2, WholeTail
  <2>5. WholeQueue(Append(inbox[n], Notice)) /\ WholeQueue(Append(inbox[n], HaltCommand))
    BY <2>1, <2>2, WholeAppend, Frames DEF Notice, HaltCommand
  <2>6. \A a \in Addr : WholeQueue(Append(inbox[n], MeasCommand(a, Counts[a])))
    <3> SUFFICES ASSUME NEW a \in Addr
                 PROVE  WholeQueue(Append(inbox[n], MeasCommand(a, Counts[a])))
      OBVIOUS
    <3>1. MeasCommand(a, Counts[a]) \in Packet
      BY Frames, CountsAssumption
    <3>2. /\ MeasCommand(a, Counts[a]).nb = Registers[a]
          /\ MeasCommand(a, Counts[a]).addr = a
      BY DEF MeasCommand, AllActivated
    <3> QED BY <2>1, <2>2, <3>1, <3>2, WholeAppend
  <2>7. WholeQueue(Tail(Append(inbox[n], Notice)))
    <3>1. Append(inbox[n], Notice) \in Seq(Packet) /\ Append(inbox[n], Notice) # << >>
      BY <2>2, AppendProperties, Frames
    <3> QED BY <2>5, <3>1, WholeTail
  <2>8. WholeQueue(inbox'[n])
    BY <1>2, <2>1, <2>2, <2>3, <2>4, <2>5, <2>6, <2>7
       DEF Steps, Runs, DrainPacket, SendWakeUp, StatusRead, ReadStatus, TakeCommand,
           MeasuresDone, MeasureSucceeds, MeasureRefused, MeasureGarbled, SendHalt, SelfHalt,
           DrainEnds, StatusTimeout, NoStatus, CommandTimeout, ReportStatus, PinHigh, PinLow,
           CommandArrives, Deliver, Enqueue, FrameLeaves
  <2>9. WholeLoop(fw'[n])
    <3>1. CASE TakeCommand(n)
      <4>1. Head(inbox[n]).cmd = "MEAS" =>
              Head(inbox[n]).nb = Registers[Head(inbox[n]).addr]
        BY <2>1, <2>2, <3>1, WholeTail DEF TakeCommand
      <4>2. CASE /\ Head(inbox[n]).cmd = "MEAS"
                 /\ fw'[n] = DoMeasure(Head(inbox[n]).addr, 0, Head(inbox[n]).nb)
        BY <4>1, <4>2 DEF DoMeasure, WholeLoop
      <4>3. CASE Goto(n, "halt")
        BY <2>2, <4>3 DEF Goto, Loop, WholeLoop
      <4>4. CASE UNCHANGED fw
        BY <2>1, <4>4
      <4> QED BY <2>2, <3>1, <4>2, <4>3, <4>4 DEF TakeCommand
    <3>2. CASE StatusRead(n) \/ StatusTimeout(n)
      <4>1. CASE Goto(n, "wait_for_command")
        BY <2>2, <4>1 DEF Goto, Loop, WholeLoop
      <4>2. CASE /\ At(n, "measure_status")
                 /\ fw'[n] = DoMeasure(fw[n].addr, fw[n].i + 1, fw[n].nb)
        BY <2>1, <4>2 DEF At, DoMeasure, WholeLoop
      <4>3. CASE fw'[n] = Idle("drain")
        BY <4>3 DEF Idle, WholeLoop
      <4> QED BY <2>2, <3>2, <4>1, <4>2, <4>3 DEF StatusRead, StatusTimeout, AfterStatus
    <3>3. CASE MeasureSucceeds(n) \/ MeasureRefused(n) \/ MeasureGarbled(n)
      BY <2>1, <2>2, <3>3
         DEF MeasureSucceeds, MeasureRefused, MeasureGarbled, Measuring, Goto, At, Loop,
             WholeLoop
    <3>4. CASE PinHigh(n) \/ PinLow(n) \/ SelfHalt(n)
      BY <2>1, <2>2, <3>4 DEF PinHigh, PinLow, SelfHalt, Idle, WholeLoop
    <3>5. CASE SendWakeUp(n) \/ MeasuresDone(n) \/ SendHalt(n) \/ DrainEnds(n) \/ CommandTimeout(n)
      BY <2>1, <2>2, <3>5
         DEF SendWakeUp, MeasuresDone, SendHalt, DrainEnds, CommandTimeout, Goto, Loop,
             WholeLoop
    <3>6. CASE DrainPacket(n) \/ ReportStatus(n) \/ CommandArrives(n) \/ FrameLeaves(n)
      BY <2>1, <3>6 DEF DrainPacket, ReportStatus, CommandArrives, Deliver, FrameLeaves
    <3> QED BY <1>2, <3>1, <3>2, <3>3, <3>4, <3>5, <3>6 DEF Steps, Runs
  <2> QED BY <2>8, <2>9
<1>3. CASE ModuleNext
  BY <1>2, <1>3, OneModuleMoves DEF ModuleNext, WholeBoards
<1> QED BY <1>1, <1>3

(* The counters keep step: the loop and a board move together, and a step   *)
(* that leaves the loop leaves it after the last register or before the     *)
(* first.                                                                   *)
LEMMA InStepStep ==
  ASSUME ModuleTypeOK, WholeBoards, InStep, [ModuleNext]_moduleVars
  PROVE  InStep'
<1> SUFFICES ASSUME glitches' = 0
             PROVE  \A n \in Node : Keeps(fw'[n], counter'[n], Fitted[n])
  BY DEF InStep
<1>0. glitches = 0
  BY GlitchesStay
<1>1. CASE UNCHANGED moduleVars
  BY <1>0, <1>1 DEF moduleVars, InStep
<1>2. ASSUME NEW n \in Node, Steps(n), NEW b \in Fitted[n]
      PROVE  counter'[n][b] = IF Due(fw'[n], b) = Registers[b] THEN 0 ELSE Due(fw'[n], b)
  <2>1. /\ fw[n] \in Loop /\ fw \in [Node -> Loop] /\ WholeLoop(fw[n])
        /\ counter \in [Node -> [Addr -> Nat]] /\ counter[n] \in [Addr -> Nat]
        /\ b \in Addr /\ Registers[b] \in Nat \ {0}
    BY FittedAssumption, RegistersAssumption DEF ModuleTypeOK, WholeBoards, Counters
  <2>2. counter[n][b] = IF Due(fw[n], b) = Registers[b] THEN 0 ELSE Due(fw[n], b)
    BY <1>0 DEF InStep, Keeps
  <2>3. CASE MeasureSucceeds(n)
    BY <2>1, <2>2, <2>3
       DEF MeasureSucceeds, Measuring, Advance, Goto, At, Loop, Due, WholeLoop
  <2>4. CASE MeasureRefused(n)
    BY <1>0, <2>1, <2>2, <2>4 DEF MeasureRefused, Measuring, At, Loop, Due
  <2>5. ~MeasureGarbled(n)
    BY <1>0 DEF MeasureGarbled
  <2>6. CASE StatusRead(n) \/ StatusTimeout(n)
    BY <2>1, <2>2, <2>6
       DEF StatusRead, StatusTimeout, AfterStatus, Goto, At, Idle, DoMeasure, Loop, Due
  <2>7. CASE TakeCommand(n)
    BY <2>1, <2>2, <2>7 DEF TakeCommand, Goto, At, DoMeasure, Loop, Due
  <2>8. CASE MeasuresDone(n)
    BY <2>1, <2>2, <2>8 DEF MeasuresDone, Goto, At, Loop, Due, WholeLoop
  <2>9. CASE SendWakeUp(n) \/ SendHalt(n) \/ DrainEnds(n) \/ CommandTimeout(n)
    BY <2>1, <2>2, <2>9 DEF SendWakeUp, SendHalt, DrainEnds, CommandTimeout, Goto, At, Loop, Due
  <2>10. CASE PinHigh(n) \/ PinLow(n) \/ SelfHalt(n)
    BY <2>1, <2>2, <2>10 DEF PinHigh, PinLow, SelfHalt, At, Idle, Loop, Due
  <2>11. CASE DrainPacket(n) \/ ReportStatus(n) \/ CommandArrives(n) \/ FrameLeaves(n)
    BY <2>2, <2>11 DEF DrainPacket, ReportStatus, CommandArrives, Deliver, FrameLeaves
  <2> QED BY <1>2, <2>3, <2>4, <2>5, <2>6, <2>7, <2>8, <2>9, <2>10, <2>11 DEF Steps, Runs
<1>3. CASE ModuleNext
  BY <1>0, <1>2, <1>3, OneModuleMoves DEF ModuleNext, InStep, Keeps
<1> QED BY <1>1, <1>3

(* A result is sent only by MeasureSucceeds, under the loop variable, which *)
(* is what the board's counter says.                                        *)
LEMMA ResultsStep ==
  ASSUME ModuleTypeOK, WholeBoards, InStep, ResultsMatch, [ModuleNext]_moduleVars
  PROVE  ResultsMatch'
<1> SUFFICES ASSUME glitches' = 0
             PROVE  \A n \in Node : TrueResults(up'[n])
  BY DEF ResultsMatch
<1>0. glitches = 0
  BY GlitchesStay
<1>1. CASE UNCHANGED moduleVars
  BY <1>0, <1>1 DEF moduleVars, ResultsMatch
<1>2. ASSUME NEW n \in Node, Steps(n)
      PROVE  TrueResults(up'[n])
  <2>1. TrueResults(up[n]) /\ up[n] \in Seq(Uplink) /\ up \in [Node -> Seq(Uplink)]
    BY <1>0 DEF ResultsMatch, ModuleTypeOK
  <2>2. CASE MeasureSucceeds(n)
    <3> DEFINE a == fw[n].addr
               f == Result(a, fw[n].i, << a, counter[n][a] >>)
    <3>1. fw[n] \in Loop /\ a \in Addr /\ a \in Fitted[n]
      BY <2>2 DEF MeasureSucceeds, ModuleTypeOK, Loop
    <3>2. counter[n][a] = fw[n].i
      BY <1>0, <2>2, <3>1
         DEF InStep, Keeps, Due, MeasureSucceeds, Measuring, At, Loop, WholeBoards, WholeLoop
    <3>3. f \in Uplink
      BY <3>1, Frames, MeasureType DEF ModuleTypeOK, Loop
    <3>4. f.cmd = "MEAS" /\ f.data = << f.addr, f.reg >>
      BY <3>2 DEF Result
    <3>5. TrueResults(Append(up[n], f))
      BY <2>1, <3>3, <3>4, TrueAppend
    <3>6. up' = [up EXCEPT ![n] = Append(up[n], f)]
      BY <2>2 DEF MeasureSucceeds, Transmit
    <3> QED BY <2>1, <3>5, <3>6
  <2>3. ~MeasureGarbled(n)
    BY <1>0 DEF MeasureGarbled
  <2>4. CASE SendWakeUp(n) \/ SendHalt(n)
    <3>1. TrueResults(Append(up[n], InitFrame)) /\ TrueResults(Append(up[n], HaltReply))
      BY <2>1, TrueAppend, Frames DEF InitFrame, HaltReply
    <3> QED BY <2>1, <2>4, <3>1 DEF SendWakeUp, SendHalt, Transmit
  <2>5. CASE FrameLeaves(n)
    BY <2>1, <2>5, TrueTail DEF FrameLeaves
  <2>6. CASE UNCHANGED up
    BY <2>1, <2>6
  <2> QED BY <1>2, <2>2, <2>3, <2>4, <2>5, <2>6
          DEF Steps, Runs, DrainPacket, StatusRead, TakeCommand, MeasuresDone, MeasureRefused,
              SelfHalt, DrainEnds, StatusTimeout, CommandTimeout, ReportStatus, PinHigh,
              PinLow, CommandArrives, Deliver
<1>3. CASE ModuleNext
  BY <1>0, <1>2, <1>3, OneModuleMoves DEF ModuleNext, ResultsMatch
<1> QED BY <1>1, <1>3

LEMMA InitInStep == ModuleInit => WholeBoards /\ InStep /\ ResultsMatch
<1> SUFFICES ASSUME ModuleInit, NEW n \in Node
             PROVE  /\ WholeQueue(inbox[n]) /\ WholeLoop(fw[n])
                    /\ Keeps(fw[n], counter[n], Fitted[n]) /\ TrueResults(up[n])
  BY DEF WholeBoards, InStep, ResultsMatch
<1>1. inbox[n] = << >> /\ up[n] = << >> /\ counter[n] = [a \in Addr |-> 0]
  BY DEF ModuleInit
<1>2. fw[n].pc \in {"off", "drain"}
  BY DEF ModuleInit, Idle
<1>3. \A a \in Fitted[n] : a \in Addr /\ Registers[a] # 0
  BY FittedAssumption, RegistersAssumption
<1> QED BY <1>1, <1>2, <1>3 DEF WholeQueue, WholeLoop, Keeps, Due, TrueResults

(* The counter of every board agrees with the loop variable of the firmware *)
(* (wait_for_command against sensor_meas), though nothing synchronises      *)
(* them, as long as no transfer failed.                                     *)
THEOREM CountersKeepStep ==
  ASSUME AllActivated
  PROVE  ModuleSpec => []InStep
<1> DEFINE Inv == ModuleTypeOK /\ WholeBoards /\ InStep
<1>1. ModuleInit => Inv
  BY ModuleInitType, InitInStep
<1>2. Inv /\ [ModuleNext]_moduleVars => Inv'
  BY ModuleNextType, WholeStep, InStepStep
<1>3. Inv => InStep
  OBVIOUS
<1> QED BY <1>1, <1>2, <1>3, PTL DEF ModuleSpec

(* Every result leaves under the number of the sensor that made it          *)
(* (send_results), whatever commands, power cuts and time-outs come         *)
(* between, as long as no transfer failed.                                  *)
THEOREM ResultsAreTrue ==
  ASSUME AllActivated
  PROVE  ModuleSpec => []ResultsMatch
<1> DEFINE Inv == ModuleTypeOK /\ WholeBoards /\ InStep /\ ResultsMatch
<1>1. ModuleInit => Inv
  BY ModuleInitType, InitInStep
<1>2. Inv /\ [ModuleNext]_moduleVars => Inv'
  BY ModuleNextType, WholeStep, InStepStep, ResultsStep
<1>3. Inv => ResultsMatch
  OBVIOUS
<1> QED BY <1>1, <1>2, <1>3, PTL DEF ModuleSpec
=============================================================================
