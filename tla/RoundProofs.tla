---------------------------- MODULE RoundProofs ----------------------------
(***************************************************************************)
(* What TLAPS proves of the gateway, the radio and the firmware together,  *)
(* for any number of modules and boards, any losses and restarts and any   *)
(* timing.  A step of the network is a step of the gateway, of one module  *)
(* or of both, so the lemmas on the parts carry over; what is added is the *)
(* frames on the air between them.                                         *)
(***************************************************************************)
EXTENDS MeasureRound, GatewayProofs, SensorModuleProofs

(* Whatever number a frame carries, and whatever a board measures, the      *)
(* types of the gateway have room for it.                                   *)
WideTypes == Reg = Nat /\ Measure \cup {Junk} \subseteq Data

(* Every sensor of a configured board is activated (Counts of SensorModule  *)
(* says how many that is), in the order of the board's registers.           *)
InOrder ==
  \A c \in Configs, n \in Node, a \in Addr :
    LET board == c.boards[n][a] IN
    board # << >> =>
      /\ Len(board) = Counts[a]
      /\ \A k \in DOMAIN board : board[k].addr = a /\ board[k].reg = k - 1

AirType == air \in [Node -> Seq(Commands)]
BoundsType == losses \in 0 .. MaxLosses /\ restarts \in 0 .. MaxRestarts

LEMMA RoundParts == TypeOK <=> GatewayTypeOK /\ ModuleTypeOK /\ AirType /\ BoundsType
BY DEF TypeOK, AirType, BoundsType

-----------------------------------------------------------------------------
(* The frame the gateway takes is a frame a module may send.                *)
LEMMA FrameTaken ==
  ASSUME ModuleTypeOK, NEW n \in Node, up[n] # << >>
  PROVE  /\ Head(up[n]) \in Uplink
         /\ Head(up[n]).cmd = "MEAS" =>
              /\ Head(up[n]).addr \in Addr /\ Head(up[n]).reg \in Nat
              /\ Head(up[n]).data \in Measure \cup {Junk}
<1>1. up[n] \in Seq(Uplink)
  BY DEF ModuleTypeOK
<1>2. Head(up[n]) \in Uplink
  BY <1>1, HeadTailProperties
<1>3. InitFrame.cmd = "INIT" /\ HaltReply.cmd = "HALT"
  BY DEF InitFrame, HaltReply
<1> QED BY <1>2, <1>3 DEF Uplink

(* A frame taken off the radio is one the gateway's handlers are about.     *)
LEMMA ReceivesNext ==
  ASSUME WideTypes, ModuleTypeOK, NEW n \in Node, GatewayReceives(n)
  PROVE  GatewayNext
<1> DEFINE frame == Head(up[n])
<1>1. CASE RecvInit(n) \/ RecvHalt(n)
  BY <1>1 DEF GatewayNext
<1>2. CASE /\ frame.cmd = "MEAS"
           /\ RecvMeas(n, frame.addr, frame.reg, TRUE, frame.data)
  <2>1. frame.addr \in Addr /\ frame.reg \in Reg /\ frame.data \in Data
    BY <1>2, FrameTaken DEF GatewayReceives, WideTypes
  <2> HIDE DEF frame
  <2> QED BY <1>2, <2>1 DEF GatewayNext
<1> QED BY <1>1, <1>2 DEF GatewayReceives

(* Each step of the network, seen from the gateway.                         *)
LEMMA GatewaySteps ==
  ASSUME WideTypes, ModuleTypeOK, [Next]_vars
  PROVE  [GatewayNext]_gatewayVars
<1>1. CASE UNCHANGED vars
  BY <1>1 DEF vars
<1>2. CASE GatewayWakes \/ GatewayRestarts
  BY <1>2 DEF GatewayWakes, GatewayRestarts, GatewayNext
<1>3. ASSUME NEW n \in Node, GatewayReceives(n)
      PROVE  GatewayNext
  BY <1>3, ReceivesNext
<1>4. ASSUME NEW n \in Node,
             RadioDelivers(n) \/ RadioLoses(n) \/ ModuleRuns(n) \/ RadioReports(n)
             \/ ModuleDrained(n) \/ ModuleSeesNoStatus(n) \/ ModuleTimesOut(n)
      PROVE  UNCHANGED gatewayVars
  BY <1>4 DEF RadioDelivers, RadioLoses, ModuleRuns, RadioReports, ModuleDrained,
              ModuleSeesNoStatus, ModuleTimesOut, Module
<1> QED BY <1>1, <1>2, <1>3, <1>4 DEF Next

(* A command of the gateway that the radio hands to the firmware.           *)
HandsOver(n, f) ==
  \/ f.cmd = "MEAS" /\ Deliver(n, MeasCommand(f.addr, f.nb))
  \/ f.cmd = "HALT" /\ Deliver(n, HaltCommand)

(* Each step of the network, seen from the modules: one of their own, or a  *)
(* command that comes in.                                                   *)
LEMMA ModuleSteps ==
  ASSUME [Next]_vars
  PROVE  \/ [ModuleNext]_moduleVars
         \/ \E n \in Node : air[n] # << >> /\ HandsOver(n, Head(air[n]))
<1>1. CASE UNCHANGED vars
  BY <1>1 DEF vars
<1>2. CASE GatewayWakes \/ GatewayRestarts
  BY <1>2 DEF GatewayWakes, GatewayRestarts
<1>3. ASSUME NEW n \in Node, GatewayReceives(n) PROVE ModuleNext
  BY <1>3 DEF GatewayReceives, ModuleNext, Steps, FrameLeaves
<1>4. ASSUME NEW n \in Node, RadioDelivers(n)
      PROVE  ModuleNext \/ (air[n] # << >> /\ HandsOver(n, Head(air[n])))
  BY <1>4 DEF RadioDelivers, ModuleNext, Steps, HandsOver
<1>5. ASSUME NEW n \in Node, RadioLoses(n) PROVE [ModuleNext]_moduleVars
  BY <1>5 DEF RadioLoses, ModuleNext, Steps, FrameLeaves, moduleVars
<1>6. ASSUME NEW n \in Node,
             ModuleRuns(n) \/ RadioReports(n) \/ ModuleDrained(n)
             \/ ModuleSeesNoStatus(n) \/ ModuleTimesOut(n)
      PROVE  ModuleNext
  BY <1>6 DEF ModuleRuns, RadioReports, ModuleDrained, ModuleSeesNoStatus, ModuleTimesOut,
              Module, ModuleNext, Steps
<1> QED BY <1>1, <1>2, <1>3, <1>4, <1>5, <1>6 DEF Next

-----------------------------------------------------------------------------
LEMMA AirHead ==
  ASSUME AirType, NEW n \in Node, air[n] # << >>
  PROVE  /\ Head(air[n]) \in Commands /\ Tail(air[n]) \in Seq(Commands)
         /\ Head(air[n]).cmd = "MEAS" =>
              Head(air[n]).addr \in Addr /\ Head(air[n]).nb \in Nat
<1>1. air[n] \in Seq(Commands)
  BY DEF AirType
<1>2. Head(air[n]) \in Commands /\ Tail(air[n]) \in Seq(Commands)
  BY <1>1, HeadTailProperties
<1> QED BY <1>2 DEF Commands

LEMMA HandedType ==
  ASSUME ModuleTypeOK, AirType, NEW n \in Node, air[n] # << >>, HandsOver(n, Head(air[n]))
  PROVE  ModuleTypeOK'
<1>1. PICK p \in Packet : Deliver(n, p)
  BY AirHead, Frames DEF HandsOver
<1>2. inbox' \in [Node -> Seq(Packet)]
  BY <1>1, EnqueueType DEF Deliver, ModuleTypeOK
<1> QED BY <1>1, <1>2 DEF Deliver, ModuleTypeOK

(* What happens on the air: a handler's frames are put on it, one is taken  *)
(* off, or nothing.                                                         *)
LEMMA AirSteps ==
  ASSUME [Next]_vars
  PROVE  \/ OnAir /\ (GatewayWakes \/ \E n \in Node : GatewayReceives(n))
         \/ \E n \in Node : air[n] # << >> /\ air' = [air EXCEPT ![n] = Tail(@)]
         \/ air' = air
BY DEF Next, vars, GatewayWakes, GatewayRestarts, GatewayReceives, RadioDelivers, RadioLoses,
       ModuleRuns, RadioReports, ModuleDrained, ModuleSeesNoStatus, ModuleTimesOut, Module

LEMMA AirStep ==
  ASSUME AirType, sent' \in Seq(Commands), [Next]_vars
  PROVE  AirType'
<1>1. CASE OnAir
  <2>1. \A n \in Node : air[n] \o sent' \in Seq(Commands)
    BY ConcatProperties DEF AirType
  <2> QED BY <1>1, <2>1 DEF OnAir, AirType
<1>2. ASSUME NEW n \in Node, air[n] # << >>, air' = [air EXCEPT ![n] = Tail(@)]
      PROVE  AirType'
  BY <1>2, AirHead DEF AirType
<1> QED BY <1>1, <1>2, AirSteps DEF AirType

LEMMA BoundsStep ==
  ASSUME BoundsType, [Next]_vars
  PROVE  BoundsType'
<1>1. losses \in Nat /\ restarts \in Nat /\ MaxLosses \in Nat /\ MaxRestarts \in Nat
  BY NetworkAssumption DEF BoundsType
<1>2. /\ losses' = losses \/ (losses < MaxLosses /\ losses' = losses + 1)
      /\ restarts' = restarts \/ (restarts < MaxRestarts /\ restarts' = restarts + 1)
  BY DEF Next, vars, GatewayWakes, GatewayRestarts, GatewayReceives, RadioDelivers,
         RadioLoses, ModuleRuns, RadioReports, ModuleDrained, ModuleSeesNoStatus,
         ModuleTimesOut, Module
<1> QED BY <1>1, <1>2 DEF BoundsType

LEMMA RoundInitType == Init => TypeOK
<1>1. Init => GatewayTypeOK /\ ModuleTypeOK
  BY GatewayInitType, ModuleInitType DEF Init
<1>2. Init => AirType /\ BoundsType
  BY NetworkAssumption DEF Init, AirType, BoundsType
<1> QED BY <1>1, <1>2, RoundParts

LEMMA RoundNextType ==
  ASSUME WideTypes, TypeOK, [Next]_vars
  PROVE  TypeOK'
<1>0. GatewayTypeOK /\ ModuleTypeOK /\ AirType /\ BoundsType
  BY RoundParts
<1>1. GatewayTypeOK'
  BY <1>0, GatewaySteps, GatewayNextType
<1>2. ModuleTypeOK'
  BY <1>0, ModuleSteps, ModuleNextType, HandedType
<1>3. AirType'
  BY <1>0, <1>1, AirStep DEF GatewayTypeOK
<1>4. BoundsType'
  BY <1>0, BoundsStep
<1> QED BY <1>1, <1>2, <1>3, <1>4 DEF TypeOK, AirType, BoundsType

(* Gateway, radio and modules keep their types when they run together: no   *)
(* frame one part sends is of a form the other does not expect, and no      *)
(* table, iterator or counter leaves its range (store_measure, next_measure,*)
(* wait_for_command).                                                       *)
THEOREM RoundTypeCorrect ==
  ASSUME WideTypes
  PROVE  Spec => []TypeOK
<1> QED BY RoundInitType, RoundNextType, PTL DEF Spec

-----------------------------------------------------------------------------
(* A command covers its board: it asks for as many measures as the board    *)
(* has.                                                                     *)
Whole(frames) ==
  \A i \in DOMAIN frames :
    frames[i].cmd = "MEAS" => frames[i].nb = Registers[frames[i].addr]

WholeAir == \A n \in Node : Whole(air[n])

LEMMA NoCommand ==
  ASSUME NEW n, NEW frames,
         frames \in {<< >>, << HaltFrame(n) >>, << D0Frame(n, "LOW") >>,
                     << D0Frame(n, "HIGH"), D0Frame(n, "LOW"), D0Frame(n, "HIGH") >>}
  PROVE  Whole(frames)
BY DEF HaltFrame, D0Frame, Whole

(* What next_measure sends for a board names all its sensors, and these are *)
(* all the board has.                                                       *)
LEMMA AskWhole ==
  ASSUME InOrder, AllActivated, GatewayTypeOK, NEW n \in Node,
         NEW p \in Nat, p <= End(n), p # End(n), p # Null, NEW i, NEW s, Ask(n, p, i, s)
  PROVE  Whole(sent')
<1> DEFINE a == Board(n, p)
<1>1. a \in Addr /\ Size(n, a) \in Nat \ {0} /\ cfg \in Configs
  BY Positions DEF GatewayTypeOK
<1>2. cfg.boards[n][a] \in Seq(Sensor)
  BY <1>1, TablesOfModule
<1>3. cfg.boards[n][a] # << >>
  BY <1>1, <1>2 DEF Size
<1>4. Size(n, a) = Registers[a]
  BY <1>1, <1>3 DEF InOrder, AllActivated, Size
<1>5. sent' = << MeasFrame(n, a, Size(n, a)) >>
  BY DEF Ask
<1> QED BY <1>4, <1>5 DEF MeasFrame, Whole

LEMMA AnswerWhole ==
  ASSUME InOrder, AllActivated, GatewayTypeOK, NEW n \in Node, GetNextMeasure(n)
  PROVE  Whole(sent')
<1> DEFINE p == iter[n].it
<1>1. p \in Nat /\ p <= End(n) /\ Null \in Nat /\ cfg \in Configs
  BY DEF GatewayTypeOK, Null
<1>2. CASE HaltAtEnd(n) \/ NullIterator(n) \/ SkipMeasure(n)
  BY <1>2, NoCommand DEF HaltAtEnd, Halt, NullIterator, SkipMeasure
<1>3. CASE AskSingle(n)
  BY <1>1, <1>3, AskWhole DEF AskSingle, AtSensor
<1>4. CASE AskSeveral(n)
  BY <1>1, <1>4, AskWhole DEF AskSeveral, Several, AtSensor
<1>5. CASE LastSkip(n)
  <2>1. p + 1 \in Nat /\ p + 1 <= End(n) /\ p + 1 # Null
    BY <1>1, <1>5, Positions DEF LastSkip, Several, AtSensor, Null
  <2>2. CASE Halt(n, 0, 0)
    BY <2>2, NoCommand DEF Halt
  <2>3. CASE p + 1 # End(n) /\ Ask(n, p + 1, 0, 0)
    BY <2>1, <2>3, AskWhole
  <2> QED BY <1>5, <2>2, <2>3 DEF LastSkip
<1> QED BY <1>2, <1>3, <1>4, <1>5 DEF GetNextMeasure, NextMeasure

(* Whatever handler ran, its commands are whole.                            *)
LEMMA SentWhole ==
  ASSUME InOrder, AllActivated, GatewayTypeOK, GatewayNext
  PROVE  Whole(sent')
<1>1. ASSUME NEW n \in Node, WakeUpModule(n) \/ RecvHalt(n) \/ RecvInit(n)
      PROVE  Whole(sent')
  BY <1>1, NoCommand, AnswerWhole DEF WakeUpModule, RecvHalt, RecvInit
<1>2. ASSUME NEW n \in Node, NEW a \in Addr, NEW r \in Reg,
             NEW printable \in BOOLEAN, NEW d \in Data,
             RecvMeas(n, a, r, printable, d)
      PROVE  Whole(sent')
  BY <1>2, AnswerWhole DEF RecvMeas
<1>3. CASE Restart \/ BeginFails \/ WakeUpNobody \/ RecvOther
  BY <1>3, NoCommand DEF Restart, BeginFails, WakeUpNobody, RecvOther
<1> QED BY <1>1, <1>2, <1>3 DEF GatewayNext, WakeUp

(* Losing or delivering the first frame, and adding whole ones, leaves      *)
(* whole ones.                                                              *)
LEMMA WholeAirTail ==
  ASSUME AirType, NEW n \in Node, air[n] # << >>, Whole(air[n])
  PROVE  /\ Whole(Tail(air[n]))
         /\ Head(air[n]).cmd = "MEAS" =>
              Head(air[n]).nb = Registers[Head(air[n]).addr]
<1>1. air[n] \in Seq(Commands)
  BY DEF AirType
<1> QED BY <1>1, HeadTailProperties DEF Whole

LEMMA WholeConcat ==
  ASSUME NEW s \in Seq(Commands), NEW t \in Seq(Commands), Whole(s), Whole(t)
  PROVE  Whole(s \o t)
BY ConcatProperties DEF Whole

LEMMA WholeAirStep ==
  ASSUME InOrder, AllActivated, WideTypes, TypeOK, TypeOK', WholeAir, [Next]_vars
  PROVE  WholeAir'
<1>0. GatewayTypeOK /\ ModuleTypeOK /\ AirType /\ sent' \in Seq(Commands)
  BY RoundParts DEF TypeOK, GatewayTypeOK
<1>1. CASE OnAir /\ GatewayNext
  <2>1. Whole(sent')
    BY <1>0, <1>1, SentWhole
  <2>2. ASSUME NEW n \in Node PROVE Whole(air[n] \o sent')
    BY <1>0, <2>1, WholeConcat DEF WholeAir, AirType
  <2> QED BY <1>1, <2>2 DEF OnAir, WholeAir
<1>2. ASSUME NEW n \in Node, air[n] # << >>, air' = [air EXCEPT ![n] = Tail(@)]
      PROVE  WholeAir'
  BY <1>0, <1>2, WholeAirTail DEF WholeAir, AirType
<1>3. CASE air' = air
  BY <1>3 DEF WholeAir
<1>4. GatewayWakes => GatewayNext
  BY DEF GatewayWakes, GatewayNext
<1>5. (\E n \in Node : GatewayReceives(n)) => GatewayNext
  BY <1>0, ReceivesNext
<1> QED BY <1>1, <1>2, <1>3, <1>4, <1>5, AirSteps

-----------------------------------------------------------------------------
(* The parts of SensorModule's invariant survive every step of the network. *)
ModuleInv == WholeBoards /\ InStep /\ ResultsMatch

LEMMA HandedIsNext ==
  ASSUME AllActivated, AirType, WholeAir,
         NEW n \in Node, air[n] # << >>, HandsOver(n, Head(air[n]))
  PROVE  ModuleNext
<1>1. CASE Deliver(n, HaltCommand)
  BY <1>1 DEF ModuleNext, Steps, CommandArrives
<1>2. CASE /\ Head(air[n]).cmd = "MEAS"
           /\ Deliver(n, MeasCommand(Head(air[n]).addr, Head(air[n]).nb))
  <2>1. /\ Head(air[n]).addr \in Addr
        /\ Head(air[n]).nb = Counts[Head(air[n]).addr]
    BY <1>2, AirHead, WholeAirTail DEF WholeAir, AllActivated
  <2> QED BY <1>2, <2>1 DEF ModuleNext, Steps, CommandArrives
<1> QED BY <1>1, <1>2 DEF HandsOver

LEMMA ModuleInvStep ==
  ASSUME AllActivated, TypeOK, WholeAir, ModuleInv, [Next]_vars
  PROVE  ModuleInv'
<1>1. ModuleTypeOK /\ AirType
  BY RoundParts
<1>2. [ModuleNext]_moduleVars
  BY <1>1, ModuleSteps, HandedIsNext
<1> QED BY <1>1, <1>2, WholeStep, InStepStep, ResultsStep DEF ModuleInv

(* The result at the head of a queue is true when no transfer failed.       *)
LEMMA HeadTrue ==
  ASSUME ModuleTypeOK, ResultsMatch, glitches = 0, NEW n \in Node, up[n] # << >>,
         Head(up[n]).cmd = "MEAS"
  PROVE  Head(up[n]).data = << Head(up[n]).addr, Head(up[n]).reg >>
<1>1. up[n] \in Seq(Uplink) /\ TrueResults(up[n])
  BY DEF ModuleTypeOK, ResultsMatch
<1>2. 1 \in DOMAIN up[n] /\ Head(up[n]) = up[n][1]
  BY <1>1
<1> QED BY <1>1, <1>2 DEF TrueResults

(* The gateway's index into the board's list is the register's number.      *)
LEMMA StoredRight ==
  ASSUME InOrder, GatewayTypeOK, NEW n \in Node, NEW a \in Addr, NEW r \in Nat,
         Accepted(n, a, r, TRUE)
  PROVE  Right(Labelled(n, a, r, << a, r >>))
<1> DEFINE board == cfg.boards[n][a]
<1>1. cfg \in Configs /\ board \in Seq(Sensor) /\ Len(board) \in Nat
  BY TablesOfModule DEF GatewayTypeOK
<1>2. r < Len(board)
  BY DEF Accepted, Size
<1>3. r + 1 \in DOMAIN board /\ board # << >>
  BY <1>1, <1>2
<1>4. board[r + 1].addr = a /\ board[r + 1].reg = (r + 1) - 1
  BY <1>1, <1>3 DEF InOrder
<1> QED BY <1>4 DEF Labelled, Right

LEMMA LabelsStep ==
  ASSUME InOrder, TypeOK, glitches = 0, ModuleInv, LabelsRight, [Next]_vars
  PROVE  LabelsRight'
<1>0. GatewayTypeOK /\ ModuleTypeOK /\ values \in Seq(Value)
  BY RoundParts DEF GatewayTypeOK
<1>1. CASE values' = values
  BY <1>1 DEF LabelsRight
<1>2. CASE values' = << >>
  BY <1>2 DEF LabelsRight
<1>3. ASSUME NEW n \in Node, GatewayReceives(n)
      PROVE  LabelsRight'
  <2> DEFINE frame == Head(up[n])
  <2>1. CASE RecvInit(n) \/ RecvHalt(n)
    BY <1>1, <1>2, <2>1 DEF RecvInit, RecvHalt
  <2>2. CASE /\ frame.cmd = "MEAS"
             /\ RecvMeas(n, frame.addr, frame.reg, TRUE, frame.data)
    <3>1. /\ frame.addr \in Addr /\ frame.reg \in Nat
          /\ frame.data = << frame.addr, frame.reg >>
      BY <1>0, <1>3, <2>2, FrameTaken, HeadTrue DEF GatewayReceives, ModuleInv
    <3> DEFINE v == Labelled(n, frame.addr, frame.reg, frame.data)
    <3>2. CASE Accepted(n, frame.addr, frame.reg, TRUE)
      <4>1. Right(v)
        BY <1>0, <3>1, <3>2, StoredRight
      <4>2. values' = Append(values, v)
        BY <2>2, <3>2 DEF RecvMeas
      <4> HIDE DEF v
      <4> QED BY <1>0, <4>1, <4>2 DEF LabelsRight, Right
    <3>3. CASE ~Accepted(n, frame.addr, frame.reg, TRUE)
      BY <1>1, <2>2, <3>3 DEF RecvMeas
    <3> QED BY <3>2, <3>3
  <2> QED BY <1>3, <2>1, <2>2 DEF GatewayReceives
<1>4. CASE GatewayWakes
  BY <1>1, <1>4 DEF GatewayWakes, WakeUp, WakeUpModule, WakeUpNobody
<1>5. CASE GatewayRestarts
  BY <1>2, <1>5 DEF GatewayRestarts, Restart
<1>6. CASE UNCHANGED vars
  BY <1>1, <1>6 DEF vars, gatewayVars
<1>7. ASSUME NEW n \in Node,
             RadioDelivers(n) \/ RadioLoses(n) \/ ModuleRuns(n) \/ RadioReports(n)
             \/ ModuleDrained(n) \/ ModuleSeesNoStatus(n) \/ ModuleTimesOut(n)
      PROVE  LabelsRight'
  BY <1>1, <1>7 DEF RadioDelivers, RadioLoses, ModuleRuns, RadioReports, ModuleDrained,
                    ModuleSeesNoStatus, ModuleTimesOut, Module, gatewayVars
<1> QED BY <1>3, <1>4, <1>5, <1>6, <1>7 DEF Next

(* No sensor's value is ever stored under another sensor's name, for any    *)
(* number of modules and boards, whatever frames are lost, however the      *)
(* timers run and whenever the gateway is restarted, when every register of *)
(* every board is activated in order and no I2C transfer fails: the index   *)
(* of the gateway, the loop of the firmware and the counter of the board    *)
(* agree, though nothing synchronises them (next_measure and store_measure, *)
(* wait_for_command, sensor_meas).                                          *)
THEOREM LabelsAreRight ==
  ASSUME WideTypes, InOrder, AllActivated, MaxGlitches = 0
  PROVE  Spec => []LabelsRight
<1> DEFINE Inv == TypeOK /\ WholeAir /\ ModuleInv /\ LabelsRight
<1>1. Init => Inv
  <2> SUFFICES ASSUME Init PROVE WholeAir /\ ModuleInv /\ LabelsRight
    BY RoundInitType
  <2>1. WholeAir /\ LabelsRight
    BY DEF Init, GatewayInit, WholeAir, Whole, LabelsRight
  <2>2. ModuleInv
    BY InitInStep DEF Init, ModuleInv
  <2> QED BY <2>1, <2>2
<1>2. Inv /\ [Next]_vars => Inv'
  <2> SUFFICES ASSUME Inv, [Next]_vars PROVE Inv'
    OBVIOUS
  <2>1. TypeOK'
    BY RoundNextType
  <2>2. WholeAir'
    BY <2>1, WholeAirStep
  <2>3. ModuleInv'
    BY ModuleInvStep
  <2>4. glitches = 0
    BY DEF TypeOK, ModuleTypeOK
  <2>5. LabelsRight'
    BY <2>4, LabelsStep
  <2> QED BY <2>1, <2>2, <2>3, <2>5
<1>3. Inv => LabelsRight
  OBVIOUS
<1> QED BY <1>1, <1>2, <1>3, PTL DEF Spec
=============================================================================
