--------------------------- MODULE PollingProofs ---------------------------
(***************************************************************************)
(* The gateway implements Polling, for every set of modules and boards,    *)
(* every contiguous and spaced configuration and every stream of frames.   *)
(* The mapping is that of P in Gateway; FreshInv of GatewayProofs is the   *)
(* invariant the steps are mapped under.                                   *)
(***************************************************************************)
EXTENDS GatewayProofs

(* The boards of a pass that are still to be asked.                         *)
Todo == [n \in Node |-> BoardsOf(cfg, n) \ asked[n]]

(* A step that sends no request is silent.                                  *)
LEMMA NoRequest ==
  ASSUME NEW l, NEW frames,
         frames \in {<< >>, << D0Frame(l, "LOW") >>,
                     << D0Frame(l, "HIGH"), D0Frame(l, "LOW"), D0Frame(l, "HIGH") >>}
  PROVE  AsksIn(frames) = {} /\ HaltsIn(frames) = {}
<1>1. \A i \in DOMAIN frames : frames[i].cmd = "D0"
  BY DEF D0Frame
<1>2. {j \in DOMAIN frames : frames[j].cmd = "MEAS"} = {}
  BY <1>1
<1>3. {j \in DOMAIN frames : frames[j].cmd = "HALT"} = {}
  BY <1>1
<1> QED BY <1>2, <1>3 DEF AsksIn, HaltsIn

LEMMA OneHalt ==
  ASSUME NEW n, NEW frames, frames = << HaltFrame(n) >>
  PROVE  AsksIn(frames) = {} /\ HaltsIn(frames) = {n}
<1>1. DOMAIN frames = {1} /\ frames[1].cmd = "HALT" /\ frames[1].to = n
  BY DEF HaltFrame
<1>2. /\ {j \in DOMAIN frames : frames[j].cmd = "MEAS"} = {}
      /\ {j \in DOMAIN frames : frames[j].cmd = "HALT"} = {1}
  BY <1>1
<1> QED BY <1>1, <1>2 DEF AsksIn, HaltsIn

LEMMA OneAsk ==
  ASSUME NEW n, NEW a, NEW k, NEW frames, frames = << MeasFrame(n, a, k) >>
  PROVE  AsksIn(frames) = {<< n, a >>} /\ HaltsIn(frames) = {}
<1>1. /\ DOMAIN frames = {1} /\ frames[1].cmd = "MEAS"
      /\ frames[1].to = n /\ frames[1].addr = a
  BY DEF MeasFrame
<1>2. /\ {j \in DOMAIN frames : frames[j].cmd = "MEAS"} = {1}
      /\ {j \in DOMAIN frames : frames[j].cmd = "HALT"} = {}
  BY <1>1
<1> QED BY <1>1, <1>2 DEF AsksIn, HaltsIn

(* The pass of one module moves, the others stay.                           *)
LEMMA TodoMoves ==
  ASSUME GatewayTypeOK, cfg' = cfg, NEW n \in Node, NEW A,
         asked' = [asked EXCEPT ![n] = A]
  PROVE  Todo' = [Todo EXCEPT ![n] = BoardsOf(cfg, n) \ A]
<1>1. /\ asked'[n] = A
      /\ \A m \in Node : m # n => asked'[m] = asked[m]
  BY DEF GatewayTypeOK
<1>2. Todo' = [m \in Node |-> BoardsOf(cfg, m) \ asked'[m]]
  BY DEF Todo, BoardsOf
<1> QED BY <1>1, <1>2 DEF Todo

LEMMA TodoStays ==
  ASSUME UNCHANGED << cfg, asked >>
  PROVE  Todo' = Todo
BY DEF Todo, BoardsOf

LEMMA LayoutStays ==
  ASSUME cfg' = cfg
  PROVE  LayoutOf(cfg)' = LayoutOf(cfg)
BY DEF LayoutOf, BoardsOf

-----------------------------------------------------------------------------
(* One answer of Polling, said with the variables of the gateway.           *)
Waits == AsksIn(sent') = {} /\ HaltsIn(sent') = {} /\ Todo' = Todo
AsksBoard(n) ==
  \E a \in Todo[n] :
    /\ AsksIn(sent') = {<< n, a >>} /\ HaltsIn(sent') = {}
    /\ Todo' = [Todo EXCEPT ![n] = @ \ {a}]
HaltsModule(n) ==
  /\ Todo[n] = {} /\ Todo' = [Todo EXCEPT ![n] = LayoutOf(cfg)[n]]
  /\ AsksIn(sent') = {} /\ HaltsIn(sent') = {n}

LEMMA HaltMaps ==
  ASSUME GatewayTypeOK, cfg' = cfg, NEW n \in Node, NEW i, NEW s, Halt(n, i, s),
         \A m \in Node : Sends(HaltFrame(m)) => BoardsOf(cfg, m) \subseteq asked[m]
  PROVE  HaltsModule(n)
<1>1. sent' = << HaltFrame(n) >> /\ asked' = [asked EXCEPT ![n] = {}]
  BY DEF Halt
<1>2. Sends(HaltFrame(n))
  BY <1>1 DEF Sends
<1>3. Todo[n] = {}
  BY <1>2 DEF Todo
<1>4. Todo' = [Todo EXCEPT ![n] = LayoutOf(cfg)[n]]
  <2>1. Todo' = [Todo EXCEPT ![n] = BoardsOf(cfg, n) \ {}]
    BY <1>1, TodoMoves
  <2>2. BoardsOf(cfg, n) \ {} = LayoutOf(cfg)[n]
    BY DEF LayoutOf
  <2> QED BY <2>1, <2>2
<1> QED BY <1>1, <1>3, <1>4, OneHalt DEF HaltsModule

LEMMA AskMaps ==
  ASSUME GatewayTypeOK, cfg' = cfg, FreshSends, NEW n \in Node,
         NEW p \in DOMAIN cfg.ordered[n], NEW i, NEW s, Ask(n, p, i, s)
  PROVE  AsksBoard(n)
<1> DEFINE a == Board(n, p)
           A == asked[n] \cup {a}
<1>1. /\ sent' = << MeasFrame(n, a, Size(n, a)) >>
      /\ asked' = [asked EXCEPT ![n] = A]
  BY DEF Ask
<1>2. a \in Addr /\ a \in BoardsOf(cfg, n)
  BY TablesOfModule DEF GatewayTypeOK, Board, BoardsOf
<1>3. Sends(MeasFrame(n, a, Size(n, a)))
  BY <1>1 DEF Sends
<1>4. a \notin asked[n]
  BY <1>2, <1>3 DEF FreshSends
<1>5. a \in Todo[n]
  BY <1>2, <1>4 DEF Todo
<1>6. Todo' = [Todo EXCEPT ![n] = Todo[n] \ {a}]
  <2>1. Todo' = [Todo EXCEPT ![n] = BoardsOf(cfg, n) \ A]
    <3> HIDE DEF A
    <3> QED BY <1>1, TodoMoves
  <2>2. BoardsOf(cfg, n) \ A = Todo[n] \ {a}
    BY DEF Todo
  <2> QED BY <2>1, <2>2
<1>7. AsksIn(sent') = {<< n, a >>} /\ HaltsIn(sent') = {}
  BY <1>1, OneAsk
<1> QED BY <1>5, <1>6, <1>7 DEF AsksBoard

(* Each way out of next_measure is an answer of Polling; the read through   *)
(* an iterator that was never set is its end.                               *)
LEMMA NextMeasureMaps ==
  ASSUME AllContiguous, AllSpaced, FreshInv, cfg' = cfg, NEW n \in Node,
         GetNextMeasure(n)
  PROVE  \/ proc' = proc /\ (Waits \/ AsksBoard(n) \/ HaltsModule(n))
         \/ proc' = "crashed" /\ Waits
<1>0. GatewayTypeOK /\ IteratorsCover /\ NothingAskedAhead
  BY DEF FreshInv, CoverInv
<1>1. FreshSends
  BY <1>0, FreshNextMeasure
<1>2. \A m \in Node : Sends(HaltFrame(m)) => BoardsOf(cfg, m) \subseteq asked[m]
  BY <1>0, CoverNextMeasure
<1>3. ASSUME NEW p \in Nat, p <= End(n), p # End(n), p # Null
      PROVE  p \in DOMAIN cfg.ordered[n]
  BY <1>0, <1>3, Positions DEF GatewayTypeOK
<1>4. iter[n].it \in Nat /\ iter[n].it <= End(n)
  BY <1>0 DEF GatewayTypeOK
<1>5. CASE NullIterator(n)
  BY <1>5, NoRequest, TodoStays DEF NullIterator, Waits
<1>6. CASE HaltAtEnd(n) /\ proc' = proc
  BY <1>0, <1>2, <1>6, HaltMaps DEF HaltAtEnd
<1>7. CASE AskSingle(n) /\ proc' = proc
  <2>1. iter[n].it \in DOMAIN cfg.ordered[n]
    BY <1>3, <1>4, <1>7 DEF AskSingle, AtSensor
  <2> QED BY <1>0, <1>1, <1>7, <2>1, AskMaps DEF AskSingle
<1>8. CASE AskSeveral(n) /\ proc' = proc
  <2>1. iter[n].it \in DOMAIN cfg.ordered[n]
    BY <1>3, <1>4, <1>8 DEF AskSeveral, Several, AtSensor
  <2> QED BY <1>0, <1>1, <1>8, <2>1, AskMaps DEF AskSeveral
<1>9. CASE SkipMeasure(n) /\ proc' = proc
  BY <1>9, NoRequest, TodoStays DEF SkipMeasure, Waits
<1>10. CASE LastSkip(n) /\ proc' = proc
  <2> DEFINE p == iter[n].it + 1
  <2>1. CASE Halt(n, 0, 0)
    BY <1>0, <1>2, <1>10, <2>1, HaltMaps
  <2>2. CASE p # End(n) /\ Ask(n, p, 0, 0)
    <3>1. iter[n].it + 1 <= End(n)
      BY <1>0, <1>4, <1>10, Positions DEF LastSkip, Several, AtSensor, GatewayTypeOK
    <3>2. p \in DOMAIN cfg.ordered[n]
      BY <1>3, <1>4, <2>2, <3>1 DEF Null
    <3> HIDE DEF p
    <3> QED BY <1>0, <1>1, <1>10, <2>2, <3>2, AskMaps
  <2> QED BY <1>10, <2>1, <2>2 DEF LastSkip
<1> QED BY <1>5, <1>6, <1>7, <1>8, <1>9, <1>10 DEF GetNextMeasure, NextMeasure

-----------------------------------------------------------------------------
LEMMA PollingInit == GatewayInit => P!Init
<1> SUFFICES ASSUME GatewayInit PROVE P!Init
  OBVIOUS
<1>1. AsksIn(sent) = {} /\ HaltsIn(sent) = {}
  BY NoRequest DEF GatewayInit
<1>2. (proc \in {"starting", "polling"}) \in BOOLEAN
  OBVIOUS
<1>3. LayoutOf(cfg) \in {LayoutOf(c) : c \in Configs}
  BY DEF GatewayInit
<1>4. [n \in Node |-> BoardsOf(cfg, n) \ asked[n]] = LayoutOf(cfg)
  BY DEF GatewayInit, LayoutOf
<1> QED BY <1>1, <1>2, <1>3, <1>4 DEF P!Init, GatewayInit

LEMMA PollingNext ==
  ASSUME AllContiguous, AllSpaced, FreshInv, [GatewayNext]_gatewayVars
  PROVE  [P!Next]_(P!pollingVars)
<1> DEFINE Up == proc \in {"starting", "polling"}
<1>0. GatewayTypeOK
  BY DEF FreshInv, CoverInv
<1>00. Up \in BOOLEAN /\ Up' \in BOOLEAN
  OBVIOUS
<1>1. CASE Restart
  <2>1. AsksIn(sent') = {} /\ HaltsIn(sent') = {}
    BY <1>1, NoRequest DEF Restart
  <2>2. LayoutOf(cfg)' \in {LayoutOf(c) : c \in Configs}
    BY <1>1 DEF Restart, LayoutOf, BoardsOf
  <2>3. Todo' = LayoutOf(cfg)'
    BY <1>1 DEF Restart, LayoutOf, Todo, BoardsOf
  <2>4. values' = << >> /\ pushed' = << >>
    BY <1>1 DEF Restart
  <2>5. P!Restart
    BY <1>00, <2>1, <2>2, <2>3, <2>4 DEF P!Restart, P!Silent, Todo
  <2> QED BY <2>5 DEF P!Next
<1>2. CASE BeginFails \/ WakeUpNobody
  <2>1. /\ Up /\ ~Up' /\ UNCHANGED << cfg, values, asked >>
        /\ sent' = << >> /\ pushed' = << >>
    BY <1>2 DEF BeginFails, WakeUpNobody
  <2>2. AsksIn(sent') = {} /\ HaltsIn(sent') = {} /\ Todo' = Todo
        /\ LayoutOf(cfg)' = LayoutOf(cfg)
    BY <2>1, NoRequest, TodoStays, LayoutStays
  <2>3. P!Stop
    BY <2>1, <2>2 DEF P!Stop, P!MayStore, P!Silent, Todo
  <2> QED BY <2>3 DEF P!Next
<1>3. ASSUME NEW n \in Node, WakeUpModule(n) PROVE P!Next
  <2>1. /\ Up /\ Up' /\ UNCHANGED << cfg, values >> /\ pushed' = << >>
        /\ asked' = [asked EXCEPT ![n] = {}]
    BY <1>3 DEF WakeUpModule
  <2>2. AsksIn(sent') = {} /\ HaltsIn(sent') = {}
    BY <1>3, NoRequest DEF WakeUpModule
  <2>3. Todo' = [Todo EXCEPT ![n] = LayoutOf(cfg)[n]]
    <3>1. Todo' = [Todo EXCEPT ![n] = BoardsOf(cfg, n) \ {}]
      BY <1>0, <2>1, TodoMoves
    <3> QED BY <3>1 DEF LayoutOf
  <2>4. LayoutOf(cfg)' = LayoutOf(cfg)
    BY <2>1, LayoutStays
  <2>5. P!Wake(n)
    BY <2>1, <2>2, <2>3, <2>4 DEF P!Wake, P!Silent, Todo
  <2> QED BY <2>5 DEF P!Next
<1>4. ASSUME NEW n \in Node, proc = "polling", cfg' = cfg, pushed' = << >>,
             values' = values \/ \E v \in Value : values' = Append(values, v),
             GetNextMeasure(n)
      PROVE  P!Next
  <2>1. LayoutOf(cfg)' = LayoutOf(cfg)
    BY <1>4, LayoutStays
  <2>2. P!MayStore
    BY <1>4 DEF P!MayStore
  <2>3. CASE proc' = proc /\ (Waits \/ AsksBoard(n) \/ HaltsModule(n))
    <3>1. Up /\ Up'
      BY <1>4, <2>3
    <3>2. P!Wait \/ \E m \in Node : P!AskBoard(m) \/ P!HaltModule(m)
      BY <2>3 DEF Waits, AsksBoard, HaltsModule, P!Wait, P!AskBoard, P!HaltModule,
                  P!Silent, Todo
    <3>3. P!AnswerFrame
      BY <1>4, <2>1, <2>2, <3>1, <3>2 DEF P!AnswerFrame
    <3> QED BY <3>3 DEF P!Next
  <2>4. CASE proc' = "crashed" /\ Waits
    <3>1. Up /\ ~Up'
      BY <1>4, <2>4
    <3>2. P!Stop
      BY <1>4, <2>1, <2>2, <2>4, <3>1 DEF P!Stop, P!Silent, Waits, Todo
    <3> QED BY <3>2 DEF P!Next
  <2> QED BY <1>4, <2>3, <2>4, NextMeasureMaps
<1>5. ASSUME proc = "polling",
             UNCHANGED << proc, cfg, values, asked >>, sent' = << >>, pushed' = << >>
      PROVE  P!Next
  <2>1. /\ AsksIn(sent') = {} /\ HaltsIn(sent') = {} /\ Todo' = Todo
        /\ LayoutOf(cfg)' = LayoutOf(cfg)
    BY <1>5, NoRequest, TodoStays, LayoutStays
  <2>2. Up /\ Up'
    BY <1>5
  <2>3. P!AnswerFrame
    BY <1>5, <2>1, <2>2 DEF P!AnswerFrame, P!Wait, P!MayStore, P!Silent, Todo
  <2> QED BY <2>3 DEF P!Next
<1>6. ASSUME NEW n \in Node, RecvInit(n) PROVE P!Next
  BY <1>4, <1>5, <1>6 DEF RecvInit
<1>7. ASSUME NEW n \in Node, NEW a \in Addr, NEW r \in Reg,
             NEW printable \in BOOLEAN, NEW d \in Data,
             RecvMeas(n, a, r, printable, d)
      PROVE  P!Next
  <2>1. values' = values \/ \E v \in Value : values' = Append(values, v)
    BY <1>0, <1>7, StoredType DEF RecvMeas
  <2> QED BY <1>4, <1>7, <2>1 DEF RecvMeas
<1>8. ASSUME NEW n \in Node, RecvHalt(n) PROVE P!Next
  <2>1. AsksIn(sent') = {} /\ HaltsIn(sent') = {} /\ Todo' = Todo
        /\ LayoutOf(cfg)' = LayoutOf(cfg)
    BY <1>8, NoRequest, TodoStays, LayoutStays DEF RecvHalt
  <2>2. Up /\ Up'
    BY <1>8 DEF RecvHalt
  <2>3. P!Push(n)
    BY <1>8, <2>1, <2>2 DEF RecvHalt, P!Push, P!Silent, Todo
  <2> QED BY <2>3 DEF P!Next
<1>9. CASE RecvOther
  BY <1>5, <1>9 DEF RecvOther
<1>10. CASE UNCHANGED gatewayVars
  BY <1>10 DEF gatewayVars, P!pollingVars, LayoutOf, BoardsOf, AsksIn, HaltsIn
<1> QED BY <1>1, <1>2, <1>3, <1>6, <1>7, <1>8, <1>9, <1>10 DEF GatewayNext, WakeUp

(* Whatever frames come in, whenever the process stops and starts, the      *)
(* gateway asks each board of a module once per pass, halts the module when *)
(* none is left and pushes exactly what it stored, for every contiguous and *)
(* spaced configuration (next_measure, store_measure, push_data, run).      *)
THEOREM GatewayKeepsPolling ==
  ASSUME AllContiguous, AllSpaced
  PROVE  GatewaySpec => KeepsPolling
<1>1. GatewayInit => FreshInv
  BY GatewayInitType, CoverInit
     DEF FreshInv, CoverInv, GatewayInit, NothingAskedAhead, NotAhead
<1>2. FreshInv /\ [GatewayNext]_gatewayVars => FreshInv'
  BY FreshNext
<1>3. GatewayInit => P!Init
  BY PollingInit
<1>4. FreshInv /\ [GatewayNext]_gatewayVars => [P!Next]_(P!pollingVars)
  BY PollingNext
<1> QED BY <1>1, <1>2, <1>3, <1>4, PTL DEF GatewaySpec, KeepsPolling, P!Spec

(* The iterator never asked a board ahead of its place, under the same      *)
(* assumptions: what a pass asked is what lies behind it.                   *)
THEOREM AsksNothingAhead ==
  ASSUME AllContiguous, AllSpaced
  PROVE  GatewaySpec => []NothingAskedAhead
<1>1. GatewayInit => FreshInv
  BY GatewayInitType, CoverInit
     DEF FreshInv, CoverInv, GatewayInit, NothingAskedAhead, NotAhead
<1>2. FreshInv /\ [GatewayNext]_gatewayVars => FreshInv'
  BY FreshNext
<1>3. FreshInv => NothingAskedAhead
  BY DEF FreshInv
<1> QED BY <1>1, <1>2, <1>3, PTL DEF GatewaySpec
=============================================================================
