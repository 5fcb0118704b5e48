--------------------------- MODULE GatewayProofs ---------------------------
(***************************************************************************)
(* What TLAPS proves of the gateway, for every set of modules and boards,  *)
(* every configuration and every stream of frames.                         *)
(***************************************************************************)
EXTENDS Gateway, SequenceTheorems, TLAPS

(* What ConfigsAssumption says of the tables of one module: the vector is a *)
(* sequence of sensors, and the board of each of them has a nonempty list.  *)
LEMMA TablesOfModule ==
  ASSUME NEW c \in Configs, NEW n \in Node
  PROVE  /\ c.ordered[n] \in Seq(Sensor)
         /\ Len(c.ordered[n]) \in Nat
         /\ DOMAIN c.ordered[n] = 1 .. Len(c.ordered[n])
         /\ c.ordered[n] = << >> <=> Len(c.ordered[n]) = 0
         /\ \A i \in DOMAIN c.ordered[n] :
              /\ c.ordered[n][i] \in Sensor
              /\ c.ordered[n][i].addr \in Addr
              /\ Len(c.boards[n][c.ordered[n][i].addr]) > 0
         /\ \A a \in Addr : /\ c.boards[n][a] \in Seq(Sensor)
                            /\ Len(c.boards[n][a]) \in Nat
<1>1. c \in Config
  BY ConfigsAssumption
<1>2. c.ordered[n] \in Seq(Sensor) /\ c.boards[n] \in [Addr -> Seq(Sensor)]
  BY <1>1 DEF Config
<1>3. \A a \in Addr : c.boards[n][a] \in Seq(Sensor) /\ Len(c.boards[n][a]) \in Nat
  BY <1>2
<1>4. ASSUME NEW i \in DOMAIN c.ordered[n]
      PROVE  /\ c.ordered[n][i] \in Sensor
             /\ c.ordered[n][i].addr \in Addr
             /\ Len(c.boards[n][c.ordered[n][i].addr]) > 0
  <2>1. c.ordered[n][i] \in Sensor
    BY <1>2
  <2>2. c.ordered[n][i].addr \in Addr
    BY <2>1 DEF Sensor
  <2>3. c.boards[n][c.ordered[n][i].addr] # << >>
    BY ConfigsAssumption
  <2> QED BY <1>3, <2>1, <2>2, <2>3
<1>5. /\ Len(c.ordered[n]) \in Nat
      /\ DOMAIN c.ordered[n] = 1 .. Len(c.ordered[n])
      /\ c.ordered[n] = << >> <=> Len(c.ordered[n]) = 0
  BY <1>2
<1> QED BY <1>2, <1>3, <1>4, <1>5

(* The two ends of a module's vector, and the board at a position.          *)
LEMMA Positions ==
  ASSUME cfg \in Configs, NEW n \in Node
  PROVE  /\ Begin(n) \in Nat /\ End(n) \in Nat
         /\ Begin(n) <= End(n)
         /\ Begin(n) = Null <=> End(n) = Null
         /\ End(n) = Null <=> cfg.ordered[n] = << >>
         /\ \A p \in Nat : p <= End(n) /\ p # End(n) /\ p # Null =>
              /\ p \in DOMAIN cfg.ordered[n]
              /\ p + 1 <= End(n)
              /\ Board(n, p) \in Addr
              /\ Size(n, Board(n, p)) \in Nat \ {0}
<1> DEFINE v == cfg.ordered[n]
<1>1. /\ Len(v) \in Nat
      /\ DOMAIN v = 1 .. Len(v)
      /\ v = << >> <=> Len(v) = 0
      /\ \A i \in DOMAIN v : v[i].addr \in Addr /\ Len(cfg.boards[n][v[i].addr]) > 0
      /\ \A a \in Addr : Len(cfg.boards[n][a]) \in Nat
  BY TablesOfModule
<1>2. /\ Begin(n) = IF Len(v) = 0 THEN 0 ELSE 1
      /\ End(n) = IF Len(v) = 0 THEN 0 ELSE Len(v) + 1
  BY <1>1 DEF Begin, End, Null
<1>3. \A i \in DOMAIN v : Board(n, i) \in Addr /\ Size(n, Board(n, i)) \in Nat \ {0}
  BY <1>1 DEF Board, Size
<1> HIDE DEF v
<1>4. \A p \in Nat : p <= End(n) /\ p # End(n) /\ p # Null =>
        p \in DOMAIN v /\ p + 1 <= End(n)
  BY <1>1, <1>2 DEF Null
<1>5. /\ Begin(n) \in Nat /\ End(n) \in Nat /\ Begin(n) <= End(n)
      /\ Begin(n) = Null <=> End(n) = Null
      /\ End(n) = Null <=> v = << >>
  BY <1>1, <1>2 DEF Null
<1> QED BY <1>3, <1>4, <1>5 DEF v

-----------------------------------------------------------------------------
LEMMA GatewayInitType == GatewayInit => GatewayTypeOK
<1> SUFFICES ASSUME GatewayInit PROVE GatewayTypeOK
  OBVIOUS
<1>1. cfg \in Configs /\ proc \in {"starting", "aborted"}
  BY DEF GatewayInit, LoadOutcomes
<1>2. /\ known \in SUBSET Node /\ ModulesOf(cfg) \subseteq known
      /\ rest \in SUBSET known
  BY DEF GatewayInit, ModulesOf
<1>3. /\ iter \in [Node -> [it : Nat, idx : Nat, stop : Nat]]
      /\ \A n \in Node : iter[n].it <= End(n) /\ iter[n].idx <= iter[n].stop
  BY <1>1, Positions DEF GatewayInit, Iterator, Null
<1>4. /\ values \in Seq(Value) /\ Len(values) <= MaxValues
      /\ sent \in Seq(Commands)
      /\ pushed \in Seq([to : Node, values : Seq(Value)])
      /\ asked \in [Node -> SUBSET Addr]
  BY MaxValuesAssumption DEF GatewayInit
<1> QED BY <1>1, <1>2, <1>3, <1>4 DEF GatewayTypeOK

(* Moving the iterator of one module keeps the type of iter.                *)
LEMMA MoveType ==
  ASSUME GatewayTypeOK, cfg' = cfg, NEW n \in Node,
         NEW p \in Nat, NEW i \in Nat, NEW s \in Nat,
         p <= End(n), i <= s,
         iter' = [iter EXCEPT ![n] = Iterator(p, i, s)]
  PROVE  /\ iter' \in [Node -> [it : Nat, idx : Nat, stop : Nat]]
         /\ \A m \in Node : iter'[m].it <= End(m)' /\ iter'[m].idx <= iter'[m].stop
         /\ iter'[n] = [it |-> p, idx |-> i, stop |-> s]
         /\ \A m \in Node : m # n => iter'[m] = iter[m]
BY DEF GatewayTypeOK, Iterator, End, Null

(* What next_measure touches stays well typed, on each of its ways out.     *)
NextMeasureType ==
  /\ proc' \in {"polling", "crashed"}
  /\ iter' \in [Node -> [it : Nat, idx : Nat, stop : Nat]]
  /\ \A n \in Node : iter'[n].it <= End(n)' /\ iter'[n].idx <= iter'[n].stop
  /\ sent' \in Seq(Commands)
  /\ asked' \in [Node -> SUBSET Addr]

LEMMA HaltType ==
  ASSUME GatewayTypeOK, cfg' = cfg, proc = "polling", proc' = proc, NEW n \in Node,
         NEW i \in Nat, NEW s \in Nat, i <= s, Halt(n, i, s)
  PROVE  NextMeasureType
<1>1. Begin(n) \in Nat /\ Begin(n) <= End(n)
  BY Positions DEF GatewayTypeOK
<1>2. iter' = [iter EXCEPT ![n] = Iterator(Begin(n), i, s)]
  BY DEF Halt
<1>3. sent' \in Seq(Commands)
  BY DEF Halt, HaltFrame, Commands
<1>4. asked' \in [Node -> SUBSET Addr]
  BY DEF Halt, GatewayTypeOK
<1> HIDE DEF Begin, End
<1> QED BY <1>1, <1>2, <1>3, <1>4, MoveType DEF NextMeasureType

LEMMA AskType ==
  ASSUME GatewayTypeOK, cfg' = cfg, proc = "polling", proc' = proc, NEW n \in Node,
         NEW p \in Nat, p <= End(n), p # End(n), p # Null,
         NEW i \in Nat, NEW s \in Nat, i <= s, Ask(n, p, i, s)
  PROVE  NextMeasureType
<1> DEFINE a == Board(n, p)
           q == IF Size(n, a) = 1 THEN p + 1 ELSE p
<1>1. a \in Addr /\ Size(n, a) \in Nat /\ q \in Nat /\ q <= End(n)
  BY Positions DEF GatewayTypeOK
<1>2. iter' = [iter EXCEPT ![n] = Iterator(q, i, s)]
  BY DEF Ask
<1>3. sent' \in Seq(Commands)
  BY <1>1 DEF Ask, MeasFrame, Commands
<1>4. asked' \in [Node -> SUBSET Addr]
  BY <1>1 DEF Ask, GatewayTypeOK
<1> HIDE DEF q
<1> QED BY <1>1, <1>2, <1>3, <1>4, MoveType DEF NextMeasureType

LEMMA GetNextMeasureType ==
  ASSUME GatewayTypeOK, cfg' = cfg, proc = "polling", NEW n \in Node, GetNextMeasure(n)
  PROVE  NextMeasureType
<1> DEFINE p == iter[n].it
           i == iter[n].idx
           s == iter[n].stop
<1>1. p \in Nat /\ i \in Nat /\ s \in Nat /\ p <= End(n) /\ i <= s /\ Null \in Nat
  BY DEF GatewayTypeOK, Null
<1>2. CASE NullIterator(n)
  BY <1>2 DEF NullIterator, NextMeasureType, GatewayTypeOK, End, Null
<1>3. CASE HaltAtEnd(n) /\ proc' = proc
  BY <1>1, <1>3, HaltType DEF HaltAtEnd
<1>4. CASE AskSingle(n) /\ proc' = proc
  BY <1>1, <1>4, AskType DEF AskSingle, AtSensor
<1>5. CASE AskSeveral(n) /\ proc' = proc
  <2>1. Size(n, Board(n, p)) - 1 \in Nat
    BY <1>1, <1>5, Positions DEF AskSeveral, Several, AtSensor, GatewayTypeOK
  <2> QED BY <1>1, <1>5, <2>1, AskType DEF AskSeveral, Several, AtSensor
<1>6. CASE SkipMeasure(n) /\ proc' = proc
  <2>1. iter' = [iter EXCEPT ![n] = Iterator(p + 1, i + 1, s)]
    BY <1>6 DEF SkipMeasure
  <2>2. p + 1 \in Nat /\ i + 1 \in Nat /\ p + 1 <= End(n) /\ i + 1 <= s
    BY <1>1, <1>6, Positions DEF SkipMeasure, Several, AtSensor, GatewayTypeOK
  <2>3. sent' \in Seq(Commands) /\ asked' \in [Node -> SUBSET Addr]
    BY <1>6 DEF SkipMeasure, GatewayTypeOK
  <2> HIDE DEF p, i, s
  <2> QED BY <1>1, <1>6, <2>1, <2>2, <2>3, MoveType DEF NextMeasureType
<1>7. CASE LastSkip(n) /\ proc' = proc
  <2>1. p + 1 \in Nat /\ p + 1 # Null /\ p + 1 <= End(n)
    BY <1>1, <1>7, Positions DEF LastSkip, Several, AtSensor, GatewayTypeOK, Null
  <2> QED BY <1>7, <2>1, HaltType, AskType DEF LastSkip
<1> QED BY <1>2, <1>3, <1>4, <1>5, <1>6, <1>7 DEF GetNextMeasure, NextMeasure

LEMMA StoredType ==
  ASSUME GatewayTypeOK, NEW n \in Node, NEW a \in Addr, NEW r \in Reg,
         NEW d \in Data, NEW printable \in BOOLEAN, Accepted(n, a, r, printable)
  PROVE  Labelled(n, a, r, d) \in Value
<1>1. cfg.boards[n][a] \in Seq(Sensor) /\ r \in Nat
  BY TablesOfModule, RegAssumption DEF GatewayTypeOK
<1>2. cfg.boards[n][a][r + 1] \in Sensor
  BY <1>1 DEF Accepted, Size
<1> QED BY <1>2 DEF Labelled, Value

LEMMA GatewayNextType == GatewayTypeOK /\ [GatewayNext]_gatewayVars => GatewayTypeOK'
<1> SUFFICES ASSUME GatewayTypeOK, [GatewayNext]_gatewayVars PROVE GatewayTypeOK'
  OBVIOUS
<1>1. CASE Restart
  <2>1. cfg' \in Configs /\ proc' \in {"starting", "aborted"}
    BY <1>1 DEF Restart, LoadOutcomes
  <2>2. /\ (known \in SUBSET Node)' /\ (ModulesOf(cfg) \subseteq known)'
        /\ (rest \in SUBSET known)'
    BY <1>1 DEF Restart, ModulesOf
  <2>3. \A n \in Node : End(n)' \in Nat
    BY <2>1, TablesOfModule DEF End, Null
  <2>4. /\ iter' \in [Node -> [it : Nat, idx : Nat, stop : Nat]]
        /\ \A n \in Node : iter'[n].it <= End(n)' /\ iter'[n].idx <= iter'[n].stop
    BY <1>1, <2>3 DEF Restart, Iterator, Null
  <2>5. /\ values' \in Seq(Value) /\ Len(values') <= MaxValues
        /\ sent' \in Seq(Commands)
        /\ pushed' \in Seq([to : Node, values : Seq(Value)])
        /\ asked' \in [Node -> SUBSET Addr]
    BY <1>1, MaxValuesAssumption DEF Restart
  <2> QED BY <2>1, <2>2, <2>4, <2>5 DEF GatewayTypeOK
<1>2. CASE BeginFails
  BY <1>2 DEF BeginFails, GatewayTypeOK, End, Null
<1>3. ASSUME NEW n \in Node, WakeUpModule(n) PROVE GatewayTypeOK'
  <2>1. Begin(n) \in Nat /\ Begin(n) <= End(n)
    BY Positions DEF GatewayTypeOK
  <2>2. cfg' = cfg /\ iter' = [iter EXCEPT ![n] = Iterator(Begin(n), 0, 0)]
    BY <1>3 DEF WakeUpModule
  <2>3. /\ iter' \in [Node -> [it : Nat, idx : Nat, stop : Nat]]
        /\ \A m \in Node : iter'[m].it <= End(m)' /\ iter'[m].idx <= iter'[m].stop
    <3> DEFINE zero == 0
    <3>1. zero \in Nat /\ zero <= zero
      OBVIOUS
    <3>2. iter' = [iter EXCEPT ![n] = Iterator(Begin(n), zero, zero)]
      BY <2>2
    <3> HIDE DEF zero
    <3> QED BY <2>1, <2>2, <3>1, <3>2, MoveType
  <2>4. sent' \in Seq(Commands)
    BY <1>3 DEF WakeUpModule, D0Frame, Commands
  <2>5. rest' \in SUBSET known /\ asked' \in [Node -> SUBSET Addr]
    BY <1>3 DEF WakeUpModule, GatewayTypeOK
  <2> QED BY <1>3, <2>3, <2>4, <2>5 DEF WakeUpModule, GatewayTypeOK
<1>4. CASE WakeUpNobody
  BY <1>4 DEF WakeUpNobody, GatewayTypeOK, End, Null
<1>5. ASSUME NEW n \in Node, RecvInit(n) PROVE GatewayTypeOK'
  <2>1. CASE GetNextMeasure(n)
    <3>1. NextMeasureType
      BY <1>5, <2>1, GetNextMeasureType DEF RecvInit
    <3>2. UNCHANGED << cfg, known, rest, values >> /\ pushed' = << >>
      BY <1>5 DEF RecvInit
    <3> QED BY <3>1, <3>2 DEF NextMeasureType, GatewayTypeOK, ModulesOf
  <2>2. CASE sent' = << >> /\ UNCHANGED << proc, iter, asked >>
    BY <1>5, <2>2 DEF RecvInit, GatewayTypeOK, End, Null
  <2> QED BY <1>5, <2>1, <2>2 DEF RecvInit
<1>6. ASSUME NEW n \in Node, NEW a \in Addr, NEW r \in Reg,
             NEW printable \in BOOLEAN, NEW d \in Data,
             RecvMeas(n, a, r, printable, d)
      PROVE  GatewayTypeOK'
  <2>1. NextMeasureType
    BY <1>6, GetNextMeasureType DEF RecvMeas
  <2>2. /\ (known \in SUBSET Node)' /\ (ModulesOf(cfg) \subseteq known)'
        /\ (rest \in SUBSET known)'
    BY <1>6 DEF RecvMeas, Learn, GatewayTypeOK
  <2>3. values' \in Seq(Value) /\ Len(values') <= MaxValues
    <3>1. values \in Seq(Value) /\ Len(values) <= MaxValues
      BY DEF GatewayTypeOK
    <3>2. CASE Accepted(n, a, r, printable)
      <4>1. Labelled(n, a, r, d) \in Value
        BY <3>2, StoredType
      <4>2. Len(values) < MaxValues /\ values' = Append(values, Labelled(n, a, r, d))
        BY <1>6, <3>2 DEF RecvMeas
      <4> QED BY <3>1, <4>1, <4>2, MaxValuesAssumption
    <3>3. CASE ~Accepted(n, a, r, printable)
      BY <1>6, <3>1, <3>3 DEF RecvMeas
    <3> QED BY <3>2, <3>3
  <2> QED BY <1>6, <2>1, <2>2, <2>3 DEF RecvMeas, NextMeasureType, GatewayTypeOK
<1>7. ASSUME NEW n \in Node, RecvHalt(n) PROVE GatewayTypeOK'
  <2>1. sent' \in Seq(Commands)
    BY <1>7 DEF RecvHalt, D0Frame, Commands
  <2>2. pushed' \in Seq([to : Node, values : Seq(Value)])
    BY <1>7 DEF RecvHalt, GatewayTypeOK
  <2> QED BY <1>7, <2>1, <2>2, MaxValuesAssumption DEF RecvHalt, GatewayTypeOK, End, Null
<1>8. CASE RecvOther
  BY <1>8 DEF RecvOther, GatewayTypeOK, End, Null
<1>9. CASE UNCHANGED gatewayVars
  BY <1>9 DEF gatewayVars, GatewayTypeOK, End, Null
<1> QED BY <1>1, <1>2, <1>3, <1>4, <1>5, <1>6, <1>7, <1>8, <1>9 DEF GatewayNext, WakeUp

(* The tables, the iterators and the buffers of the gateway keep their      *)
(* types and ranges: in particular no iterator passes end() and meas_idx    *)
(* never passes stop (next_module, next_measure, store_measure, push_data). *)
THEOREM TypeCorrect == GatewaySpec => []GatewayTypeOK
<1>1. GatewayInit => GatewayTypeOK
  BY GatewayInitType
<1>2. GatewayTypeOK /\ [GatewayNext]_gatewayVars => GatewayTypeOK'
  BY GatewayNextType
<1> QED BY <1>1, <1>2, PTL DEF GatewaySpec

-----------------------------------------------------------------------------
(* The sensors of a board are side by side, in every module.                *)
AllContiguous == \A c \in Configs, n \in Node : Contiguous(c, n)

(* Seen from its first sensor, a board's sensors are the next Size ones.    *)
LEMMA BoardFromFirst ==
  ASSUME GatewayTypeOK, AllContiguous, NEW n \in Node,
         NEW p \in DOMAIN cfg.ordered[n], FirstOfBoard(n, p)
  PROVE  /\ p + Size(n, Board(n, p)) - 1 <= Len(cfg.ordered[n])
         /\ \A j \in DOMAIN cfg.ordered[n] :
              Board(n, j) = Board(n, p) <=> j \in p .. p + Size(n, Board(n, p)) - 1
<1> DEFINE L == Len(cfg.ordered[n])
           k == Size(n, Board(n, p))
<1>1. /\ L \in Nat /\ DOMAIN cfg.ordered[n] = 1 .. L /\ p \in 1 .. L
      /\ k \in Nat /\ k > 0
  BY TablesOfModule DEF GatewayTypeOK, Board, Size
<1>2. PICK s \in 1 .. p :
        /\ s + k - 1 \in p .. L
        /\ \A j \in DOMAIN cfg.ordered[n] :
             Board(n, j) = Board(n, p) <=> j \in s .. (s + k - 1)
  BY DEF AllContiguous, Contiguous, GatewayTypeOK, Board, Size
<1> HIDE DEF L, k
<1>3. s = p
  BY <1>1, <1>2 DEF FirstOfBoard
<1> QED BY <1>1, <1>2, <1>3 DEF L, k

(* The position after the last sensor of a board is the first of another.   *)
LEMMA NextIsFirst ==
  ASSUME GatewayTypeOK, AllContiguous, NEW n \in Node,
         NEW p \in DOMAIN cfg.ordered[n], p + 1 \in DOMAIN cfg.ordered[n],
         \A j \in DOMAIN cfg.ordered[n] : Board(n, j) = Board(n, p) => j <= p
  PROVE  FirstOfBoard(n, p + 1)
<1> DEFINE L == Len(cfg.ordered[n])
           q == p + 1
           k == Size(n, Board(n, q))
<1>1. /\ L \in Nat /\ DOMAIN cfg.ordered[n] = 1 .. L
      /\ p \in 1 .. L /\ q \in 1 .. L /\ k \in Nat /\ k > 0
  BY TablesOfModule DEF GatewayTypeOK, Board, Size
<1>2. PICK s \in 1 .. q :
        /\ s + k - 1 \in q .. L
        /\ \A j \in DOMAIN cfg.ordered[n] :
             Board(n, j) = Board(n, q) <=> j \in s .. (s + k - 1)
  BY DEF AllContiguous, Contiguous, GatewayTypeOK, Board, Size
<1> HIDE DEF L, k
<1>3. s = q
  <2>1. ASSUME p \in s .. (s + k - 1) PROVE FALSE
    <3>1. Board(n, q) = Board(n, p)
      BY <1>2, <2>1
    <3>2. q <= p
      BY <3>1
    <3> QED BY <1>1, <3>2
  <2>2. s \in Nat /\ s <= q /\ q <= s + k - 1
    BY <1>1, <1>2
  <2> HIDE DEF q
  <2>3. q = p + 1
    BY DEF q
  <2> QED BY <1>1, <2>1, <2>2, <2>3
<1> QED BY <1>1, <1>2, <1>3 DEF FirstOfBoard

LEMMA CoversBegin ==
  ASSUME GatewayTypeOK, NEW n \in Node, NEW i \in Nat, NEW A \in SUBSET Addr
  PROVE  Covers(n, Begin(n), i, 0, A) /\ Covers(n, Null, i, 0, A)
BY TablesOfModule DEF Covers, Begin, Null, FirstOfBoard, GatewayTypeOK

LEMMA CoversAsk ==
  ASSUME GatewayTypeOK, AllContiguous, NEW n \in Node, NEW p \in DOMAIN cfg.ordered[n],
         NEW i \in Nat, NEW A \in SUBSET Addr, Covers(n, p, i, 0, A)
  PROVE  LET k == Size(n, Board(n, p))
             B == A \cup {Board(n, p)}
         IN  /\ Covers(n, p, i, 0, B)
             /\ k = 1 => Covers(n, p + 1, i, 0, B)
             /\ k > 1 => Covers(n, p, 0, k - 1, B)
<1> DEFINE L == Len(cfg.ordered[n])
           k == Size(n, Board(n, p))
           B == A \cup {Board(n, p)}
<1>1. /\ L \in Nat /\ DOMAIN cfg.ordered[n] = 1 .. L /\ p \in 1 .. L
      /\ k \in Nat /\ k > 0
  BY TablesOfModule DEF GatewayTypeOK, Board, Size
<1>2. FirstOfBoard(n, p)
  BY DEF Covers
<1>3. \A j \in DOMAIN cfg.ordered[n] :
        Board(n, j) = Board(n, p) <=> j \in p .. p + k - 1
  BY <1>2, BoardFromFirst
<1>4. \A j \in DOMAIN cfg.ordered[n] : j < p => Board(n, j) \in A
  BY DEF Covers
<1>5. Covers(n, p, i, 0, B)
  BY <1>2, <1>4 DEF Covers
<1>6. ASSUME k = 1 PROVE Covers(n, p + 1, i, 0, B)
  <2>1. \A j \in DOMAIN cfg.ordered[n] : Board(n, j) = Board(n, p) => j <= p
    BY <1>1, <1>3, <1>6
  <2>2. p + 1 \in DOMAIN cfg.ordered[n] => FirstOfBoard(n, p + 1)
    BY <2>1, NextIsFirst
  <2>3. \A j \in DOMAIN cfg.ordered[n] : j < p + 1 => Board(n, j) \in B
    BY <1>1, <1>4
  <2> QED BY <2>2, <2>3 DEF Covers
<1>7. ASSUME k > 1 PROVE Covers(n, p, 0, k - 1, B)
  <2>1. /\ k - 1 # 0 /\ 0 < p /\ p - 0 = p /\ p - 0 + (k - 1) = p + k - 1
        /\ p + k - 1 <= L
    BY <1>1, <1>2, <1>7, BoardFromFirst
  <2>2. \A j \in DOMAIN cfg.ordered[n] : j < p => Board(n, j) \in B
    BY <1>4
  <2>3. Board(n, p) \in B
    OBVIOUS
  <2>4. \A j \in DOMAIN cfg.ordered[n] :
          Board(n, j) = Board(n, p) <=> j \in p - 0 .. p - 0 + (k - 1)
    BY <1>3, <2>1
  <2> HIDE DEF B
  <2> QED BY <2>1, <2>2, <2>3, <2>4 DEF Covers
<1> QED BY <1>5, <1>6, <1>7

LEMMA CoversSkip ==
  ASSUME GatewayTypeOK, NEW n \in Node, NEW p \in Nat, NEW i \in Nat, NEW s \in Nat,
         NEW A \in SUBSET Addr, Covers(n, p, i, s, A), i < s
  PROVE  Covers(n, p + 1, i + 1, s, A)
<1> DEFINE L == Len(cfg.ordered[n])
<1>1. L \in Nat /\ DOMAIN cfg.ordered[n] = 1 .. L
  BY TablesOfModule DEF GatewayTypeOK
<1>2. /\ p \in 1 .. L /\ Board(n, p) \in A /\ s = Size(n, Board(n, p)) - 1 /\ i < p
      /\ \A j \in DOMAIN cfg.ordered[n] :
           Board(n, j) = Board(n, p) <=> j \in p - i .. p - i + s
      /\ \A j \in DOMAIN cfg.ordered[n] : j < p => Board(n, j) \in A
  BY <1>1 DEF Covers
<1>3. p + 1 \in 1 .. L /\ p - i + s <= L /\ p + 1 - (i + 1) = p - i
  BY <1>1, <1>2 DEF Covers
<1>4. Board(n, p + 1) = Board(n, p)
  BY <1>1, <1>2, <1>3
<1>5. \A j \in DOMAIN cfg.ordered[n] : j < p + 1 => Board(n, j) \in A
  BY <1>1, <1>2
<1>6. i + 1 < p + 1 /\ s # 0
  BY <1>2
<1> QED BY <1>1, <1>2, <1>3, <1>4, <1>5, <1>6 DEF Covers

LEMMA CoversLast ==
  ASSUME GatewayTypeOK, AllContiguous, NEW n \in Node, NEW p \in Nat, NEW s \in Nat,
         NEW A \in SUBSET Addr, Covers(n, p, s, s, A), s # 0
  PROVE  Covers(n, p + 1, 0, 0, A)
<1> DEFINE L == Len(cfg.ordered[n])
<1>1. L \in Nat /\ DOMAIN cfg.ordered[n] = 1 .. L
  BY TablesOfModule DEF GatewayTypeOK
<1>2. /\ p \in 1 .. L /\ Board(n, p) \in A
      /\ \A j \in DOMAIN cfg.ordered[n] :
           Board(n, j) = Board(n, p) <=> j \in p - s .. p - s + s
      /\ \A j \in DOMAIN cfg.ordered[n] : j < p => Board(n, j) \in A
  BY <1>1 DEF Covers
<1>3. \A j \in DOMAIN cfg.ordered[n] : Board(n, j) = Board(n, p) => j <= p
  BY <1>1, <1>2
<1>4. p + 1 \in DOMAIN cfg.ordered[n] => FirstOfBoard(n, p + 1)
  BY <1>1, <1>2, <1>3, NextIsFirst
<1>5. \A j \in DOMAIN cfg.ordered[n] : j < p + 1 => Board(n, j) \in A
  BY <1>1, <1>2
<1> QED BY <1>4, <1>5 DEF Covers

-----------------------------------------------------------------------------
CoverInv == GatewayTypeOK /\ IteratorsCover

(* One module's iterator moves to a covered place; the others stay.         *)
LEMMA CoverStep ==
  ASSUME GatewayTypeOK, IteratorsCover, cfg' = cfg, NEW n \in Node,
         NEW p \in Nat, NEW i \in Nat, NEW s \in Nat, NEW A \in SUBSET Addr,
         iter' = [iter EXCEPT ![n] = Iterator(p, i, s)],
         asked' = [asked EXCEPT ![n] = A],
         Covers(n, p, i, s, A)
  PROVE  IteratorsCover'
<1>1. /\ iter'[n] = Iterator(p, i, s) /\ asked'[n] = A
      /\ \A m \in Node : m # n => iter'[m] = iter[m] /\ asked'[m] = asked[m]
  BY DEF GatewayTypeOK
<1>2. ASSUME NEW m \in Node
      PROVE  Covers(m, iter[m].it, iter[m].idx, iter[m].stop, asked[m])'
  <2>1. CASE m = n
    <3>1. /\ iter'[n].it = p /\ iter'[n].idx = i /\ iter'[n].stop = s
          /\ asked'[n] = A
      BY <1>1 DEF Iterator
    <3>2. Covers(n, p, i, s, A)'
      BY DEF Covers, FirstOfBoard, Board, Size
    <3> QED BY <2>1, <3>1, <3>2 DEF Covers, FirstOfBoard, Board, Size
  <2>2. CASE m # n
    <3>1. Covers(m, iter[m].it, iter[m].idx, iter[m].stop, asked[m])
      BY DEF IteratorsCover
    <3> QED BY <1>1, <2>2, <3>1 DEF Covers, FirstOfBoard, Board, Size
  <2> QED BY <2>1, <2>2
<1> QED BY <1>2 DEF IteratorsCover

LEMMA CoverSame ==
  ASSUME IteratorsCover, UNCHANGED << cfg, iter, asked >>
  PROVE  IteratorsCover'
BY DEF IteratorsCover, Covers, FirstOfBoard, Board, Size

LEMMA CoverAsk ==
  ASSUME GatewayTypeOK, AllContiguous, IteratorsCover, cfg' = cfg, NEW n \in Node,
         NEW p \in DOMAIN cfg.ordered[n], NEW i \in Nat,
         Covers(n, p, i, 0, asked[n]), Ask(n, p, i, 0)
  PROVE  IteratorsCover'
<1> DEFINE k == Size(n, Board(n, p))
           B == asked[n] \cup {Board(n, p)}
           q == IF k = 1 THEN p + 1 ELSE p
<1>1. asked[n] \in SUBSET Addr /\ B \in SUBSET Addr /\ p \in Nat /\ q \in Nat
  <2>1. Board(n, p) \in Addr /\ p \in Nat
    BY TablesOfModule DEF GatewayTypeOK, Board
  <2> QED BY <2>1 DEF GatewayTypeOK
<1>2. Covers(n, q, i, 0, B)
  BY <1>1, CoversAsk
<1>3. /\ iter' = [iter EXCEPT ![n] = Iterator(q, i, 0)]
      /\ asked' = [asked EXCEPT ![n] = B]
  BY DEF Ask
<1> HIDE DEF q, B
<1> DEFINE zero == 0
<1>4. zero \in Nat /\ zero = 0
  OBVIOUS
<1> HIDE DEF zero
<1> QED BY <1>1, <1>2, <1>3, <1>4, CoverStep

(* Every way out of next_measure keeps the iterators covered, and sends a   *)
(* module to sleep only when its whole vector was asked.                    *)
LEMMA CoverNextMeasure ==
  ASSUME GatewayTypeOK, AllContiguous, IteratorsCover, cfg' = cfg, NEW n \in Node,
         GetNextMeasure(n)
  PROVE  /\ IteratorsCover'
         /\ \A m \in Node : Sends(HaltFrame(m)) => BoardsOf(cfg, m) \subseteq asked[m]
<1> DEFINE p == iter[n].it
           i == iter[n].idx
           s == iter[n].stop
           L == Len(cfg.ordered[n])
           Halts == \A m \in Node :
                      Sends(HaltFrame(m)) => BoardsOf(cfg, m) \subseteq asked[m]
<1>1. /\ p \in Nat /\ i \in Nat /\ s \in Nat /\ p <= End(n) /\ i <= s
      /\ asked[n] \in SUBSET Addr
      /\ L \in Nat /\ DOMAIN cfg.ordered[n] = 1 .. L
      /\ cfg.ordered[n] = << >> <=> L = 0
  BY TablesOfModule DEF GatewayTypeOK
<1>2. Covers(n, p, i, s, asked[n])
  BY DEF IteratorsCover
<1>3. AtSensor(n) => p \in DOMAIN cfg.ordered[n]
  BY <1>1, Positions DEF AtSensor, GatewayTypeOK
<1>4. ASSUME s # 0 PROVE Several(n)
  <2>1. p \in 1 .. L /\ s = Size(n, Board(n, p)) - 1
    BY <1>1, <1>2, <1>4 DEF Covers
  <2>2. Size(n, Board(n, p)) \in Nat
    BY <2>1, TablesOfModule DEF GatewayTypeOK, Board, Size
  <2>3. AtSensor(n)
    BY <1>1, <2>1 DEF AtSensor, End, Null
  <2> QED BY <1>1, <1>4, <2>1, <2>2, <2>3 DEF Several
<1>5. ASSUME NEW q \in Nat, q = End(n), NEW j \in Nat, Covers(n, q, j, 0, asked[n]),
             Halt(n, j, 0)
      PROVE  IteratorsCover' /\ Halts
  <2>1. Begin(n) \in Nat /\ Covers(n, Begin(n), j, 0, {})
    BY CoversBegin, Positions DEF GatewayTypeOK
  <2>2. /\ iter' = [iter EXCEPT ![n] = Iterator(Begin(n), j, 0)]
        /\ asked' = [asked EXCEPT ![n] = {}]
        /\ sent' = << HaltFrame(n) >>
    BY <1>5 DEF Halt
  <2>3. IteratorsCover'
    <3> DEFINE zero == 0
               none == {}
               b == Begin(n)
    <3>1. zero \in Nat /\ none \in SUBSET Addr /\ b \in Nat
      BY <2>1
    <3>2. /\ Covers(n, b, j, zero, none)
          /\ iter' = [iter EXCEPT ![n] = Iterator(b, j, zero)]
          /\ asked' = [asked EXCEPT ![n] = none]
      BY <2>1, <2>2
    <3> HIDE DEF zero, none, b
    <3> QED BY <3>1, <3>2, CoverStep
  <2>4. BoardsOf(cfg, n) \subseteq asked[n]
    BY <1>1, <1>5 DEF Covers, BoardsOf, Board, End, Null
  <2>5. ASSUME NEW m \in Node, Sends(HaltFrame(m)) PROVE m = n
    BY <2>2, <2>5 DEF Sends, HaltFrame
  <2> QED BY <2>3, <2>4, <2>5
<1>6. ASSUME NEW q \in DOMAIN cfg.ordered[n], NEW j \in Nat,
             Covers(n, q, j, 0, asked[n]), Ask(n, q, j, 0)
      PROVE  IteratorsCover' /\ Halts
  <2>1. sent' = << MeasFrame(n, Board(n, q), Size(n, Board(n, q))) >>
    BY <1>6 DEF Ask
  <2>2. ASSUME NEW m \in Node PROVE ~Sends(HaltFrame(m))
    BY <2>1 DEF Sends, HaltFrame, MeasFrame
  <2> QED BY <1>6, <2>2, CoverAsk
<1>7. CASE NullIterator(n)
  <2>1. IteratorsCover'
    BY <1>7, CoverSame DEF NullIterator
  <2> QED BY <1>7, <2>1 DEF NullIterator, Sends
<1>8. CASE HaltAtEnd(n)
  <2>1. p = End(n) /\ s = 0
    BY <1>4, <1>8 DEF HaltAtEnd, Several, AtSensor
  <2> QED BY <1>1, <1>2, <1>5, <1>8, <2>1 DEF HaltAtEnd
<1>9. CASE AskSingle(n)
  <2>1. s = 0 /\ p \in DOMAIN cfg.ordered[n]
    BY <1>3, <1>4, <1>9 DEF AskSingle
  <2> QED BY <1>1, <1>2, <1>6, <1>9, <2>1 DEF AskSingle
<1>10. CASE AskSeveral(n)
  <2> DEFINE k == Size(n, Board(n, p))
             B == asked[n] \cup {Board(n, p)}
  <2>1. s = 0 /\ p \in DOMAIN cfg.ordered[n] /\ k > 1 /\ k \in Nat
    BY <1>1, <1>3, <1>10, Positions DEF AskSeveral, Several, AtSensor, GatewayTypeOK
  <2>2. Covers(n, p, 0, k - 1, B)
    BY <1>1, <1>2, <2>1, CoversAsk
  <2>3. /\ iter' = [iter EXCEPT ![n] = Iterator(p, 0, k - 1)]
        /\ asked' = [asked EXCEPT ![n] = B]
        /\ sent' = << MeasFrame(n, Board(n, p), k) >>
    <3>1. Ask(n, p, 0, k - 1) /\ k # 1
      BY <1>10, <2>1 DEF AskSeveral
    <3>2. asked' = [asked EXCEPT ![n] = B] /\ sent' = << MeasFrame(n, Board(n, p), k) >>
      BY <3>1 DEF Ask
    <3>3. iter' = [iter EXCEPT ![n] = Iterator(IF k = 1 THEN p + 1 ELSE p, 0, k - 1)]
      BY <3>1 DEF Ask
    <3> HIDE DEF k, p
    <3> QED BY <3>1, <3>2, <3>3
  <2>4. Board(n, p) \in Addr
    BY <2>1, TablesOfModule DEF GatewayTypeOK, Board
  <2>5. B \in SUBSET Addr
    BY <1>1, <2>4
  <2>6. k - 1 \in Nat
    BY <2>1
  <2>7. IteratorsCover'
    <3> DEFINE zero == 0
               l == k - 1
    <3>1. zero \in Nat /\ zero = 0 /\ l \in Nat /\ l = k - 1
      BY <2>6
    <3> HIDE DEF zero, l, B, k, p
    <3> QED BY <1>1, <2>2, <2>3, <2>5, <3>1, CoverStep
  <2>8. ASSUME NEW m \in Node PROVE ~Sends(HaltFrame(m))
    BY <2>3 DEF Sends, HaltFrame, MeasFrame
  <2> QED BY <2>7, <2>8
<1>11. CASE SkipMeasure(n)
  <2>1. Covers(n, p + 1, i + 1, s, asked[n])
    BY <1>1, <1>2, <1>11, CoversSkip DEF SkipMeasure
  <2>2. /\ iter' = [iter EXCEPT ![n] = Iterator(p + 1, i + 1, s)]
        /\ asked' = [asked EXCEPT ![n] = asked[n]]
        /\ sent' = << >>
    BY <1>11 DEF SkipMeasure, GatewayTypeOK
  <2>3. IteratorsCover'
    <3> DEFINE q == p + 1
               j == i + 1
    <3>1. q \in Nat /\ j \in Nat
      BY <1>1
    <3> HIDE DEF p, i, s
    <3>2. Covers(n, q, j, s, asked[n]) /\ iter' = [iter EXCEPT ![n] = Iterator(q, j, s)]
      BY <2>1, <2>2
    <3> HIDE DEF q, j
    <3> QED BY <1>1, <2>2, <3>1, <3>2, CoverStep
  <2> QED BY <2>2, <2>3 DEF Sends
<1>12. CASE LastSkip(n)
  <2>1. s # 0 /\ i = s /\ p \in 1 .. L
    BY <1>1, <1>3, <1>12 DEF LastSkip, Several
  <2>2. Covers(n, p + 1, 0, 0, asked[n])
    BY <1>1, <1>2, <2>1, CoversLast
  <2> DEFINE q == p + 1
  <2>3. q \in Nat /\ Covers(n, q, 0, 0, asked[n]) /\ 0 \in Nat
    BY <1>1, <2>2
  <2>4. q # End(n) => q \in DOMAIN cfg.ordered[n]
    BY <1>1, <2>1 DEF End
  <2>5. \/ q = End(n) /\ Halt(n, 0, 0)
        \/ q # End(n) /\ Ask(n, q, 0, 0)
    BY <1>12 DEF LastSkip
  <2> HIDE DEF q
  <2> QED BY <1>5, <1>6, <2>3, <2>4, <2>5
<1> QED BY <1>7, <1>8, <1>9, <1>10, <1>11, <1>12 DEF GetNextMeasure, NextMeasure

LEMMA CoverInit == GatewayInit => IteratorsCover
<1> SUFFICES ASSUME GatewayInit PROVE IteratorsCover
  OBVIOUS
<1>1. GatewayTypeOK
  BY GatewayInitType
<1>2. ASSUME NEW n \in Node
      PROVE  Covers(n, iter[n].it, iter[n].idx, iter[n].stop, asked[n])
  <2>1. /\ iter[n].it = Null /\ iter[n].idx = 0 /\ iter[n].stop = 0
        /\ asked[n] = {}
    BY DEF GatewayInit, Iterator
  <2>2. Covers(n, Null, 0, 0, {})
    BY <1>1, CoversBegin
  <2> QED BY <2>1, <2>2
<1> QED BY <1>2 DEF IteratorsCover

LEMMA CoverRestart == GatewayTypeOK' /\ Restart => IteratorsCover'
<1> SUFFICES ASSUME GatewayTypeOK', Restart, NEW n \in Node
             PROVE  Covers(n, iter[n].it, iter[n].idx, iter[n].stop, asked[n])'
  BY DEF IteratorsCover
<1>1. /\ iter'[n].it = Null /\ iter'[n].idx = 0 /\ iter'[n].stop = 0
      /\ asked'[n] = {}
  BY DEF Restart, Iterator
<1>2. DOMAIN cfg'.ordered[n] = 1 .. Len(cfg'.ordered[n]) /\ Len(cfg'.ordered[n]) \in Nat
  BY TablesOfModule DEF GatewayTypeOK
<1> QED BY <1>1, <1>2 DEF Covers, Null

LEMMA CoverNext ==
  ASSUME AllContiguous, CoverInv, [GatewayNext]_gatewayVars
  PROVE  /\ CoverInv'
         /\ [\A m \in Node :
               Sends(HaltFrame(m)) => BoardsOf(cfg, m) \subseteq asked[m]]_gatewayVars
<1> DEFINE Halts == \A m \in Node :
                      Sends(HaltFrame(m)) => BoardsOf(cfg, m) \subseteq asked[m]
<1>0. GatewayTypeOK /\ IteratorsCover /\ GatewayTypeOK'
  BY GatewayNextType DEF CoverInv
<1>1. CASE Restart
  <2>1. IteratorsCover'
    BY <1>0, <1>1, CoverRestart
  <2> QED BY <1>0, <1>1, <2>1 DEF CoverInv, Restart, Sends
<1>2. CASE BeginFails
  <2>1. IteratorsCover'
    BY <1>0, <1>2, CoverSame DEF BeginFails
  <2> QED BY <1>0, <1>2, <2>1 DEF CoverInv, BeginFails, Sends
<1>3. ASSUME NEW n \in Node, WakeUpModule(n) PROVE CoverInv' /\ Halts
  <2> DEFINE b == Begin(n)
             zero == 0
             none == {}
  <2>1. b \in Nat /\ zero \in Nat /\ none \in SUBSET Addr
    BY <1>0, Positions DEF GatewayTypeOK
  <2>2. Covers(n, b, zero, zero, none)
    BY <1>0, CoversBegin
  <2>3. /\ cfg' = cfg
        /\ iter' = [iter EXCEPT ![n] = Iterator(b, zero, zero)]
        /\ asked' = [asked EXCEPT ![n] = none]
    BY <1>3 DEF WakeUpModule
  <2>4. IteratorsCover'
    <3> HIDE DEF b, zero, none
    <3> QED BY <1>0, <2>1, <2>2, <2>3, CoverStep
  <2>5. ASSUME NEW m \in Node PROVE ~Sends(HaltFrame(m))
    <3>1. sent' = << D0Frame(n, "HIGH"), D0Frame(n, "LOW"), D0Frame(n, "HIGH") >>
      BY <1>3 DEF WakeUpModule
    <3>2. HaltFrame(m).cmd = "HALT" /\ \A l : D0Frame(n, l).cmd = "D0"
      BY DEF HaltFrame, D0Frame
    <3> QED BY <3>1, <3>2 DEF Sends
  <2> QED BY <1>0, <2>4, <2>5 DEF CoverInv
<1>4. CASE WakeUpNobody
  <2>1. IteratorsCover'
    BY <1>0, <1>4, CoverSame DEF WakeUpNobody
  <2> QED BY <1>0, <1>4, <2>1 DEF CoverInv, WakeUpNobody, Sends
<1>5. ASSUME NEW n \in Node, RecvInit(n) PROVE CoverInv' /\ Halts
  <2>1. CASE GetNextMeasure(n)
    BY <1>0, <1>5, <2>1, CoverNextMeasure DEF CoverInv, RecvInit
  <2>2. CASE sent' = << >> /\ UNCHANGED << proc, iter, asked >>
    <3>1. IteratorsCover'
      BY <1>0, <1>5, <2>2, CoverSame DEF RecvInit
    <3> QED BY <1>0, <2>2, <3>1 DEF CoverInv, Sends
  <2> QED BY <1>5, <2>1, <2>2 DEF RecvInit
<1>6. ASSUME NEW n \in Node, NEW a \in Addr, NEW r \in Reg,
             NEW printable \in BOOLEAN, NEW d \in Data,
             RecvMeas(n, a, r, printable, d)
      PROVE  CoverInv' /\ Halts
  BY <1>0, <1>6, CoverNextMeasure DEF CoverInv, RecvMeas
<1>7. ASSUME NEW n \in Node, RecvHalt(n) PROVE CoverInv' /\ Halts
  <2>1. IteratorsCover'
    BY <1>0, <1>7, CoverSame DEF RecvHalt
  <2>2. ASSUME NEW m \in Node PROVE ~Sends(HaltFrame(m))
    BY <1>7 DEF RecvHalt, Sends, HaltFrame, D0Frame
  <2> QED BY <1>0, <2>1, <2>2 DEF CoverInv
<1>8. CASE RecvOther
  <2>1. IteratorsCover'
    BY <1>0, <1>8, CoverSame DEF RecvOther
  <2> QED BY <1>0, <1>8, <2>1 DEF CoverInv, RecvOther, Sends
<1>9. CASE UNCHANGED gatewayVars
  <2>1. IteratorsCover'
    BY <1>0, <1>9, CoverSame DEF gatewayVars
  <2> QED BY <1>0, <1>9, <2>1 DEF CoverInv
<1> QED BY <1>1, <1>2, <1>3, <1>4, <1>5, <1>6, <1>7, <1>8, <1>9 DEF GatewayNext, WakeUp

(* Whatever frames come in, in whatever order, next_measure never loses its *)
(* place in a module's vector, if the sensors of each board are contiguous. *)
THEOREM IteratorsKeepPlace ==
  ASSUME AllContiguous
  PROVE  GatewaySpec => []IteratorsCover
<1>1. GatewayInit => CoverInv
  BY GatewayInitType, CoverInit DEF CoverInv
<1>2. CoverInv /\ [GatewayNext]_gatewayVars => CoverInv'
  BY CoverNext
<1>3. CoverInv => IteratorsCover
  BY DEF CoverInv
<1> QED BY <1>1, <1>2, <1>3, PTL DEF GatewaySpec

(* The gateway sends CMD_HALT to a module only after it asked every board   *)
(* configured for it, for every contiguous configuration and every stream   *)
(* of frames (next_measure, called from run).                               *)
THEOREM HaltsAfterAllAsked ==
  ASSUME AllContiguous
  PROVE  GatewaySpec => HaltAfterAllAsked
<1>1. GatewayInit => CoverInv
  BY GatewayInitType, CoverInit DEF CoverInv
<1>2. CoverInv /\ [GatewayNext]_gatewayVars => CoverInv'
  BY CoverNext
<1>3. CoverInv /\ [GatewayNext]_gatewayVars
        => [\A n \in Node :
              Sends(HaltFrame(n)) => BoardsOf(cfg, n) \subseteq asked[n]]_gatewayVars
  BY CoverNext
<1> QED BY <1>1, <1>2, <1>3, PTL DEF GatewaySpec, HaltAfterAllAsked

-----------------------------------------------------------------------------
(* While the process polls, the iterator of a module with sensors is set.   *)
IteratorsSet ==
  /\ proc # "crashed"
  /\ proc = "polling" => \A n \in Node : iter[n].it = Null => End(n) = Null

LEMMA SetNextMeasure ==
  ASSUME GatewayTypeOK, IteratorsSet, proc = "polling", cfg' = cfg, NEW n \in Node,
         GetNextMeasure(n)
  PROVE  IteratorsSet'
<1> DEFINE p == iter[n].it
<1>1. ~NullIterator(n)
  BY DEF IteratorsSet, NullIterator
<1>2. proc' = "polling" /\ NextMeasure(n)
  BY <1>1 DEF GetNextMeasure, NextMeasure
<1>3. p \in Nat /\ (End(n) # Null => Begin(n) # Null)
  BY Positions DEF GatewayTypeOK
<1>4. PICK q, i, s : /\ iter' = [iter EXCEPT ![n] = Iterator(q, i, s)]
                     /\ q = Begin(n) \/ q \in Nat \ {Null}
  <2>1. ASSUME NEW i, NEW s, Halt(n, i, s)
        PROVE  \E q, j, t : /\ iter' = [iter EXCEPT ![n] = Iterator(q, j, t)]
                            /\ q = Begin(n) \/ q \in Nat \ {Null}
    BY <2>1 DEF Halt
  <2>2. ASSUME NEW q \in Nat \ {Null}, NEW i, NEW s, Ask(n, q, i, s)
        PROVE  \E r, j, t : /\ iter' = [iter EXCEPT ![n] = Iterator(r, j, t)]
                            /\ r = Begin(n) \/ r \in Nat \ {Null}
    <3> DEFINE r == IF Size(n, Board(n, q)) = 1 THEN q + 1 ELSE q
    <3>1. r \in Nat \ {Null}
      BY DEF Null
    <3>2. iter' = [iter EXCEPT ![n] = Iterator(r, i, s)]
      BY <2>2 DEF Ask
    <3> HIDE DEF r
    <3> QED BY <3>1, <3>2
  <2>3. CASE HaltAtEnd(n)
    BY <2>1, <2>3 DEF HaltAtEnd
  <2>4. CASE AskSingle(n)
    BY <1>3, <2>2, <2>4 DEF AskSingle, AtSensor
  <2>5. CASE AskSeveral(n)
    BY <1>3, <2>2, <2>5 DEF AskSeveral, Several, AtSensor
  <2>6. CASE SkipMeasure(n)
    <3>1. iter' = [iter EXCEPT ![n] = Iterator(p + 1, iter[n].idx + 1, iter[n].stop)]
      BY <2>6 DEF SkipMeasure
    <3>2. p + 1 \in Nat \ {Null}
      BY <1>3 DEF Null
    <3> QED BY <3>1, <3>2
  <2>7. CASE LastSkip(n)
    <3>1. p + 1 \in Nat \ {Null}
      BY <1>3 DEF Null
    <3> QED BY <2>1, <2>2, <2>7, <3>1 DEF LastSkip
  <2> QED BY <1>2, <2>3, <2>4, <2>5, <2>6, <2>7 DEF NextMeasure
<1>5. ASSUME NEW m \in Node PROVE (iter[m].it = Null => End(m) = Null)'
  <2>1. End(m)' = End(m)
    BY DEF End
  <2>2. CASE m = n
    BY <1>3, <1>4, <2>1, <2>2 DEF GatewayTypeOK, Iterator, Null
  <2>3. CASE m # n
    BY <1>4, <2>1, <2>3 DEF GatewayTypeOK, IteratorsSet
  <2> QED BY <2>2, <2>3
<1> QED BY <1>2, <1>5 DEF IteratorsSet

(* A module learnt from a frame does no harm once the only module with      *)
(* sensors was woken, and it is the first to be.                            *)
LEMMA SetNext ==
  ASSUME SingleModule, GatewayTypeOK, IteratorsSet, [GatewayNext]_gatewayVars,
         proc = "starting" => known = ModulesOf(cfg)
  PROVE  IteratorsSet' /\ (proc = "starting" => known = ModulesOf(cfg))'
<1>0. PICK only \in Node : ModulesOf(cfg) = {only}
  BY DEF SingleModule
<1>1. CASE Restart
  BY <1>1 DEF Restart, LoadOutcomes, IteratorsSet
<1>2. CASE BeginFails
  BY <1>2 DEF BeginFails, IteratorsSet
<1>3. ASSUME NEW n \in Node, WakeUpModule(n)
      PROVE  IteratorsSet' /\ proc' # "starting"
  <2>1. proc' = "polling" /\ cfg' = cfg
        /\ iter' = [iter EXCEPT ![n] = Iterator(Begin(n), 0, 0)]
    BY <1>3 DEF WakeUpModule
  <2>2. ASSUME NEW m \in Node PROVE (iter[m].it = Null => End(m) = Null)'
    <3>1. End(m)' = End(m)
      BY <2>1 DEF End
    <3>2. CASE m = n
      BY <2>1, <3>1, <3>2, Positions DEF GatewayTypeOK, Iterator
    <3>3. CASE m # n /\ proc = "polling"
      BY <2>1, <3>1, <3>3 DEF GatewayTypeOK, IteratorsSet
    <3>4. CASE m # n /\ proc = "starting"
      <4>1. n = only /\ m \notin ModulesOf(cfg)
        BY <1>0, <1>3, <3>4 DEF WakeUpModule, GatewayTypeOK
      <4> QED BY <3>1, <4>1 DEF ModulesOf, End
    <3> QED BY <1>3, <3>2, <3>3, <3>4 DEF WakeUpModule
  <2> QED BY <2>1, <2>2 DEF IteratorsSet
<1>4. ~WakeUpNobody
  BY <1>0 DEF WakeUpNobody, GatewayTypeOK
<1>5. ASSUME NEW n \in Node, RecvInit(n) PROVE IteratorsSet' /\ proc' # "starting"
  <2>1. CASE GetNextMeasure(n)
    <3>1. IteratorsSet'
      BY <1>5, <2>1, SetNextMeasure DEF RecvInit
    <3> QED BY <1>5, <2>1, <3>1 DEF RecvInit, GetNextMeasure, NextMeasure, NullIterator
  <2>2. CASE sent' = << >> /\ UNCHANGED << proc, iter, asked >>
    BY <1>5, <2>2 DEF RecvInit, IteratorsSet, End
  <2> QED BY <1>5, <2>1, <2>2 DEF RecvInit
<1>6. ASSUME NEW n \in Node, NEW a \in Addr, NEW r \in Reg,
             NEW printable \in BOOLEAN, NEW d \in Data,
             RecvMeas(n, a, r, printable, d)
      PROVE  IteratorsSet' /\ proc' # "starting"
  <2>1. IteratorsSet'
    BY <1>6, SetNextMeasure DEF RecvMeas
  <2> QED BY <1>6, <2>1 DEF RecvMeas, GetNextMeasure, NextMeasure, NullIterator
<1>7. ASSUME NEW n \in Node, RecvHalt(n) PROVE IteratorsSet' /\ proc' # "starting"
  BY <1>7 DEF RecvHalt, IteratorsSet, End
<1>8. CASE RecvOther
  BY <1>8 DEF RecvOther, IteratorsSet, End
<1>9. CASE UNCHANGED gatewayVars
  BY <1>9 DEF gatewayVars, IteratorsSet, End, ModulesOf
<1> QED BY <1>1, <1>2, <1>3, <1>4, <1>5, <1>6, <1>7, <1>8, <1>9 DEF GatewayNext, WakeUp

(* As long as sensors.json names exactly one module with sensors, the       *)
(* process never reads through an iterator that was not set, whatever other *)
(* modules send to it, whenever it is started again, and whatever the file  *)
(* was before (next_module, next_measure).                                  *)
THEOREM OneModuleNeverCrashes == GatewaySpec => []NeverCrashes
<1> DEFINE Set == IteratorsSet /\ (proc = "starting" => known = ModulesOf(cfg))
           Inv == GatewayTypeOK /\ (SingleModule => Set)
<1>1. GatewayInit => Inv
  BY GatewayInitType DEF GatewayInit, IteratorsSet, LoadOutcomes
<1>2. Inv /\ [GatewayNext]_gatewayVars => Inv'
  <2> SUFFICES ASSUME Inv, [GatewayNext]_gatewayVars, SingleModule'
               PROVE  Set'
    BY GatewayNextType
  <2>1. CASE Restart
    BY <2>1 DEF Restart, LoadOutcomes, IteratorsSet
  <2>2. CASE ~Restart
    <3>1. cfg' = cfg
      BY <2>2 DEF GatewayNext, BeginFails, WakeUp, WakeUpModule, WakeUpNobody, RecvInit,
                  RecvMeas, RecvHalt, RecvOther, gatewayVars
    <3>2. SingleModule
      BY <3>1 DEF SingleModule, ModulesOf
    <3> QED BY <3>2, SetNext
  <2> QED BY <2>1, <2>2
<1>3. Inv => NeverCrashes
  BY DEF IteratorsSet, NeverCrashes
<1> QED BY <1>1, <1>2, <1>3, PTL DEF GatewaySpec

-----------------------------------------------------------------------------
(* No board with several sensors directly follows another one.              *)
AllSpaced == \A c \in Configs, n \in Node : Spaced(c, n)

FreshInv == CoverInv /\ NothingAskedAhead

FreshSends ==
  \A n \in Node, a \in Addr :
    Sends(MeasFrame(n, a, Size(n, a))) => a \notin asked[n]

LEMMA FreshStep ==
  ASSUME GatewayTypeOK, NothingAskedAhead, cfg' = cfg, NEW n \in Node,
         NEW p \in Nat, NEW i \in Nat, NEW s \in Nat, NEW A \in SUBSET Addr,
         iter' = [iter EXCEPT ![n] = Iterator(p, i, s)],
         asked' = [asked EXCEPT ![n] = A],
         NotAhead(n, p, s, A)
  PROVE  NothingAskedAhead'
<1>1. /\ iter'[n].it = p /\ iter'[n].stop = s /\ asked'[n] = A
      /\ \A m \in Node : m # n => iter'[m] = iter[m] /\ asked'[m] = asked[m]
  BY DEF GatewayTypeOK, Iterator
<1>2. ASSUME NEW m \in Node PROVE NotAhead(m, iter[m].it, iter[m].stop, asked[m])'
  <2>1. CASE m = n
    BY <1>1, <2>1 DEF NotAhead, Board
  <2>2. CASE m # n
    BY <1>1, <2>2 DEF NothingAskedAhead, NotAhead, Board
  <2> QED BY <2>1, <2>2
<1> QED BY <1>2 DEF NothingAskedAhead

LEMMA FreshSame ==
  ASSUME NothingAskedAhead, UNCHANGED << cfg, iter, asked >>
  PROVE  NothingAskedAhead'
BY DEF NothingAskedAhead, NotAhead, Board

LEMMA NoMeasureIn ==
  ASSUME NEW l, sent' \in {<< >>, << HaltFrame(l) >>, << D0Frame(l, "LOW") >>,
            << D0Frame(l, "HIGH"), D0Frame(l, "LOW"), D0Frame(l, "HIGH") >>}
  PROVE  FreshSends
<1>1. ASSUME NEW n \in Node, NEW a \in Addr
      PROVE  ~Sends(MeasFrame(n, a, Size(n, a)))
  <2>1. /\ MeasFrame(n, a, Size(n, a)).cmd = "MEAS" /\ HaltFrame(l).cmd = "HALT"
        /\ \A v : D0Frame(l, v).cmd = "D0"
    BY DEF MeasFrame, HaltFrame, D0Frame
  <2> QED BY <2>1 DEF Sends
<1> QED BY <1>1 DEF FreshSends

LEMMA FreshNextMeasure ==
  ASSUME GatewayTypeOK, AllContiguous, AllSpaced, IteratorsCover, NothingAskedAhead,
         cfg' = cfg, NEW n \in Node, GetNextMeasure(n)
  PROVE  NothingAskedAhead' /\ FreshSends
<1> DEFINE p == iter[n].it
           i == iter[n].idx
           s == iter[n].stop
           A == asked[n]
           L == Len(cfg.ordered[n])
<1>1. /\ p \in Nat /\ i \in Nat /\ s \in Nat /\ p <= End(n) /\ i <= s
      /\ A \in SUBSET Addr
      /\ L \in Nat /\ DOMAIN cfg.ordered[n] = 1 .. L
  BY TablesOfModule DEF GatewayTypeOK
<1>2. Covers(n, p, i, s, A) /\ NotAhead(n, p, s, A)
  BY DEF IteratorsCover, NothingAskedAhead
<1>3. AtSensor(n) => p \in 1 .. L
  BY <1>1, Positions DEF AtSensor, GatewayTypeOK
<1>13. ASSUME NEW j \in 1 .. L PROVE Size(n, Board(n, j)) \in Nat \ {0}
  <2>1. cfg \in Configs /\ j \in DOMAIN cfg.ordered[n]
    BY <1>1 DEF GatewayTypeOK
  <2>2. Size(n, Board(n, j)) \in Nat /\ Size(n, Board(n, j)) > 0
    BY <2>1, TablesOfModule DEF Board, Size
  <2> QED BY <2>2
<1>4. s # 0 => Size(n, Board(n, p)) > 1
  BY <1>1, <1>2, <1>13 DEF Covers
<1>5. ASSUME NEW j \in Nat, NEW t \in Nat, Halt(n, j, t)
      PROVE  NothingAskedAhead' /\ FreshSends
  <2> DEFINE b == Begin(n)
             none == {}
  <2>1. /\ iter' = [iter EXCEPT ![n] = Iterator(b, j, t)]
        /\ asked' = [asked EXCEPT ![n] = none] /\ sent' = << HaltFrame(n) >>
    BY <1>5 DEF Halt
  <2>2. b \in Nat /\ none \in SUBSET Addr /\ NotAhead(n, b, t, none)
    BY Positions DEF GatewayTypeOK, NotAhead
  <2>3. NothingAskedAhead'
    <3> HIDE DEF b, none
    <3> QED BY <2>1, <2>2, FreshStep
  <2> QED BY <2>1, <2>3, NoMeasureIn
<1>6. ASSUME NEW q \in 1 .. L, NEW j \in Nat, NEW t \in Nat, Ask(n, q, j, t),
             FirstOfBoard(n, q), NotAhead(n, q, 0, A),
             Size(n, Board(n, q)) = 1 \/ t # 0
      PROVE  NothingAskedAhead' /\ FreshSends
  <2> DEFINE k == Size(n, Board(n, q))
             r == IF k = 1 THEN q + 1 ELSE q
             B == A \cup {Board(n, q)}
  <2>1. Board(n, q) \in Addr /\ r \in Nat /\ B \in SUBSET Addr
    BY <1>1, TablesOfModule DEF GatewayTypeOK, Board
  <2>2. iter' = [iter EXCEPT ![n] = Iterator(r, j, t)]
    BY <1>6 DEF Ask
  <2>3. asked' = [asked EXCEPT ![n] = B] /\ sent' = << MeasFrame(n, Board(n, q), k) >>
    BY <1>6 DEF Ask
  <2>4. NotAhead(n, r, t, B)
    <3>1. ASSUME NEW a \in A
          PROVE  \E l \in DOMAIN cfg.ordered[n] : Board(n, l) = a /\ l < r
      BY <1>1, <1>6 DEF NotAhead
    <3>2. q < r \/ (q = r /\ t # 0)
      BY <1>1, <1>6
    <3>3. q \in DOMAIN cfg.ordered[n]
      BY <1>1, <1>6
    <3> HIDE DEF r
    <3> QED BY <3>1, <3>2, <3>3 DEF NotAhead
  <2>5. NothingAskedAhead'
    <3> HIDE DEF r, B
    <3> QED BY <2>1, <2>2, <2>3, <2>4, FreshStep
  <2>6. Board(n, q) \notin A
    BY <1>1, <1>6 DEF NotAhead, FirstOfBoard
  <2>7. FreshSends
    <3>1. ASSUME NEW m \in Node, NEW a \in Addr, Sends(MeasFrame(m, a, Size(m, a)))
          PROVE  m = n /\ a = Board(n, q)
      BY <2>3, <3>1 DEF Sends, MeasFrame
    <3> QED BY <2>6, <3>1 DEF FreshSends
  <2> QED BY <2>5, <2>7
<1>7. CASE NullIterator(n)
  <2>1. NothingAskedAhead'
    BY <1>7, FreshSame DEF NullIterator
  <2> QED BY <1>7, <2>1, NoMeasureIn DEF NullIterator
<1>8. CASE HaltAtEnd(n)
  BY <1>1, <1>5, <1>8 DEF HaltAtEnd
<1>9. CASE AskSingle(n)
  <2>1. s = 0 /\ p \in 1 .. L /\ Size(n, Board(n, p)) = 1
    BY <1>1, <1>3, <1>4, <1>9, <1>13 DEF AskSingle, Several
  <2>2. FirstOfBoard(n, p) /\ NotAhead(n, p, 0, A)
    BY <1>1, <1>2, <2>1 DEF Covers
  <2> QED BY <1>1, <1>6, <1>9, <2>1, <2>2 DEF AskSingle
<1>10. CASE AskSeveral(n)
  <2> DEFINE t == Size(n, Board(n, p)) - 1
  <2>1. s = 0 /\ p \in 1 .. L /\ t \in Nat /\ t # 0
    BY <1>1, <1>3, <1>10, <1>13 DEF AskSeveral, Several
  <2>2. FirstOfBoard(n, p) /\ NotAhead(n, p, 0, A) /\ Ask(n, p, 0, t)
    BY <1>1, <1>2, <1>10, <2>1 DEF Covers, AskSeveral
  <2> HIDE DEF t
  <2> QED BY <1>6, <2>1, <2>2
<1>11. CASE SkipMeasure(n)
  <2> DEFINE q == p + 1
             j == i + 1
  <2>1. /\ iter' = [iter EXCEPT ![n] = Iterator(q, j, s)]
        /\ asked' = [asked EXCEPT ![n] = A] /\ sent' = << >>
    BY <1>11 DEF SkipMeasure, GatewayTypeOK
  <2>2. q \in Nat /\ j \in Nat /\ NotAhead(n, q, s, A)
    BY <1>1, <1>2 DEF NotAhead
  <2>3. NothingAskedAhead'
    <3> HIDE DEF p, q, i, j, s, A
    <3> QED BY <1>1, <2>1, <2>2, FreshStep
  <2> QED BY <2>1, <2>3, NoMeasureIn
<1>12. CASE LastSkip(n)
  <2> DEFINE q == p + 1
  <2>1. s # 0 /\ i = s /\ p \in 1 .. L /\ Size(n, Board(n, p)) > 1
    BY <1>1, <1>3, <1>12 DEF LastSkip, Several
  <2>2. Covers(n, q, 0, 0, A)
    BY <1>1, <1>2, <2>1, CoversLast
  <2>3. CASE q = End(n)
    BY <1>5, <1>12, <2>3 DEF LastSkip
  <2>4. CASE q # End(n)
    <3>1. q \in 1 .. L /\ Ask(n, q, 0, 0)
      BY <1>1, <1>12, <2>1, <2>4 DEF LastSkip, End
    <3>2. FirstOfBoard(n, q)
      BY <1>1, <2>2, <3>1 DEF Covers
    <3>3. Board(n, p) # Board(n, q)
      BY <1>1, <2>1, <3>1, <3>2 DEF FirstOfBoard
    <3>4. Size(n, Board(n, q)) = 1
      <4>1. Spaced(cfg, n)
        BY DEF AllSpaced, GatewayTypeOK
      <4>2. p \in DOMAIN cfg.ordered[n] /\ p + 1 \in DOMAIN cfg.ordered[n]
        BY <1>1, <2>1, <3>1
      <4>3. Size(n, Board(n, p)) = 1 \/ Size(n, Board(n, q)) = 1
        BY <3>3, <4>1, <4>2 DEF Spaced, Board, Size
      <4> QED BY <1>13, <2>1, <4>3
    <3>5. NotAhead(n, q, 0, A)
      BY <1>1, <1>2, <2>1 DEF NotAhead
    <3> QED BY <1>6, <3>1, <3>2, <3>4, <3>5
  <2> QED BY <2>3, <2>4
<1> QED BY <1>7, <1>8, <1>9, <1>10, <1>11, <1>12 DEF GetNextMeasure, NextMeasure

LEMMA FreshNext ==
  ASSUME AllContiguous, AllSpaced, FreshInv, [GatewayNext]_gatewayVars
  PROVE  FreshInv' /\ [FreshSends]_gatewayVars
<1>0. GatewayTypeOK /\ IteratorsCover /\ NothingAskedAhead /\ CoverInv'
  BY CoverNext DEF FreshInv, CoverInv
<1>1. CASE Restart
  BY <1>0, <1>1, NoMeasureIn DEF Restart, FreshInv, NothingAskedAhead, NotAhead
<1>2. CASE BeginFails
  BY <1>0, <1>2, FreshSame, NoMeasureIn DEF BeginFails, FreshInv
<1>3. ASSUME NEW n \in Node, WakeUpModule(n) PROVE FreshInv' /\ FreshSends
  <2> DEFINE b == Begin(n)
             zero == 0
             none == {}
  <2>1. /\ b \in Nat /\ zero \in Nat /\ none \in SUBSET Addr
        /\ NotAhead(n, b, zero, none)
    BY <1>0, Positions DEF GatewayTypeOK, NotAhead
  <2>2. /\ cfg' = cfg
        /\ iter' = [iter EXCEPT ![n] = Iterator(b, zero, zero)]
        /\ asked' = [asked EXCEPT ![n] = none]
    BY <1>3 DEF WakeUpModule
  <2>3. NothingAskedAhead'
    <3> HIDE DEF b, zero, none
    <3> QED BY <1>0, <2>1, <2>2, FreshStep
  <2> QED BY <1>0, <1>3, <2>3, NoMeasureIn DEF FreshInv, WakeUpModule
<1>4. CASE WakeUpNobody
  BY <1>0, <1>4, FreshSame, NoMeasureIn DEF WakeUpNobody, FreshInv
<1>5. ASSUME NEW n \in Node, RecvInit(n) PROVE FreshInv' /\ FreshSends
  <2>1. CASE GetNextMeasure(n)
    BY <1>0, <1>5, <2>1, FreshNextMeasure DEF FreshInv, RecvInit
  <2>2. CASE sent' = << >> /\ UNCHANGED << proc, iter, asked >>
    BY <1>0, <1>5, <2>2, FreshSame, NoMeasureIn DEF RecvInit, FreshInv
  <2> QED BY <1>5, <2>1, <2>2 DEF RecvInit
<1>6. ASSUME NEW n \in Node, NEW a \in Addr, NEW r \in Reg,
             NEW printable \in BOOLEAN, NEW d \in Data,
             RecvMeas(n, a, r, printable, d)
      PROVE  FreshInv' /\ FreshSends
  BY <1>0, <1>6, FreshNextMeasure DEF FreshInv, RecvMeas
<1>7. ASSUME NEW n \in Node, RecvHalt(n) PROVE FreshInv' /\ FreshSends
  BY <1>0, <1>7, FreshSame, NoMeasureIn DEF RecvHalt, FreshInv
<1>8. CASE RecvOther
  BY <1>0, <1>8, FreshSame, NoMeasureIn DEF RecvOther, FreshInv
<1>9. CASE UNCHANGED gatewayVars
  BY <1>0, <1>9, FreshSame DEF gatewayVars, FreshInv
<1> QED BY <1>1, <1>2, <1>3, <1>4, <1>5, <1>6, <1>7, <1>8, <1>9 DEF GatewayNext, WakeUp

(* In one pass over a module no board is asked a second time, for every     *)
(* contiguous configuration in which no two boards with several sensors     *)
(* touch, and every stream of frames (next_measure).                        *)
THEOREM AsksOnce ==
  ASSUME AllContiguous, AllSpaced
  PROVE  GatewaySpec => NoBoardAskedTwice
<1>1. GatewayInit => FreshInv
  BY GatewayInitType, CoverInit
     DEF FreshInv, CoverInv, GatewayInit, NothingAskedAhead, NotAhead
<1>2. FreshInv /\ [GatewayNext]_gatewayVars => FreshInv' /\ [FreshSends]_gatewayVars
  BY FreshNext
<1> QED BY <1>1, <1>2, PTL DEF GatewaySpec, NoBoardAskedTwice, FreshSends
=============================================================================
