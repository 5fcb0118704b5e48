------------------------------ MODULE Gateway ------------------------------
(***************************************************************************)
(* The polling process of the gateway (PolluxGateway/src/pollux): the      *)
(* Pollux_observer, which answers frames from the radio and poll timeouts, *)
(* and the Pollux_prober it drives, which holds the sensor tables, one     *)
(* iterator per module, the module to wake up next and the values that     *)
(* wait to be pushed.                                                      *)
(*                                                                         *)
(* The process has one thread: an action is one whole handler.  Frames     *)
(* come from an arbitrary environment (any module, any board, any register *)
(* byte, in any order), so what holds here holds whatever the radio and    *)
(* the firmware do.                                                        *)
(***************************************************************************)
EXTENDS Network, Naturals, Sequences

CONSTANTS
  Reg,        \* register numbers: the configured ones and those in a frame
  Data,       \* measured values
  Configs,    \* the tables load_sensors can have built (one per sensors.json)
  MaxValues   \* bound: values kept at one time (memory is the code's bound)

(* A configured sensor.  Its name and unit are determined by where it sits. *)
Sensor == [addr : Addr, reg : Reg, ignored : BOOLEAN]

(* listed : modules named in sensors.json, even those without any activated *)
(*          sensor.                                                         *)
(* ordered: sensors_ordered_map, every activated sensor in file order.      *)
(* boards : sensors_map, the same sensors by board.                         *)
Config == [listed  : SUBSET Node,
           ordered : [Node -> Seq(Sensor)],
           boards  : [Node -> [Addr -> Seq(Sensor)]]]

ASSUME RegAssumption == Reg \subseteq Nat
ASSUME MaxValuesAssumption == MaxValues \in Nat

(* load_sensors pushes each sensor to both tables.                          *)
ASSUME ConfigsAssumption ==
  /\ Configs \subseteq Config
  /\ \A c \in Configs, n \in Node :
       /\ \A i \in DOMAIN c.ordered[n] :
            c.boards[n][c.ordered[n][i].addr] # << >>
       /\ \A a \in Addr : c.boards[n][a] # << >> => c.ordered[n] # << >>
       /\ c.ordered[n] # << >> => n \in c.listed

VARIABLES
  proc,    \* the process: "starting", "polling", "crashed" (SIGSEGV),
           \* "aborted" (by the allocator) or "exited"
  cfg,     \* sensors_ordered_map and sensors_map as loaded
  known,   \* keys of sensors_map: operator[] adds a module that reports
  rest,    \* modules from current_sensor_it to the end of sensors_map
  iter,    \* module_iterator_map
  values,  \* values_list, without the geolocalisation constants
  sent,    \* the frames this step transmits, in order
  pushed,  \* the push this step makes: << >> or << push >>
  asked    \* history: boards asked since the iterator last left begin()

gatewayVars == << proc, cfg, known, rest, iter, values, sent, pushed, asked >>

(* Positions of the vector: 1 .. Len.  An empty vector has begin() = end()  *)
(* = the null pointer, written 0; a value-initialised iterator is null too. *)
Null == 0
Begin(n) == IF cfg.ordered[n] = << >> THEN Null ELSE 1
End(n) == IF cfg.ordered[n] = << >> THEN Null ELSE Len(cfg.ordered[n]) + 1

Iterator(p, idx, stop) == [it |-> p, idx |-> idx, stop |-> stop]

(* The board at position p of the module's vector, and how many of its      *)
(* sensors are activated.                                                   *)
Board(n, p) == cfg.ordered[n][p].addr
Size(n, a) == Len(cfg.boards[n][a])
BoardsOf(c, n) == {c.ordered[n][i].addr : i \in DOMAIN c.ordered[n]}

ModulesOf(c) == {n \in Node : c.ordered[n] # << >>}

MeasFrame(n, a, k) == [to |-> n, cmd |-> "MEAS", addr |-> a, nb |-> k]
HaltFrame(n)       == [to |-> n, cmd |-> "HALT"]
D0Frame(n, level)  == [to |-> n, cmd |-> "D0", level |-> level]

Commands == [to : Node, cmd : {"MEAS"}, addr : Addr, nb : Nat]
            \cup [to : Node, cmd : {"HALT"}]
            \cup [to : Node, cmd : {"D0"}, level : {"HIGH", "LOW"}]

Value == [node : Node, sensor : Sensor, data : Data]

GatewayTypeOK ==
  /\ proc \in {"starting", "polling", "crashed", "aborted", "exited"}
  /\ cfg \in Configs
  /\ known \in SUBSET Node /\ ModulesOf(cfg) \subseteq known
  /\ rest \in SUBSET known
  /\ iter \in [Node -> [it : Nat, idx : Nat, stop : Nat]]
  /\ \A n \in Node : iter[n].it <= End(n) /\ iter[n].idx <= iter[n].stop
  /\ values \in Seq(Value) /\ Len(values) <= MaxValues
  /\ sent \in Seq(Commands)
  /\ pushed \in Seq([to : Node, values : Seq(Value)])
  /\ asked \in [Node -> SUBSET Addr]

-----------------------------------------------------------------------------
(* Start of the process.  load_sensors frees the parsed file once per       *)
(* module it lists: from two on that is a double free, after which the      *)
(* process may go on or abort.                                              *)
LoadOutcomes(c) ==
  IF \E m, n \in c.listed : m # n THEN {"starting", "aborted"}
                                  ELSE {"starting"}

GatewayInit ==
  /\ cfg \in Configs
  /\ proc \in LoadOutcomes(cfg)
  /\ known = ModulesOf(cfg)
  /\ rest = {}
  /\ iter = [n \in Node |-> Iterator(Null, 0, 0)]
  /\ values = << >>
  /\ sent = << >>
  /\ pushed = << >>
  /\ asked = [n \in Node |-> {}]

(* The service is started anew, maybe after the configuration was edited:   *)
(* by the web interface at any time, by an operator after it went down.     *)
Restart ==
  /\ cfg' \in Configs
  /\ proc' \in LoadOutcomes(cfg')
  /\ known' = ModulesOf(cfg')
  /\ rest' = {}
  /\ iter' = [n \in Node |-> Iterator(Null, 0, 0)]
  /\ values' = << >>
  /\ sent' = << >>
  /\ pushed' = << >>
  /\ asked' = [n \in Node |-> {}]

(* begin() fails on the serial port: main returns 2.                        *)
BeginFails ==
  /\ proc = "starting"
  /\ proc' = "exited"
  /\ sent' = << >> /\ pushed' = << >>
  /\ UNCHANGED << cfg, known, rest, iter, values, asked >>

-----------------------------------------------------------------------------
(* wake_up(), from begin() and from every poll timeout: next_module() picks *)
(* the next module in the order of the hash table (any order) and resets    *)
(* its iterator; the module gets a pulse on D0.                             *)
WakeUpModule_KeepsPlace(n) ==  \* mutant: meas_idx and stop are left alone
  /\ proc \in {"starting", "polling"}
  /\ n \in IF rest = {} THEN known ELSE rest
  /\ rest' = (IF rest = {} THEN known ELSE rest) \ {n}
  /\ iter' = [iter EXCEPT ![n].it = Begin(n)]
  /\ asked' = [asked EXCEPT ![n] = {}]
  /\ sent' = << D0Frame(n, "HIGH"), D0Frame(n, "LOW"), D0Frame(n, "HIGH") >>
  /\ proc' = "polling"
  /\ pushed' = << >>
  /\ UNCHANGED << cfg, known, values >>

WakeUpModule_NoIterator(n) ==  \* mutant: the iterator is not set
  /\ proc \in {"starting", "polling"}
  /\ n \in IF rest = {} THEN known ELSE rest
  /\ rest' = (IF rest = {} THEN known ELSE rest) \ {n}
  /\ sent' = << D0Frame(n, "HIGH"), D0Frame(n, "LOW"), D0Frame(n, "HIGH") >>
  /\ proc' = "polling"
  /\ pushed' = << >>
  /\ UNCHANGED << cfg, known, values, iter, asked >>

WakeUpModule(n) ==
  /\ proc \in {"starting", "polling"}
  /\ n \in IF rest = {} THEN known ELSE rest
  /\ rest' = (IF rest = {} THEN known ELSE rest) \ {n}
  /\ iter' = [iter EXCEPT ![n] = Iterator(Begin(n), 0, 0)]
  /\ asked' = [asked EXCEPT ![n] = {}]
  /\ sent' = << D0Frame(n, "HIGH"), D0Frame(n, "LOW"), D0Frame(n, "HIGH") >>
  /\ proc' = "polling"
  /\ pushed' = << >>
  /\ UNCHANGED << cfg, known, values >>

(* No module is known: next_module() reads through the end iterator.        *)
WakeUpNobody ==
  /\ proc \in {"starting", "polling"}
  /\ known = {}
  /\ proc' = "crashed"
  /\ sent' = << >> /\ pushed' = << >>
  /\ UNCHANGED << cfg, known, rest, iter, values, asked >>

WakeUp == WakeUpNobody \/ \E n \in Node : WakeUpModule(n)

-----------------------------------------------------------------------------
(* next_measure: one operator per way out of the function.                  *)

Halt(n, idx, stop) ==
  /\ iter' = [iter EXCEPT ![n] = Iterator(Begin(n), idx, stop)]
  /\ asked' = [asked EXCEPT ![n] = {}]
  /\ sent' = << HaltFrame(n) >>

Ask_Stays(n, p, idx, stop) ==  \* mutant: a single sensor is not left behind
  /\ iter' = [iter EXCEPT ![n] = Iterator(p, idx, stop)]
  /\ asked' = [asked EXCEPT ![n] = @ \cup {Board(n, p)}]
  /\ sent' = << MeasFrame(n, Board(n, p), Size(n, Board(n, p))) >>

(* Only a board with one sensor is left behind at once.                     *)
Ask(n, p, idx, stop) ==
  LET a == Board(n, p)
      next == IF Size(n, a) = 1 THEN p + 1 ELSE p
  IN
  /\ iter' = [iter EXCEPT ![n] = Iterator(next, idx, stop)]
  /\ asked' = [asked EXCEPT ![n] = @ \cup {a}]
  /\ sent' = << MeasFrame(n, a, Size(n, a)) >>

AtSensor(n) == iter[n].it # End(n) /\ iter[n].it # Null
Several(n)  == AtSensor(n) /\ Size(n, Board(n, iter[n].it)) > 1

HaltAtEnd(n) ==
  /\ iter[n].it = End(n)
  /\ Halt(n, iter[n].idx, iter[n].stop)

AskSingle(n) ==
  /\ AtSensor(n) /\ ~Several(n)
  /\ Ask(n, iter[n].it, iter[n].idx, iter[n].stop)

AskSeveral_NoStop(n) ==  \* mutant: stop is not set
  /\ Several(n)
  /\ iter[n].stop = 0
  /\ Ask(n, iter[n].it, 0, 0)

(* stop = 0: the board was not asked yet.                                   *)
AskSeveral(n) ==
  /\ Several(n)
  /\ iter[n].stop = 0
  /\ Ask(n, iter[n].it, 0, Size(n, Board(n, iter[n].it)) - 1)

SkipMeasure_Unbounded(n) ==  \* mutant: meas_idx is not compared to stop
  /\ Several(n)
  /\ iter[n].stop # 0
  /\ iter' = [iter EXCEPT ![n] = Iterator(@.it + 1, @.idx + 1, @.stop)]
  /\ sent' = << >>
  /\ UNCHANGED asked

(* One result of several is in: wait for the others.                        *)
SkipMeasure(n) ==
  /\ Several(n)
  /\ iter[n].idx < iter[n].stop
  /\ iter' = [iter EXCEPT ![n] = Iterator(@.it + 1, @.idx + 1, @.stop)]
  /\ sent' = << >>
  /\ UNCHANGED asked

LastSkip_Stays(n) ==  \* mutant: the last sensor of the board is looked at again
  /\ Several(n)
  /\ iter[n].stop # 0 /\ iter[n].idx = iter[n].stop
  /\ Ask(n, iter[n].it, 0, 0)

(* The last result is in: the recursive call, which looks at the next       *)
(* position without the test for several sensors.  (idx > stop, where the    *)
(* code would ask again, is ruled out by GatewayTypeOK.)                    *)
LastSkip(n) ==
  /\ Several(n)
  /\ iter[n].stop # 0 /\ iter[n].idx = iter[n].stop
  /\ LET p == iter[n].it + 1 IN
     \/ p = End(n) /\ Halt(n, 0, 0)
     \/ p # End(n) /\ Ask(n, p, 0, 0)

NextMeasure(n) ==
  /\ \/ HaltAtEnd(n) \/ AskSingle(n) \/ AskSeveral(n)
     \/ SkipMeasure(n) \/ LastSkip(n)
  /\ UNCHANGED proc

(* The module was never woken by this process: its iterator is null.        *)
NullIterator(n) ==
  /\ iter[n].it = Null /\ End(n) # Null
  /\ proc' = "crashed"
  /\ sent' = << >>
  /\ UNCHANGED << iter, asked >>

GetNextMeasure(n) == NextMeasure(n) \/ NullIterator(n)

-----------------------------------------------------------------------------
(* Pollux_observer::run, one action per kind of frame.                      *)

RecvInit(n) ==
  /\ proc = "polling"
  /\ \/ n \in known /\ GetNextMeasure(n)
     \/ n \notin known /\ sent' = << >> /\ UNCHANGED << proc, iter, asked >>
  /\ pushed' = << >>
  /\ UNCHANGED << cfg, known, rest, values >>

(* store_measure keeps a value only for a board and register it knows, a    *)
(* sensor that is not an action, and a type it can print.                   *)
Accepted(n, a, r, printable) ==
  /\ r < Size(n, a)
  /\ ~cfg.boards[n][a][r + 1].ignored
  /\ printable

(* The sensor is looked up by its rank among the activated ones.            *)
Labelled(n, a, r, d) ==
  [node |-> n, sensor |-> cfg.boards[n][a][r + 1], data |-> d]

(* sensors_map[node] makes an unknown module known, on either side of the   *)
(* current iterator (an end iterator stays at the end).                     *)
Learn(n) ==
  /\ known' = known \cup {n}
  /\ \/ rest' = rest
     \/ n \notin known /\ rest # {} /\ rest' = rest \cup {n}

RecvMeas(n, a, r, printable, d) ==
  /\ proc = "polling"
  /\ Learn(n)
  /\ IF Accepted(n, a, r, printable)
     THEN /\ Len(values) < MaxValues
          /\ values' = Append(values, Labelled(n, a, r, d))
     ELSE UNCHANGED values
  /\ GetNextMeasure(n)
  /\ pushed' = << >>
  /\ UNCHANGED cfg

RecvHalt_KeepsValues(n) ==  \* mutant: values_list is not cleared
  /\ proc = "polling"
  /\ sent' = << D0Frame(n, "LOW") >>
  /\ pushed' = << [to |-> n, values |-> values] >>
  /\ UNCHANGED << proc, cfg, known, rest, iter, values, asked >>

(* push_data gives every value in store to the plugins, then drops them.    *)
RecvHalt(n) ==
  /\ proc = "polling"
  /\ sent' = << D0Frame(n, "LOW") >>
  /\ pushed' = << [to |-> n, values |-> values] >>
  /\ values' = << >>
  /\ UNCHANGED << proc, cfg, known, rest, iter, asked >>

(* Comments, unknown commands, statuses, replies to AT commands and frames  *)
(* that do not parse: reported on the console only.                         *)
RecvOther ==
  /\ proc = "polling"
  /\ sent' = << >> /\ pushed' = << >>
  /\ UNCHANGED << proc, cfg, known, rest, iter, values, asked >>

GatewayNext ==
  \/ Restart
  \/ BeginFails
  \/ WakeUp
  \/ \E n \in Node : RecvInit(n)
  \/ \E n \in Node, a \in Addr, r \in Reg, printable \in BOOLEAN, d \in Data :
       RecvMeas(n, a, r, printable, d)
  \/ \E n \in Node : RecvHalt(n)
  \/ RecvOther

GatewaySpec == GatewayInit /\ [][GatewayNext]_gatewayVars

-----------------------------------------------------------------------------
(* Layouts.  The theorems and the passing runs name the ones they need.     *)

(* The sensors of a board sit side by side in the vector.                   *)
Contiguous(c, n) ==
  \A i \in DOMAIN c.ordered[n] :
    \E s \in 1 .. i :
      LET size == Len(c.boards[n][c.ordered[n][i].addr]) IN
      /\ s + size - 1 \in i .. Len(c.ordered[n])
      /\ \A j \in DOMAIN c.ordered[n] :
           c.ordered[n][j].addr = c.ordered[n][i].addr
             <=> j \in s .. (s + size - 1)

(* No board with several sensors directly follows another such board.       *)
Spaced(c, n) ==
  \A i \in DOMAIN c.ordered[n] :
    i + 1 \in DOMAIN c.ordered[n] =>
      LET a == c.ordered[n][i].addr
          b == c.ordered[n][i + 1].addr
      IN a # b => Len(c.boards[n][a]) = 1 \/ Len(c.boards[n][b]) = 1

-----------------------------------------------------------------------------
(* Position p is the first one of its board.                                *)
FirstOfBoard(n, p) ==
  \A j \in DOMAIN cfg.ordered[n] : Board(n, j) = Board(n, p) => j >= p

(* An iterator [it |-> p, idx |-> i, stop |-> s] of n keeps its place among  *)
(* the boards A asked so far: behind it everything was asked; between       *)
(* boards it stands on the first sensor of one; inside a board it stands on *)
(* the sensor whose result is due, meas_idx sensors after the first.        *)
Covers(n, p, i, s, A) ==
  /\ \A j \in DOMAIN cfg.ordered[n] : j < p => Board(n, j) \in A
  /\ s = 0 /\ p \in DOMAIN cfg.ordered[n] => FirstOfBoard(n, p)
  /\ s # 0 => /\ p \in DOMAIN cfg.ordered[n]
              /\ Board(n, p) \in A
              /\ s = Size(n, Board(n, p)) - 1
              /\ i < p /\ p - i + s <= Len(cfg.ordered[n])
              /\ \A j \in DOMAIN cfg.ordered[n] :
                   Board(n, j) = Board(n, p) <=> j \in p - i .. p - i + s

(* It asked no board ahead of it.                                           *)
NotAhead(n, p, s, A) ==
  \A a \in A : \E j \in DOMAIN cfg.ordered[n] :
    /\ Board(n, j) = a
    /\ j < p \/ (j = p /\ s # 0)

(* next_measure keeps its place, whatever frames come in.  Inductive        *)
(* together with GatewayTypeOK, for contiguous layouts.                     *)
IteratorsCover ==
  \A n \in Node :
    Covers(n, iter[n].it, iter[n].idx, iter[n].stop, asked[n])

(* Inductive with the two above, for contiguous and spaced layouts.         *)
NothingAskedAhead ==
  \A n \in Node : NotAhead(n, iter[n].it, iter[n].stop, asked[n])

Sends(m) == \E i \in DOMAIN sent' : sent'[i] = m

(* The gateway sends a module to sleep only when every board configured for *)
(* it was asked since the iterator was at the start, whatever frames came   *)
(* in (next_measure).  Needs contiguous layouts.                            *)
HaltAfterAllAsked ==
  [][\A n \in Node : Sends(HaltFrame(n)) => BoardsOf(cfg, n) \subseteq asked[n]]_gatewayVars

(* In one pass over a module no board is asked twice: a second MEAS command *)
(* would make the board's own measure counter and the gateway's index       *)
(* diverge.  Needs contiguous and spaced layouts.                           *)
NoBoardAskedTwice ==
  [][\A n \in Node, a \in Addr :
       Sends(MeasFrame(n, a, Size(n, a))) => a \notin asked[n]]_gatewayVars

(* With exactly one module in sensors.json no frame, of that module or of a *)
(* stranger, makes the process read through an iterator it must not         *)
(* (next_module, next_measure), also if there were none or several before   *)
(* the last restart.                                                        *)
SingleModule == \E n \in Node : ModulesOf(cfg) = {n}
NeverCrashes == SingleModule => proc # "crashed"

-----------------------------------------------------------------------------
(* The promise of Polling.  A board is still to be asked when it was not    *)
(* asked since the iterator was at the start.                               *)
LayoutOf(c) == [n \in Node |-> BoardsOf(c, n)]

AsksIn(frames) ==
  {<< frames[i].to, frames[i].addr >> : i \in {j \in DOMAIN frames : frames[j].cmd = "MEAS"}}
HaltsIn(frames) ==
  {frames[i].to : i \in {j \in DOMAIN frames : frames[j].cmd = "HALT"}}

P == INSTANCE Polling WITH
       Module  <- Node,
       Layouts <- {LayoutOf(c) : c \in Configs},
       Value   <- Value,
       up      <- proc \in {"starting", "polling"},
       boards  <- LayoutOf(cfg),
       todo    <- [n \in Node |-> BoardsOf(cfg, n) \ asked[n]],
       store   <- values,
       asks    <- AsksIn(sent),
       halts   <- HaltsIn(sent),
       given   <- pushed

(* Whatever frames come in, and whenever the process stops and starts, the  *)
(* gateway does what Polling allows and nothing else: next_measure,         *)
(* store_measure and push_data keep the boards still to ask and the values  *)
(* still to push apart.  Needs contiguous and spaced layouts.               *)
KeepsPolling == P!Spec
=============================================================================
