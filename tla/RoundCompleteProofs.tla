------------------------ MODULE RoundCompleteProofs ------------------------
(***************************************************************************)
(* What TLAPS proves of an undisturbed network: every push hands over      *)
(* exactly one value of each sensor of the module that went to sleep, and  *)
(* no other value.  The two programs share no clock and no counter: that   *)
(* the gateway's halt, the firmware's measure loop and the radio's pulses  *)
(* follow each other without a gap is the invariant of this module.        *)
(***************************************************************************)
EXTENDS RoundProofs, FiniteSetTheorems

(* Both tables name the same sensors, as load_sensors fills them, and no    *)
(* register of a board twice.                                               *)
TablesAgree ==
  \A c \in Configs, n \in Node :
    /\ \A i \in DOMAIN c.ordered[n] :
         \E k \in DOMAIN c.boards[n][c.ordered[n][i].addr] :
           c.ordered[n][i] = c.boards[n][c.ordered[n][i].addr][k]
    /\ \A a \in Addr : \A k \in DOMAIN c.boards[n][a] :
         /\ c.boards[n][a][k].addr = a
         /\ \E i \in DOMAIN c.ordered[n] : c.ordered[n][i] = c.boards[n][a][k]
         /\ \A l \in DOMAIN c.boards[n][a] :
              c.boards[n][a][k].reg = c.boards[n][a][l].reg => k = l

(* Every configured board is on the bus of its module.                      *)
BoardsFitted == \A c \in Configs, n \in Node : BoardsOf(c, n) \subseteq Fitted[n]

-----------------------------------------------------------------------------
(* The gateway's side of a round.                                           *)

(* Nothing was asked of n yet.                                              *)
Fresh(n) ==
  /\ iter[n] = Iterator(Begin(n), 0, 0)
  /\ asked[n] = {}
  /\ values = << >>

(* Sensor number q of board a.                                              *)
Entry(n, a, q) == cfg.boards[n][a][q + 1]

(* The sensors whose results are in when those of the boards A are, of      *)
(* board b the first r only.                                                *)
Heard(n, A, b, r) ==
  {s \in Sensor : /\ ~s.ignored
                  /\ \E a \in A, q \in Nat : /\ q < Size(n, a) /\ (a = b => q < r)
                                             /\ s = Entry(n, a, q)}

(* vs holds one value of each sensor of S and no other, all of module n.    *)
OneEach(vs, n, S) ==
  /\ S = {vs[j].sensor : j \in DOMAIN vs}
  /\ IsFiniteSet(S) /\ Len(vs) = Cardinality(S)
  /\ \A j \in DOMAIN vs : vs[j].node = n

(* The gateway waits for result r of board b.                               *)
Expects(n, b, r) ==
  /\ b \in asked[n] /\ b \in BoardsOf(cfg, n) /\ r < Size(n, b)
  /\ \/ Size(n, b) = 1 /\ iter[n].stop = 0
     \/ /\ Size(n, b) > 1
        /\ iter[n].stop = Size(n, b) - 1 /\ iter[n].idx = r
        /\ Board(n, iter[n].it) = b

(* It has those before.                                                     *)
Awaits(n, b, r) ==
  /\ Expects(n, b, r)
  /\ OneEach(values, n, Heard(n, asked[n], b, r))

(* It has them all.                                                         *)
Done(n) == OneEach(values, n, Reporting(n))

-----------------------------------------------------------------------------
(* The line between the radio and the firmware: cs, none or one command, is *)
(* in the air or in the inbox, behind the status of the last transmission.  *)
ReadsStatus(n) == fw[n].pc \in {"wake_up_status", "measure_status", "halt_status"}

PacketOf(f) ==
  IF f.cmd = "MEAS" THEN MeasCommand(f.addr, f.nb) ELSE HaltCommand
Packets(cs) == IF cs = << >> THEN << >> ELSE << PacketOf(cs[1]) >>

Line(n, cs) ==
  /\ statusDue[n] = 0 \/ (statusDue[n] = 1 /\ ReadsStatus(n) /\ inbox[n] = << >>)
  /\ \/ air[n] = cs /\ (statusDue[n] = 0 =>
           inbox[n] = IF ReadsStatus(n) THEN << Notice >> ELSE << >>)
     \/ /\ air[n] = << >> /\ statusDue[n] = 0 /\ cs # << >>
        /\ inbox[n] = IF ReadsStatus(n) THEN << Notice, PacketOf(cs[1]) >>
                                        ELSE << PacketOf(cs[1]) >>

(* The firmware takes the next command as soon as it is there.              *)
Ready(n) ==
  \/ fw[n].pc \in {"wake_up_status", "wait_for_command"}
  \/ fw[n].pc = "measure_status" /\ fw[n].i + 1 = fw[n].nb
  \/ fw[n].pc = "do_measure" /\ fw[n].i = fw[n].nb

Waking(n) ==
  /\ Fresh(n) /\ up[n] = << >> /\ inbox[n] = << >> /\ statusDue[n] = 0
  /\ \/ At(n, "off")
        /\ air[n] = << D0Frame(n, "HIGH"), D0Frame(n, "LOW"), D0Frame(n, "HIGH") >>
     \/ At(n, "drain") /\ air[n] = << D0Frame(n, "LOW"), D0Frame(n, "HIGH") >>
     \/ At(n, "off") /\ air[n] = << D0Frame(n, "HIGH") >>
     \/ fw[n].pc \in {"drain", "send_wake_up"} /\ air[n] = << >>

Announced(n) ==
  /\ Fresh(n) /\ up[n] = << InitFrame >> /\ Line(n, << >>)
  /\ fw[n].pc \in {"wake_up_status", "wait_for_command"}

Commanded(n, b) ==
  /\ Awaits(n, b, 0) /\ up[n] = << >> /\ Ready(n)
  /\ Line(n, << MeasFrame(n, b, Size(n, b)) >>)

(* The firmware sent t results of board b, of which r arrived.              *)
Results(n, b, r, t) ==
  /\ Len(up[n]) = t - r
  /\ \A j \in 1 .. t - r :
       up[n][j].cmd = "MEAS" /\ up[n][j].addr = b /\ up[n][j].reg = r + j - 1

Measures(n, b, t) ==
  \/ /\ fw[n].pc = "do_measure" /\ fw[n].i = t
     /\ fw[n].addr = b /\ fw[n].nb = Size(n, b)
  \/ /\ fw[n].pc = "measure_status" /\ fw[n].i + 1 = t
     /\ fw[n].addr = b /\ fw[n].nb = Size(n, b)
  \/ fw[n].pc = "wait_for_command" /\ t = Size(n, b)

Answering(n, b, r, t) ==
  /\ Awaits(n, b, r) /\ r <= t /\ t <= Size(n, b) /\ Line(n, << >>)
  /\ Measures(n, b, t)
  /\ Results(n, b, r, t)

Closing(n) ==
  /\ Done(n) /\ up[n] = << >> /\ Ready(n) /\ Line(n, << HaltFrame(n) >>)

Halting(n) ==
  /\ Done(n) /\ up[n] = << >> /\ At(n, "halt") /\ Line(n, << >>)

Reported(n) ==
  /\ Done(n) /\ up[n] = << HaltReply >> /\ Line(n, << >>)
  /\ fw[n].pc \in {"halt_status", "drain"}

Sleeping(n) ==
  /\ values = << >> /\ up[n] = << >>
  /\ air[n] = << D0Frame(n, "LOW") >> /\ Line(n, << D0Frame(n, "LOW") >>)
  /\ fw[n].pc \in {"halt_status", "drain"}

InRound(n) ==
  \/ Waking(n) \/ Announced(n)
  \/ \E b \in Addr : Commanded(n, b)
  \/ \E b \in Addr, r \in Nat, t \in Nat : Answering(n, b, r, t)
  \/ Closing(n) \/ Halting(n) \/ Reported(n) \/ Sleeping(n)

Asleep(n) == At(n, "off") /\ Quiet(n)

(* Every module sleeps and the store is empty, or one module is at a        *)
(* definite place of its round and the others sleep.                        *)
OneRound ==
  \/ values = << >> /\ \A m \in Node : Asleep(m)
  \/ /\ proc = "polling"
     /\ \E n \in ModulesOf(cfg) :
          InRound(n) /\ \A m \in Node \ {n} : Asleep(m)

(* RoundComplete and PushesOwnValues, of the push this step made.           *)
PushWhole ==
  \A i \in DOMAIN pushed : OneEach(pushed[i].values, pushed[i].to, Reporting(pushed[i].to))

RoundInv == known = ModulesOf(cfg) /\ OneRound /\ PushWhole

CalmInv == Undisturbed => RoundInv

-----------------------------------------------------------------------------
(* The sensors of a board are told apart, by board and by register.         *)
LEMMA Entries ==
  ASSUME TablesAgree, cfg \in Configs, NEW n \in Node, NEW a \in Addr
  PROVE  /\ Size(n, a) \in Nat
         /\ \A q \in Nat : q < Size(n, a) =>
              /\ Entry(n, a, q) \in Sensor /\ Entry(n, a, q).addr = a
              /\ \E i \in DOMAIN cfg.ordered[n] : cfg.ordered[n][i] = Entry(n, a, q)
              /\ \A l \in Nat : l < Size(n, a) /\ Entry(n, a, q) = Entry(n, a, l) => q = l
<1> DEFINE board == cfg.boards[n][a]
<1>1. board \in Seq(Sensor) /\ Size(n, a) \in Nat /\ DOMAIN board = 1 .. Size(n, a)
  BY TablesOfModule DEF Size
<1>2. \A q \in Nat : q < Size(n, a) => q + 1 \in DOMAIN board
  BY <1>1
<1>3. \A k \in DOMAIN board :
        /\ board[k] \in Sensor /\ board[k].addr = a
        /\ \E i \in DOMAIN cfg.ordered[n] : cfg.ordered[n][i] = board[k]
        /\ \A l \in DOMAIN board : board[k] = board[l] => k = l
  BY <1>1 DEF TablesAgree
<1> HIDE DEF board
<1>4. \A q \in Nat : Entry(n, a, q) = board[q + 1]
  BY DEF Entry, board
<1>5. ASSUME NEW q \in Nat, q < Size(n, a)
      PROVE  /\ Entry(n, a, q) \in Sensor /\ Entry(n, a, q).addr = a
             /\ \E i \in DOMAIN cfg.ordered[n] : cfg.ordered[n][i] = Entry(n, a, q)
  BY <1>2, <1>3, <1>4, <1>5
<1>6. ASSUME NEW q \in Nat, q < Size(n, a), NEW l \in Nat, l < Size(n, a),
             Entry(n, a, q) = Entry(n, a, l)
      PROVE  q = l
  <2>1. q + 1 \in DOMAIN board /\ l + 1 \in DOMAIN board /\ board[q + 1] = board[l + 1]
    BY <1>2, <1>4, <1>6
  <2>2. q + 1 = l + 1
    BY <1>3, <2>1
  <2> QED BY <2>2
<1> QED BY <1>1, <1>5, <1>6

(* One more result: the sensor is a new one, unless it is an action.        *)
LEMMA HeardOne ==
  ASSUME TablesAgree, cfg \in Configs, NEW n \in Node, NEW A \in SUBSET Addr, NEW b \in A,
         NEW r \in Nat, r < Size(n, b)
  PROVE  /\ Entry(n, b, r) \notin Heard(n, A, b, r)
         /\ Entry(n, b, r).ignored => Heard(n, A, b, r + 1) = Heard(n, A, b, r)
         /\ ~Entry(n, b, r).ignored =>
              Heard(n, A, b, r + 1) = Heard(n, A, b, r) \cup {Entry(n, b, r)}
<1>1. \A a \in A, q \in Nat : q < Size(n, a) =>
        /\ Entry(n, a, q) \in Sensor
        /\ Entry(n, a, q) = Entry(n, b, r) => a = b /\ q = r
  BY Entries
<1>2. \A q \in Nat : q < r + 1 <=> q < r \/ q = r
  OBVIOUS
<1>3. Entry(n, b, r) \notin Heard(n, A, b, r)
  BY <1>1 DEF Heard
<1>4. Heard(n, A, b, r) \subseteq Heard(n, A, b, r + 1)
  BY DEF Heard
<1>5. \A s \in Heard(n, A, b, r + 1) : s \in Heard(n, A, b, r) \/ s = Entry(n, b, r)
  BY <1>2 DEF Heard
<1>6. ~Entry(n, b, r).ignored => Entry(n, b, r) \in Heard(n, A, b, r + 1)
  BY <1>1, <1>2 DEF Heard
<1>7. Entry(n, b, r).ignored => Entry(n, b, r) \notin Heard(n, A, b, r + 1)
  BY DEF Heard
<1> QED BY <1>3, <1>4, <1>5, <1>6, <1>7

(* A board asked for the first time adds nothing to what was heard.         *)
LEMMA HeardAsk ==
  ASSUME TablesAgree, cfg \in Configs, NEW n \in Node, NEW A \in SUBSET Addr, NEW b \in A,
         NEW c \in Addr, c \notin A
  PROVE  Heard(n, A \cup {c}, c, 0) = Heard(n, A, b, Size(n, b))
<1>1. \A q \in Nat : ~(q < 0)
  OBVIOUS
<1> QED BY <1>1 DEF Heard

LEMMA HeardNone ==
  ASSUME NEW n \in Node, NEW c \in Addr
  PROVE  Heard(n, {} \cup {c}, c, 0) = {}
<1>1. \A q \in Nat : ~(q < 0)
  OBVIOUS
<1> QED BY <1>1 DEF Heard

(* When all boards were heard, so was every sensor that reports.            *)
LEMMA HeardAll ==
  ASSUME TablesAgree, cfg \in Configs, NEW n \in Node, NEW b \in Addr
  PROVE  Heard(n, BoardsOf(cfg, n), b, Size(n, b)) = Reporting(n)
<1> DEFINE A == BoardsOf(cfg, n)
<1>1. A \subseteq Addr
  BY TablesOfModule DEF BoardsOf
<1>2. ASSUME NEW s \in Heard(n, A, b, Size(n, b)) PROVE s \in Reporting(n)
  <2>1. PICK a \in A, q \in Nat : q < Size(n, a) /\ s = Entry(n, a, q)
    BY DEF Heard
  <2>2. PICK i \in DOMAIN cfg.ordered[n] : cfg.ordered[n][i] = s
    BY <1>1, <2>1, Entries
  <2>3. ~s.ignored
    BY DEF Heard
  <2> QED BY <2>2, <2>3 DEF Reporting
<1>3. ASSUME NEW s \in Reporting(n) PROVE s \in Heard(n, A, b, Size(n, b))
  <2>1. PICK i \in DOMAIN cfg.ordered[n] :
          ~cfg.ordered[n][i].ignored /\ s = cfg.ordered[n][i]
    BY DEF Reporting
  <2> DEFINE a == s.addr
  <2>2. a \in A /\ s \in Sensor
    BY <2>1, TablesOfModule DEF BoardsOf
  <2>3. PICK k \in DOMAIN cfg.boards[n][a] : s = cfg.boards[n][a][k]
    BY <2>1 DEF TablesAgree
  <2>4. a \in Addr
    BY <1>1, <2>2
  <2>5. k \in 1 .. Size(n, a) /\ Size(n, a) \in Nat
    BY <2>3, <2>4, TablesOfModule DEF Size
  <2>6. k - 1 \in Nat /\ k - 1 < Size(n, a) /\ (k - 1) + 1 = k
    BY <2>5
  <2>7. s = Entry(n, a, k - 1)
    BY <2>3, <2>6 DEF Entry
  <2>8. a = b => k - 1 < Size(n, b)
    BY <2>6
  <2> QED BY <2>1, <2>2, <2>6, <2>7, <2>8 DEF Heard
<1> QED BY <1>2, <1>3

(* The store grows by one value of a sensor it had none of.                 *)
LEMMA OneMore ==
  ASSUME NEW vs \in Seq(Value), NEW n, NEW S, OneEach(vs, n, S),
         NEW v \in Value, v.node = n, v.sensor \notin S
  PROVE  OneEach(Append(vs, v), n, S \cup {v.sensor})
<1> DEFINE ws == Append(vs, v)
<1>1. /\ Len(vs) \in Nat /\ DOMAIN vs = 1 .. Len(vs) /\ Len(ws) = Len(vs) + 1
      /\ DOMAIN ws = 1 .. Len(vs) + 1
      /\ \A j \in 1 .. Len(vs) : ws[j] = vs[j]
      /\ ws[Len(vs) + 1] = v
  BY AppendProperties
<1> HIDE DEF ws
<1>2. \A j \in DOMAIN ws : j \in DOMAIN vs \/ j = Len(vs) + 1
  BY <1>1
<1>3. \A j \in DOMAIN vs : j \in DOMAIN ws
  BY <1>1
<1>4. Len(vs) + 1 \in DOMAIN ws
  BY <1>1
<1>5. S \cup {v.sensor} = {ws[j].sensor : j \in DOMAIN ws}
  <2>1. \A x \in S : \E j \in DOMAIN ws : x = ws[j].sensor
    BY <1>1, <1>3 DEF OneEach
  <2>2. \A j \in DOMAIN ws : ws[j].sensor \in S \/ ws[j].sensor = v.sensor
    BY <1>1, <1>2 DEF OneEach
  <2> QED BY <1>1, <1>4, <2>1, <2>2
<1>6. IsFiniteSet(S \cup {v.sensor}) /\ Cardinality(S \cup {v.sensor}) = Cardinality(S) + 1
  BY FS_AddElement DEF OneEach
<1>7. Len(ws) = Cardinality(S \cup {v.sensor})
  BY <1>1, <1>6 DEF OneEach
<1>8. \A j \in DOMAIN ws : ws[j].node = n
  BY <1>1, <1>2 DEF OneEach
<1> QED BY <1>5, <1>6, <1>7, <1>8 DEF OneEach, ws

LEMMA NoneYet == \A n : OneEach(<< >>, n, {})
BY FS_EmptySet DEF OneEach

-----------------------------------------------------------------------------
(* next_measure, called when a result is due.                               *)
LEMMA AskDue ==
  ASSUME GatewayTypeOK, cfg' = cfg, NEW n \in Node, NEW p \in DOMAIN cfg.ordered[n],
         NEW i \in Nat, NEW s \in Nat, Ask(n, p, i, s),
         \/ Size(n, Board(n, p)) = 1 /\ s = 0
         \/ Size(n, Board(n, p)) > 1 /\ i = 0 /\ s = Size(n, Board(n, p)) - 1
  PROVE  \E c \in BoardsOf(cfg, n) :
           /\ sent' = << MeasFrame(n, c, Size(n, c)) >>
           /\ asked'[n] = asked[n] \cup {c}
           /\ Expects(n, c, 0)'
<1>0. PICK c : c = Board(n, p)
  OBVIOUS
<1> DEFINE k == Size(n, c)
           q == IF k = 1 THEN p + 1 ELSE p
<1>1. c \in BoardsOf(cfg, n) /\ k \in Nat /\ k > 0
  BY <1>0, TablesOfModule DEF GatewayTypeOK, Board, Size, BoardsOf
<1>2. /\ iter'[n] = Iterator(q, i, s) /\ asked'[n] = asked[n] \cup {c}
      /\ sent' = << MeasFrame(n, c, k) >>
  BY <1>0 DEF Ask, GatewayTypeOK
<1>3. iter'[n].it = q /\ iter'[n].idx = i /\ iter'[n].stop = s
  BY <1>2 DEF Iterator
<1>4. Size(n, c)' = k /\ BoardsOf(cfg', n) = BoardsOf(cfg, n)
  BY DEF Size
<1>5. k > 1 => Board(n, iter[n].it)' = c
  BY <1>0, <1>3 DEF Board
<1>6. Expects(n, c, 0)'
  <2>1. \/ k = 1 /\ iter'[n].stop = 0
        \/ k > 1 /\ iter'[n].stop = k - 1 /\ iter'[n].idx = 0
    BY <1>0, <1>3
  <2> HIDE DEF k
  <2> QED BY <1>1, <1>2, <1>4, <1>5, <2>1 DEF Expects
<1> QED BY <1>1, <1>2, <1>6

(* The first frame of a module that was just woken.                         *)
LEMMA FreshAnswer ==
  ASSUME GatewayTypeOK, cfg' = cfg, NEW n \in ModulesOf(cfg), Fresh(n), GetNextMeasure(n)
  PROVE  /\ proc' = proc
         /\ \E c \in BoardsOf(cfg, n) :
              /\ sent' = << MeasFrame(n, c, Size(n, c)) >>
              /\ asked'[n] = {c}
              /\ Expects(n, c, 0)'
<1>1. n \in Node /\ cfg \in Configs /\ cfg.ordered[n] # << >>
  BY DEF ModulesOf, GatewayTypeOK
<1>2. iter[n].it = 1 /\ iter[n].idx = 0 /\ iter[n].stop = 0 /\ asked[n] = {}
  BY <1>1 DEF Fresh, Begin, Iterator
<1>3. /\ Len(cfg.ordered[n]) \in Nat /\ Len(cfg.ordered[n]) > 0
      /\ DOMAIN cfg.ordered[n] = 1 .. Len(cfg.ordered[n])
  BY <1>1, TablesOfModule
<1>4. 1 \in DOMAIN cfg.ordered[n] /\ End(n) # 1 /\ 1 # Null
  BY <1>1, <1>3 DEF End, Null
<1> DEFINE k == Size(n, Board(n, 1))
<1>5. k \in Nat /\ k > 0
  BY <1>1, <1>4, TablesOfModule DEF Board, Size
<1>6. CASE AskSingle(n)
  <2>1. Ask(n, 1, 0, 0) /\ k = 1
    BY <1>2, <1>4, <1>5, <1>6 DEF AskSingle, Several
  <2>2. proc' = proc
    BY <1>2, <1>4 DEF GetNextMeasure, NextMeasure, NullIterator
  <2> QED BY <1>1, <1>2, <1>4, <2>1, <2>2, AskDue
<1>7. CASE AskSeveral(n)
  <2>1. Ask(n, 1, 0, k - 1) /\ k > 1 /\ k - 1 \in Nat
    BY <1>2, <1>5, <1>7 DEF AskSeveral, Several
  <2>2. proc' = proc
    BY <1>2, <1>4 DEF GetNextMeasure, NextMeasure, NullIterator
  <2> HIDE DEF k
  <2>3. \E c \in BoardsOf(cfg, n) : /\ sent' = << MeasFrame(n, c, Size(n, c)) >>
                                   /\ asked'[n] = asked[n] \cup {c}
                                   /\ Expects(n, c, 0)'
    BY <1>1, <1>4, <2>1, AskDue DEF k
  <2> QED BY <1>2, <2>2, <2>3
<1>8. ~HaltAtEnd(n) /\ ~NullIterator(n) /\ ~SkipMeasure(n) /\ ~LastSkip(n)
  BY <1>2, <1>4 DEF HaltAtEnd, NullIterator, SkipMeasure, LastSkip
<1> QED BY <1>6, <1>7, <1>8 DEF GetNextMeasure, NextMeasure

(* Every other result: the gateway waits for the next one of the board,     *)
(* asks another board, or has asked all of them.                            *)
LEMMA DueAnswer ==
  ASSUME GatewayTypeOK, AllContiguous, AllSpaced, IteratorsCover, NothingAskedAhead,
         cfg' = cfg, NEW n \in ModulesOf(cfg), NEW b \in Addr, NEW r \in Nat, Expects(n, b, r),
         GetNextMeasure(n)
  PROVE  /\ proc' = proc
         /\ \/ /\ r + 1 < Size(n, b) /\ sent' = << >> /\ asked' = asked
               /\ Expects(n, b, r + 1)'
            \/ /\ r + 1 = Size(n, b) /\ sent' = << HaltFrame(n) >>
               /\ BoardsOf(cfg, n) \subseteq asked[n]
            \/ /\ r + 1 = Size(n, b)
               /\ \E c \in BoardsOf(cfg, n) \ asked[n] :
                    /\ sent' = << MeasFrame(n, c, Size(n, c)) >>
                    /\ asked'[n] = asked[n] \cup {c}
                    /\ Expects(n, c, 0)'
<1> DEFINE p == iter[n].it
           i == iter[n].idx
           s == iter[n].stop
           k == Size(n, b)
           L == Len(cfg.ordered[n])
           Asks == \E c \in BoardsOf(cfg, n) \ asked[n] :
                     /\ sent' = << MeasFrame(n, c, Size(n, c)) >>
                     /\ asked'[n] = asked[n] \cup {c}
                     /\ Expects(n, c, 0)'
<1>0. n \in Node /\ cfg \in Configs
  BY DEF ModulesOf, GatewayTypeOK
<1>1. /\ p \in Nat /\ i \in Nat /\ s \in Nat /\ p <= End(n) /\ i <= s
      /\ L \in Nat /\ DOMAIN cfg.ordered[n] = 1 .. L
      /\ cfg.ordered[n] # << >>
  BY <1>0, TablesOfModule DEF GatewayTypeOK, ModulesOf
<1>2. Covers(n, p, i, s, asked[n]) /\ NotAhead(n, p, s, asked[n])
  BY <1>0 DEF IteratorsCover, NothingAskedAhead
<1>3. AtSensor(n) => p \in 1 .. L
  BY <1>0, <1>1, Positions DEF AtSensor
<1>4. ASSUME NEW j \in 1 .. L PROVE Size(n, Board(n, j)) \in Nat \ {0}
  <2>1. j \in DOMAIN cfg.ordered[n]
    BY <1>1
  <2>2. Size(n, Board(n, j)) \in Nat /\ Size(n, Board(n, j)) > 0
    BY <1>0, <2>1, TablesOfModule DEF Board, Size
  <2> QED BY <2>2
<1>5. s # 0 => p \in 1 .. L /\ Several(n)
  <2>1. ASSUME s # 0 PROVE p \in 1 .. L /\ Size(n, Board(n, p)) > 1
    BY <1>1, <1>2, <1>4, <2>1 DEF Covers
  <2>2. \A q \in 1 .. L : q # End(n) /\ q # Null
    BY <1>1 DEF End, Null
  <2> QED BY <2>1, <2>2 DEF Several, AtSensor
<1>6. p # Null
  <2>1. PICK j \in 1 .. L : j < p \/ (j = p /\ s # 0)
    BY <1>1, <1>2 DEF Expects, NotAhead
  <2> QED BY <1>1, <2>1 DEF Null
<1>7. k \in Nat /\ r < k /\ (s = 0 => k = 1) /\ (s # 0 => k = s + 1 /\ i = r)
  <2>1. k \in Nat
    BY <1>0, TablesOfModule DEF Size
  <2> QED BY <2>1 DEF Expects
<1>8. s = 0 => r + 1 = k
  BY <1>7
<1>9. FreshSends /\ (Sends(HaltFrame(n)) => BoardsOf(cfg, n) \subseteq asked[n])
  BY <1>0, CoverNextMeasure, FreshNextMeasure
<1>10. proc' = proc /\ NextMeasure(n)
  BY <1>6 DEF GetNextMeasure, NextMeasure, NullIterator
<1>11. ASSUME NEW j, NEW t, Halt(n, j, t)
       PROVE  sent' = << HaltFrame(n) >> /\ BoardsOf(cfg, n) \subseteq asked[n]
  BY <1>9, <1>11 DEF Halt, Sends
<1>12. ASSUME NEW q \in 1 .. L, NEW j \in Nat, NEW t \in Nat, Ask(n, q, j, t),
              \/ Size(n, Board(n, q)) = 1 /\ t = 0
              \/ Size(n, Board(n, q)) > 1 /\ j = 0 /\ t = Size(n, Board(n, q)) - 1
       PROVE  Asks
  <2>1. PICK c \in BoardsOf(cfg, n) : /\ sent' = << MeasFrame(n, c, Size(n, c)) >>
                                     /\ asked'[n] = asked[n] \cup {c}
                                     /\ Expects(n, c, 0)'
    BY <1>0, <1>1, <1>12, AskDue
  <2>2. c \in Addr
    BY <1>0, TablesOfModule DEF BoardsOf
  <2>3. Sends(MeasFrame(n, c, Size(n, c)))
    BY <2>1 DEF Sends
  <2> QED BY <1>0, <1>9, <2>1, <2>2, <2>3 DEF FreshSends
<1>13. CASE HaltAtEnd(n)
  <2>1. s = 0
    BY <1>5, <1>13 DEF HaltAtEnd, Several, AtSensor
  <2> QED BY <1>8, <1>10, <1>11, <1>13, <2>1 DEF HaltAtEnd
<1>14. CASE AskSingle(n)
  <2>1. s = 0 /\ p \in 1 .. L
    BY <1>3, <1>5, <1>14 DEF AskSingle
  <2>2. Size(n, Board(n, p)) = 1
    BY <1>4, <1>14, <2>1 DEF AskSingle, Several
  <2>3. Ask(n, p, i, s)
    BY <1>14 DEF AskSingle
  <2>4. Asks
    <3> HIDE DEF p, i, s, Asks, L
    <3> QED BY <1>1, <1>12, <2>1, <2>2, <2>3
  <2> QED BY <1>8, <1>10, <2>1, <2>4
<1>15. CASE AskSeveral(n)
  <2> DEFINE l == Size(n, Board(n, p))
  <2>1. s = 0 /\ p \in 1 .. L /\ l > 1
    BY <1>3, <1>15 DEF AskSeveral, Several
  <2>2. l - 1 \in Nat /\ Ask(n, p, 0, l - 1)
    BY <1>4, <1>15, <2>1 DEF AskSeveral
  <2>3. Asks
    <3> HIDE DEF p, i, s, Asks, L
    <3> QED BY <1>12, <2>1, <2>2
  <2> QED BY <1>8, <1>10, <2>1, <2>3
<1>16. CASE SkipMeasure(n)
  <2>1. i < s /\ i = r /\ k = s + 1 /\ s # 0 /\ p \in 1 .. L
    BY <1>1, <1>5, <1>7, <1>16 DEF SkipMeasure
  <2>2. Board(n, p) = b /\ k > 1
    BY <2>1 DEF Expects
  <2>3. p + 1 \in 1 .. L /\ Board(n, p + 1) = b
    <3>1. /\ p - i + s <= L
          /\ \A j \in 1 .. L : Board(n, j) = Board(n, p) <=> j \in p - i .. p - i + s
      BY <1>1, <1>2, <2>1 DEF Covers
    <3>2. p + 1 \in 1 .. L /\ p + 1 \in p - i .. p - i + s
      <4>1. p \in Nat /\ i \in Nat /\ s \in Nat /\ L \in Nat
        BY <1>1
      <4>2. 1 <= p /\ p <= L /\ i < s
        BY <2>1
      <4> HIDE DEF p, i, s, L
      <4> QED BY <4>1, <4>2, <3>1
    <3> HIDE DEF p, i, s, L
    <3> QED BY <2>2, <3>1, <3>2
  <2>4. iter'[n] = Iterator(p + 1, i + 1, s) /\ sent' = << >> /\ asked' = asked
    BY <1>0, <1>16 DEF SkipMeasure, GatewayTypeOK
  <2>5. iter'[n].it = p + 1 /\ iter'[n].idx = r + 1 /\ iter'[n].stop = s
    BY <2>1, <2>4 DEF Iterator
  <2>6. Size(n, b)' = k /\ Board(n, iter[n].it)' = b /\ BoardsOf(cfg', n) = BoardsOf(cfg, n)
    BY <2>3, <2>5 DEF Size, Board
  <2>7. r + 1 < k /\ s = k - 1
    BY <1>1, <2>1
  <2>8. b \in asked[n] /\ b \in BoardsOf(cfg, n)
    BY DEF Expects
  <2>9. Expects(n, b, r + 1)'
    <3> HIDE DEF p, i, s, k
    <3> QED BY <2>2, <2>4, <2>5, <2>6, <2>7, <2>8 DEF Expects
  <2> QED BY <1>10, <2>4, <2>7, <2>9
<1>17. CASE LastSkip(n)
  <2> DEFINE q == p + 1
  <2>1. s # 0 /\ i = s /\ p \in 1 .. L /\ r + 1 = k /\ Board(n, p) = b /\ k > 1
    BY <1>5, <1>7, <1>17 DEF LastSkip, Expects
  <2>2. q = End(n) \/ q \in 1 .. L
    BY <1>1, <2>1 DEF End
  <2>3. ASSUME q \in 1 .. L PROVE Size(n, Board(n, q)) = 1
    <3>1. Covers(n, p, s, s, asked[n])
      BY <1>2, <2>1
    <3>2. /\ p \in DOMAIN cfg.ordered[n] /\ p + 1 \in DOMAIN cfg.ordered[n]
          /\ \A j \in 1 .. L : Board(n, j) = Board(n, p) <=> j \in p - s .. p - s + s
      BY <1>1, <2>1, <2>3, <3>1 DEF Covers
    <3>3. Board(n, p + 1) # Board(n, p)
      BY <1>1, <2>3, <3>2
    <3>4. Spaced(cfg, n)
      BY <1>0 DEF AllSpaced
    <3>5. Size(n, Board(n, p)) = 1 \/ Size(n, Board(n, p + 1)) = 1
      BY <3>2, <3>3, <3>4 DEF Spaced, Size, Board
    <3> QED BY <2>1, <3>5
  <2>4. \/ q = End(n) /\ Halt(n, 0, 0)
        \/ q # End(n) /\ Ask(n, q, 0, 0)
    BY <1>17 DEF LastSkip
  <2>5. Asks \/ (sent' = << HaltFrame(n) >> /\ BoardsOf(cfg, n) \subseteq asked[n])
    <3> HIDE DEF q, Asks, L
    <3> QED BY <1>11, <1>12, <2>2, <2>3, <2>4
  <2> QED BY <1>10, <2>1, <2>5
<1> QED BY <1>10, <1>13, <1>14, <1>15, <1>16, <1>17 DEF NextMeasure

-----------------------------------------------------------------------------
(* The line of module n under the steps of the radio and the firmware.      *)

(* At most one command for the firmware.                                    *)
OneCommand(cs) == cs = << >> \/ \E f : cs = << f >> /\ f.cmd \in {"MEAS", "HALT"}

LEMMA LineReport ==
  ASSUME ModuleTypeOK, NEW n \in Node, NEW cs, Line(n, cs), ~At(n, "off"),
         ReportStatus(n), air' = air
  PROVE  Line(n, cs)'
<1>1. statusDue[n] = 1 /\ ReadsStatus(n) /\ inbox[n] = << >> /\ air[n] = cs
  BY DEF Line, ReportStatus, ModuleTypeOK
<1>2. statusDue'[n] = 0 /\ fw' = fw /\ inbox'[n] = Append(<< >>, Notice)
  BY <1>1 DEF ReportStatus, Enqueue, ModuleTypeOK
<1>3. inbox'[n] = << Notice >>
  BY <1>2
<1> QED BY <1>1, <1>2, <1>3 DEF Line, ReadsStatus

LEMMA LineDeliver ==
  ASSUME ModuleTypeOK, AirType, Timely, NEW n \in Node, NEW cs, OneCommand(cs), Line(n, cs),
         ~At(n, "off"), RadioDelivers(n)
  PROVE  Line(n, cs)' /\ UNCHANGED << fw, up, glitches >>
<1>1. air[n] # << >> /\ statusDue[n] = 0
  BY DEF RadioDelivers
<1>2. air[n] = cs /\ inbox[n] = IF ReadsStatus(n) THEN << Notice >> ELSE << >>
  BY <1>1 DEF Line
<1>3. PICK f : cs = << f >> /\ f.cmd \in {"MEAS", "HALT"}
  BY <1>1, <1>2 DEF OneCommand
<1>4. Head(air[n]) = f /\ Tail(air[n]) = << >>
  BY <1>2, <1>3
<1>5. Deliver(n, PacketOf(f))
  BY <1>3, <1>4 DEF RadioDelivers, PacketOf
<1>6. air'[n] = << >>
  BY <1>4 DEF RadioDelivers, AirType
<1>7. /\ inbox'[n] = Append(inbox[n], PacketOf(f))
      /\ UNCHANGED << fw, statusDue, up, glitches >>
  BY <1>5 DEF Deliver, Enqueue, ModuleTypeOK
<1>8. inbox'[n] = IF ReadsStatus(n) THEN << Notice, PacketOf(f) >> ELSE << PacketOf(f) >>
  BY <1>2, <1>7
<1>9. cs # << >> /\ cs[1] = f
  BY <1>3
<1> QED BY <1>1, <1>6, <1>7, <1>8, <1>9 DEF Line, ReadsStatus

LEMMA LineRead ==
  ASSUME ModuleTypeOK, NEW n \in Node, NEW cs, Line(n, cs), StatusRead(n), air' = air
  PROVE  /\ Line(n, cs)' /\ up' = up
         /\ At(n, "wake_up_status") => fw'[n].pc = "wait_for_command"
         /\ At(n, "measure_status") => fw'[n] = DoMeasure(fw[n].addr, fw[n].i + 1, fw[n].nb)
         /\ At(n, "halt_status") => fw'[n].pc = "drain"
<1>1. ReadsStatus(n) /\ inbox[n] # << >> /\ inbox'[n] = Tail(inbox[n])
  BY DEF StatusRead, AfterStatus, ReadStatus, ReadsStatus, At, ModuleTypeOK
<1>2. /\ At(n, "wake_up_status") => fw'[n].pc = "wait_for_command"
      /\ At(n, "measure_status") => fw'[n] = DoMeasure(fw[n].addr, fw[n].i + 1, fw[n].nb)
      /\ At(n, "halt_status") => fw'[n].pc = "drain"
  BY DEF StatusRead, AfterStatus, At, Goto, Idle, ModuleTypeOK, Loop
<1>3. ~ReadsStatus(n)'
  BY <1>1, <1>2 DEF ReadsStatus, At, DoMeasure
<1>4. UNCHANGED << statusDue, up >> /\ statusDue[n] = 0
  BY <1>1 DEF StatusRead, Line
<1>5. CASE air[n] = cs /\ inbox[n] = << Notice >>
  BY <1>1, <1>3, <1>4, <1>5, <1>2 DEF Line
<1>6. CASE air[n] = << >> /\ cs # << >> /\ inbox[n] = << Notice, PacketOf(cs[1]) >>
  <2>1. inbox'[n] = << PacketOf(cs[1]) >>
    BY <1>1, <1>6
  <2> QED BY <1>2, <1>3, <1>4, <1>6, <2>1 DEF Line
<1> QED BY <1>1, <1>2, <1>4, <1>5, <1>6 DEF Line

LEMMA LineTransmit ==
  ASSUME ModuleTypeOK, NEW n \in Node, Line(n, << >>), ~ReadsStatus(n), NEW f, Transmit(n, f),
         ReadsStatus(n)', inbox' = inbox, air' = air
  PROVE  Line(n, << >>)' /\ up'[n] = Append(up[n], f)
<1>1. statusDue[n] = 0 /\ inbox[n] = << >> /\ air[n] = << >>
  BY DEF Line
<1>2. statusDue'[n] = 1 /\ up'[n] = Append(up[n], f)
  BY <1>1 DEF Transmit, ModuleTypeOK
<1> QED BY <1>1, <1>2 DEF Line

LEMMA LineTake ==
  ASSUME ModuleTypeOK, NEW n \in Node, NEW cs, OneCommand(cs), Line(n, cs), TakeCommand(n),
         air' = air
  PROVE  /\ \E f : cs = << f >> /\ Head(inbox[n]) = PacketOf(f)
         /\ ~ReadsStatus(n)' => Line(n, << >>)'
         /\ up' = up
<1>1. ~ReadsStatus(n) /\ inbox[n] # << >> /\ inbox'[n] = Tail(inbox[n])
  BY DEF TakeCommand, ReadsStatus, At, ModuleTypeOK
<1>2. air[n] = << >> /\ statusDue[n] = 0 /\ cs # << >> /\ inbox[n] = << PacketOf(cs[1]) >>
  BY <1>1 DEF Line
<1>3. inbox'[n] = << >> /\ Head(inbox[n]) = PacketOf(cs[1])
  BY <1>1, <1>2
<1>4. cs = << cs[1] >>
  BY <1>2 DEF OneCommand
<1>5. UNCHANGED << statusDue, up >>
  BY DEF TakeCommand
<1> QED BY <1>2, <1>3, <1>4, <1>5 DEF Line

(* The firmware goes on between two commands; nothing moves on the line.    *)
LEMMA LineSame ==
  ASSUME NEW n \in Node, NEW cs, Line(n, cs), ReadsStatus(n)' = ReadsStatus(n),
         UNCHANGED << inbox, statusDue, air >>
  PROVE  Line(n, cs)'
BY DEF Line

(* The gateway answers on a line that was idle.                             *)
LEMMA LineAsk ==
  ASSUME AirType, NEW n \in Node, Line(n, << >>), UNCHANGED << fw, inbox, statusDue >>, OnAir,
         NEW cs \in Seq(Commands), sent' = cs, cs = << >> \/ Head(cs).to = n
  PROVE  Line(n, cs)' /\ air'[n] = cs /\ \A m \in Node \ {n} : air'[m] = air[m]
<1>1. air[n] = << >>
  BY DEF Line
<1>2. air'[n] = IF cs # << >> THEN << >> \o cs ELSE << >>
  BY <1>1 DEF OnAir
<1>3. << >> \o cs = cs
  OBVIOUS
<1>4. air'[n] = cs /\ \A m \in Node \ {n} : air'[m] = air[m]
  BY <1>2, <1>3 DEF OnAir
<1> QED BY <1>1, <1>4 DEF Line, ReadsStatus

-----------------------------------------------------------------------------
(* The steps of a module when nothing disturbs it; the gateway sees none.   *)
Moves(n) ==
  /\ UNCHANGED gatewayVars
  /\ \/ RadioDelivers(n)
     \/ /\ air' = air
        /\ \/ ReportStatus(n) \/ StatusRead(n) \/ TakeCommand(n) \/ DrainPacket(n)
           \/ SendWakeUp(n) \/ MeasuresDone(n) \/ MeasureSucceeds(n) \/ SendHalt(n)
           \/ MeasureRefused(n) /\ fw[n].addr \notin Fitted[n]
           \/ SelfHalt(n)
           \/ Quiet(n) /\ (DrainEnds(n) \/ CommandTimeout(n))

LEMMA CalmMoves ==
  ASSUME Timely, glitches = 0, glitches' = 0, losses = 0, losses' = 0, NEW n \in Node,
         RadioDelivers(n) \/ RadioLoses(n) \/ ModuleRuns(n) \/ RadioReports(n)
         \/ ModuleDrained(n) \/ ModuleSeesNoStatus(n) \/ ModuleTimesOut(n)
  PROVE  Moves(n)
<1>1. ~RadioLoses(n) /\ ~ModuleSeesNoStatus(n) /\ ~MeasureGarbled(n)
  BY DEF RadioLoses, ModuleSeesNoStatus, MeasureGarbled, Module
<1>2. MeasureRefused(n) => fw[n].addr \notin Fitted[n]
  BY DEF MeasureRefused
<1>3. CASE RadioDelivers(n)
  BY <1>3 DEF RadioDelivers, Moves
<1>4. CASE ModuleRuns(n)
  BY <1>1, <1>2, <1>4 DEF ModuleRuns, Module, Runs, Moves
<1>5. CASE RadioReports(n) \/ ModuleDrained(n) \/ ModuleTimesOut(n)
  BY <1>5 DEF RadioReports, ModuleDrained, ModuleTimesOut, Module, Moves
<1> QED BY <1>1, <1>3, <1>4, <1>5

(* The gateway's side of the round stays when the gateway does nothing.     *)
LEMMA GatewaySame ==
  ASSUME UNCHANGED gatewayVars
  PROVE  /\ ModulesOf(cfg)' = ModulesOf(cfg)
         /\ \A n \in Node :
              /\ Fresh(n) => Fresh(n)'
              /\ Done(n) => Done(n)'
              /\ \A b, r : Awaits(n, b, r) => Awaits(n, b, r)'
         /\ PushWhole => PushWhole'
<1>0. /\ cfg' = cfg /\ iter' = iter /\ values' = values /\ asked' = asked
      /\ pushed' = pushed
  BY DEF gatewayVars
<1>1. \A n, a : Size(n, a)' = Size(n, a)
  BY <1>0 DEF Size
<1>2. \A n, p : Board(n, p)' = Board(n, p)
  BY <1>0 DEF Board
<1>3. \A n : Reporting(n)' = Reporting(n)
  BY <1>0 DEF Reporting
<1>4. \A n, A, b, r : Heard(n, A, b, r)' = Heard(n, A, b, r)
  BY <1>0, <1>1 DEF Heard, Entry
<1>5. \A n : Fresh(n) => Fresh(n)'
  BY <1>0 DEF Fresh, Begin
<1>6. \A n : Done(n) => Done(n)'
  BY <1>0, <1>3 DEF Done, OneEach
<1>7. \A n, b, r : Expects(n, b, r) => Expects(n, b, r)'
  BY <1>0, <1>1, <1>2 DEF Expects
<1>8. \A n, b, r : Awaits(n, b, r) => Awaits(n, b, r)'
  BY <1>0, <1>4, <1>7 DEF Awaits, OneEach
<1>9. PushWhole => PushWhole'
  BY <1>0, <1>3 DEF PushWhole, OneEach
<1>10. ModulesOf(cfg)' = ModulesOf(cfg)
  BY <1>0
<1> QED BY <1>5, <1>6, <1>8, <1>9, <1>10

LEMMA WakingMoves ==
  ASSUME ModuleTypeOK, AirType, PowerSwitched, NEW n \in Node, Waking(n), Moves(n)
  PROVE  Waking(n)' \/ Announced(n)'
<1>0. Fresh(n)'
  BY GatewaySame DEF Waking, Moves
<1>1. \A pc : Idle(pc).pc = pc
  BY DEF Idle
<1>2. CASE RadioDelivers(n)
  <2>1. /\ air[n] # << >> /\ air'[n] = Tail(air[n])
        /\ Head(air[n]).cmd = "D0"
        /\ \/ Head(air[n]).level = "HIGH" /\ PinHigh(n)
           \/ Head(air[n]).level = "LOW" /\ PinLow(n)
    BY <1>2 DEF RadioDelivers, Waking, D0Frame, AirType
  <2>2. /\ up'[n] = << >> /\ inbox'[n] = << >> /\ statusDue'[n] = 0
    BY <2>1 DEF PinHigh, PinLow, Waking, ModuleTypeOK
  <2>3. CASE At(n, "off") /\ air[n] = << D0Frame(n, "HIGH"), D0Frame(n, "LOW"),
                                        D0Frame(n, "HIGH") >>
    <3>1. PinHigh(n) /\ air'[n] = << D0Frame(n, "LOW"), D0Frame(n, "HIGH") >>
      BY <2>1, <2>3 DEF D0Frame
    <3>2. fw'[n].pc = "drain"
      BY <1>1, <2>3, <3>1 DEF PinHigh, ModuleTypeOK
    <3> QED BY <1>0, <2>2, <3>1, <3>2 DEF Waking, At
  <2>4. CASE At(n, "drain") /\ air[n] = << D0Frame(n, "LOW"), D0Frame(n, "HIGH") >>
    <3>1. PinLow(n) /\ air'[n] = << D0Frame(n, "HIGH") >>
      BY <2>1, <2>4 DEF D0Frame
    <3>2. fw'[n].pc = "off"
      BY <1>1, <2>4, <3>1 DEF PinLow, ModuleTypeOK
    <3> QED BY <1>0, <2>2, <3>1, <3>2 DEF Waking, At
  <2>5. CASE At(n, "off") /\ air[n] = << D0Frame(n, "HIGH") >>
    <3>1. PinHigh(n) /\ air'[n] = << >>
      BY <2>1, <2>5 DEF D0Frame
    <3>2. fw'[n].pc = "drain"
      BY <1>1, <2>5, <3>1 DEF PinHigh, ModuleTypeOK
    <3> QED BY <1>0, <2>2, <3>1, <3>2 DEF Waking
  <2> QED BY <2>1, <2>3, <2>4, <2>5 DEF Waking
<1>3. CASE Quiet(n) /\ (DrainEnds(n) \/ CommandTimeout(n)) /\ air' = air
  <2>1. DrainEnds(n) /\ fw'[n].pc = "send_wake_up"
    BY <1>3 DEF Waking, At, DrainEnds, CommandTimeout, Goto, ModuleTypeOK, Loop
  <2>2. air'[n] = << >> /\ UNCHANGED << up, inbox, statusDue >>
    BY <1>3, <2>1 DEF Quiet, DrainEnds
  <2> QED BY <1>0, <2>1, <2>2 DEF Waking
<1>4. CASE SendWakeUp(n) /\ air' = air
  <2>1. At(n, "send_wake_up") /\ air[n] = << >> /\ ~ReadsStatus(n)
    BY <1>4 DEF SendWakeUp, At, Waking, ReadsStatus
  <2>2. fw'[n].pc = "wake_up_status" /\ Transmit(n, InitFrame) /\ inbox' = inbox
    BY <1>4 DEF SendWakeUp, Goto, ModuleTypeOK, Loop
  <2>3. Line(n, << >>)
    BY <2>1 DEF Line, Waking
  <2>4. Line(n, << >>)' /\ up'[n] = Append(up[n], InitFrame)
    BY <1>4, <2>1, <2>2, <2>3, LineTransmit DEF ReadsStatus
  <2>5. up'[n] = << InitFrame >>
    BY <2>4 DEF Waking
  <2> QED BY <1>0, <2>2, <2>4, <2>5 DEF Announced
<1>5. ~ReportStatus(n) /\ ~DrainPacket(n) /\ ~StatusRead(n) /\ ~TakeCommand(n)
  BY DEF Waking, ReportStatus, DrainPacket, StatusRead, ReadStatus, TakeCommand
<1>6. /\ ~MeasuresDone(n) /\ ~MeasureSucceeds(n) /\ ~MeasureRefused(n) /\ ~SendHalt(n)
      /\ ~SelfHalt(n)
  BY DEF Waking, MeasuresDone, MeasureSucceeds, MeasureRefused, Measuring, SendHalt,
         SelfHalt, At
<1> QED BY <1>2, <1>3, <1>4, <1>5, <1>6 DEF Moves

LEMMA AnnouncedMoves ==
  ASSUME ModuleTypeOK, AirType, Timely, NEW n \in Node, Announced(n), Moves(n)
  PROVE  Announced(n)'
<1>0. Fresh(n)' /\ ~At(n, "off")
  BY GatewaySame DEF Announced, Moves, At
<1>1. CASE RadioDelivers(n)
  <2>1. Line(n, << >>)' /\ UNCHANGED << fw, up >>
    BY <1>0, <1>1, LineDeliver DEF Announced, OneCommand
  <2> QED BY <1>0, <2>1 DEF Announced
<1>2. CASE ReportStatus(n) /\ air' = air
  <2>1. Line(n, << >>)' /\ UNCHANGED << fw, up >>
    BY <1>0, <1>2, LineReport DEF Announced, ReportStatus
  <2> QED BY <1>0, <2>1 DEF Announced
<1>3. CASE StatusRead(n) /\ air' = air
  <2>1. At(n, "wake_up_status")
    BY <1>3 DEF Announced, StatusRead, AfterStatus, At
  <2>2. Line(n, << >>)' /\ up' = up /\ fw'[n].pc = "wait_for_command"
    BY <1>3, <2>1, LineRead DEF Announced
  <2> QED BY <1>0, <2>2 DEF Announced
<1>4. ~TakeCommand(n)
  BY DEF Announced, TakeCommand, At, Line, ReadsStatus
<1>5. ~Quiet(n)
  BY DEF Announced, Quiet
<1>6. /\ ~DrainPacket(n) /\ ~SendWakeUp(n) /\ ~MeasuresDone(n) /\ ~MeasureSucceeds(n)
      /\ ~MeasureRefused(n) /\ ~SendHalt(n) /\ ~SelfHalt(n)
  BY DEF Announced, DrainPacket, SendWakeUp, MeasuresDone, MeasureSucceeds, MeasureRefused,
         Measuring, SendHalt, SelfHalt, At
<1> QED BY <1>1, <1>2, <1>3, <1>4, <1>5, <1>6 DEF Moves

(* A command that is on its way is taken, and nothing else happens before.  *)
LEMMA ReadyMoves ==
  ASSUME ModuleTypeOK, AirType, Timely, NEW n \in Node, NEW f, f.cmd \in {"MEAS", "HALT"},
         Ready(n), up[n] = << >>, Line(n, << f >>), Moves(n)
  PROVE  \/ Ready(n)' /\ up'[n] = << >> /\ Line(n, << f >>)'
         \/ /\ TakeCommand(n) /\ air' = air /\ up'[n] = << >> /\ Head(inbox[n]) = PacketOf(f)
            /\ ~ReadsStatus(n)' => Line(n, << >>)'
<1>0. OneCommand(<< f >>) /\ ~At(n, "off") /\ << f >> # << >>
  BY DEF OneCommand, Ready, At
<1>1. CASE RadioDelivers(n)
  <2>1. Line(n, << f >>)' /\ UNCHANGED << fw, up >>
    BY <1>0, <1>1, LineDeliver
  <2> QED BY <2>1 DEF Ready
<1>2. CASE ReportStatus(n) /\ air' = air
  <2>1. Line(n, << f >>)' /\ UNCHANGED << fw, up >>
    BY <1>0, <1>2, LineReport DEF ReportStatus
  <2> QED BY <2>1 DEF Ready
<1>3. CASE StatusRead(n) /\ air' = air
  <2>1. /\ Line(n, << f >>)' /\ up' = up
        /\ At(n, "wake_up_status") => fw'[n].pc = "wait_for_command"
        /\ At(n, "measure_status") =>
             fw'[n] = DoMeasure(fw[n].addr, fw[n].i + 1, fw[n].nb)
    BY <1>3, LineRead
  <2>2. \/ At(n, "wake_up_status")
        \/ At(n, "measure_status") /\ fw[n].i + 1 = fw[n].nb
    BY <1>3 DEF Ready, StatusRead, AfterStatus, At
  <2>3. Ready(n)'
    BY <2>1, <2>2 DEF Ready, DoMeasure
  <2> QED BY <2>1, <2>3
<1>4. CASE TakeCommand(n) /\ air' = air
  BY <1>0, <1>4, LineTake
<1>5. CASE MeasuresDone(n) /\ air' = air
  <2>1. fw'[n].pc = "wait_for_command" /\ ~ReadsStatus(n)
    BY <1>5 DEF MeasuresDone, At, Goto, ReadsStatus, ModuleTypeOK, Loop
  <2>2. Line(n, << f >>)'
    BY <1>5, <2>1, LineSame DEF MeasuresDone, ReadsStatus
  <2> QED BY <1>5, <2>1, <2>2 DEF MeasuresDone, Ready
<1>6. ~Quiet(n)
  BY <1>0 DEF Line, Quiet
<1>7. fw[n].i \in Nat /\ (At(n, "do_measure") => fw[n].i = fw[n].nb)
  BY DEF Ready, At, ModuleTypeOK, Loop
<1>8. ~MeasureSucceeds(n) /\ ~MeasureRefused(n)
  BY <1>7 DEF MeasureSucceeds, MeasureRefused, Measuring
<1>9. ~DrainPacket(n) /\ ~SendWakeUp(n) /\ ~SendHalt(n) /\ ~SelfHalt(n)
  BY DEF Ready, DrainPacket, SendWakeUp, SendHalt, SelfHalt, At
<1> QED BY <1>1, <1>2, <1>3, <1>4, <1>5, <1>6, <1>8, <1>9 DEF Moves

LEMMA CommandedMoves ==
  ASSUME ModuleTypeOK, AirType, Timely, cfg \in Configs, NEW n \in Node, NEW b \in Addr,
         Commanded(n, b), Moves(n)
  PROVE  Commanded(n, b)' \/ Answering(n, b, 0, 0)'
<1>1. PICK k : k = Size(n, b)
  OBVIOUS
<1>2. PICK f : f = MeasFrame(n, b, k)
  OBVIOUS
<1>3. Awaits(n, b, 0)' /\ k \in Nat /\ Size(n, b)' = k
  BY <1>1, GatewaySame, TablesOfModule DEF Commanded, Moves, Size, gatewayVars
<1>4. /\ f.cmd = "MEAS" /\ PacketOf(f) = MeasCommand(b, k)
      /\ MeasCommand(b, k).cmd = "MEAS"
      /\ MeasCommand(b, k).addr = b /\ MeasCommand(b, k).nb = k
  BY <1>2 DEF MeasFrame, PacketOf, MeasCommand
<1>5. Ready(n) /\ up[n] = << >> /\ Line(n, << f >>)
  BY <1>1, <1>2 DEF Commanded
<1>6. CASE Ready(n)' /\ up'[n] = << >> /\ Line(n, << f >>)'
  <2>1. Line(n, << MeasFrame(n, b, Size(n, b)) >>)'
    BY <1>2, <1>3, <1>6
  <2> QED BY <1>3, <1>6, <2>1 DEF Commanded
<1>7. CASE /\ TakeCommand(n) /\ air' = air /\ up'[n] = << >> /\ Head(inbox[n]) = PacketOf(f)
           /\ ~ReadsStatus(n)' => Line(n, << >>)'
  <2>1. fw'[n] = DoMeasure(b, 0, k)
    BY <1>4, <1>7 DEF TakeCommand, ModuleTypeOK
  <2>2. /\ fw'[n].pc = "do_measure" /\ fw'[n].i = 0 /\ fw'[n].addr = b /\ fw'[n].nb = k
    BY <2>1 DEF DoMeasure
  <2>3. Line(n, << >>)' /\ Measures(n, b, 0)'
    BY <1>3, <1>7, <2>2 DEF ReadsStatus, Measures
  <2>4. Results(n, b, 0, 0)'
    BY <1>7 DEF Results
  <2> QED BY <1>3, <2>3, <2>4 DEF Answering
<1> QED BY <1>4, <1>5, <1>6, <1>7, ReadyMoves

LEMMA ClosingMoves ==
  ASSUME ModuleTypeOK, AirType, Timely, NEW n \in Node, Closing(n), Moves(n)
  PROVE  Closing(n)' \/ Halting(n)'
<1> DEFINE f == HaltFrame(n)
<1>0. Done(n)'
  BY GatewaySame DEF Closing, Moves
<1>1. f.cmd = "HALT" /\ PacketOf(f) = HaltCommand /\ HaltCommand.cmd = "HALT"
  BY DEF HaltFrame, PacketOf, HaltCommand
<1>2. Ready(n) /\ up[n] = << >> /\ Line(n, << f >>)
  BY DEF Closing
<1>3. CASE Ready(n)' /\ up'[n] = << >> /\ Line(n, << f >>)'
  BY <1>0, <1>3 DEF Closing
<1>4. CASE /\ TakeCommand(n) /\ air' = air /\ up'[n] = << >> /\ Head(inbox[n]) = PacketOf(f)
           /\ ~ReadsStatus(n)' => Line(n, << >>)'
  <2>1. fw'[n].pc = "halt"
    BY <1>1, <1>4 DEF TakeCommand, Goto, ModuleTypeOK, Loop
  <2> QED BY <1>0, <1>4, <2>1 DEF Halting, At, ReadsStatus
<1> HIDE DEF f
<1> QED BY <1>1, <1>2, <1>3, <1>4, ReadyMoves

LEMMA HaltingMoves ==
  ASSUME ModuleTypeOK, AirType, Timely, NEW n \in Node, Halting(n), Moves(n)
  PROVE  Halting(n)' \/ Reported(n)'
<1>0. Done(n)' /\ ~ReadsStatus(n) /\ ~At(n, "off")
  BY GatewaySame DEF Halting, Moves, At, ReadsStatus
<1>1. CASE SendHalt(n) /\ air' = air
  <2>1. fw'[n].pc = "halt_status" /\ Transmit(n, HaltReply) /\ inbox' = inbox
    BY <1>1 DEF SendHalt, Goto, ModuleTypeOK, Loop
  <2>2. Line(n, << >>)' /\ up'[n] = Append(up[n], HaltReply)
    BY <1>0, <1>1, <2>1, LineTransmit DEF ReadsStatus, Halting
  <2>3. up'[n] = << HaltReply >>
    BY <2>2 DEF Halting
  <2> QED BY <1>0, <2>1, <2>2, <2>3 DEF Reported
<1>2. ~RadioDelivers(n) /\ ~ReportStatus(n)
  BY <1>0 DEF Halting, Line, RadioDelivers, ReportStatus
<1>3. /\ ~StatusRead(n) /\ ~TakeCommand(n) /\ ~DrainPacket(n) /\ ~SendWakeUp(n)
      /\ ~MeasuresDone(n) /\ ~MeasureSucceeds(n) /\ ~MeasureRefused(n) /\ ~SelfHalt(n)
      /\ ~DrainEnds(n) /\ ~CommandTimeout(n)
  BY DEF Halting, StatusRead, AfterStatus, TakeCommand, DrainPacket, SendWakeUp, MeasuresDone,
         MeasureSucceeds, MeasureRefused, Measuring, SelfHalt, DrainEnds, CommandTimeout, At
<1> QED BY <1>1, <1>2, <1>3 DEF Moves

LEMMA ReportedMoves ==
  ASSUME ModuleTypeOK, AirType, Timely, NEW n \in Node, Reported(n), Moves(n)
  PROVE  Reported(n)'
<1>0. Done(n)' /\ ~At(n, "off") /\ OneCommand(<< >>)
  BY GatewaySame DEF Reported, Moves, At, OneCommand
<1>1. CASE RadioDelivers(n)
  <2>1. Line(n, << >>)' /\ UNCHANGED << fw, up >>
    BY <1>0, <1>1, LineDeliver DEF Reported
  <2> QED BY <1>0, <2>1 DEF Reported
<1>2. CASE ReportStatus(n) /\ air' = air
  <2>1. Line(n, << >>)' /\ UNCHANGED << fw, up >>
    BY <1>0, <1>2, LineReport DEF Reported, ReportStatus
  <2> QED BY <1>0, <2>1 DEF Reported
<1>3. CASE StatusRead(n) /\ air' = air
  <2>1. Line(n, << >>)' /\ up' = up /\ (At(n, "halt_status") => fw'[n].pc = "drain")
    BY <1>3, LineRead DEF Reported
  <2>2. At(n, "halt_status")
    BY <1>3 DEF Reported, StatusRead, AfterStatus, At
  <2> QED BY <1>0, <2>1, <2>2 DEF Reported
<1>4. ~Quiet(n)
  BY DEF Reported, Quiet
<1>5. ~DrainPacket(n)
  BY DEF Reported, DrainPacket, Line, ReadsStatus, At
<1>6. /\ ~TakeCommand(n) /\ ~SendWakeUp(n) /\ ~MeasuresDone(n) /\ ~MeasureSucceeds(n)
      /\ ~MeasureRefused(n) /\ ~SendHalt(n) /\ ~SelfHalt(n)
  BY DEF Reported, TakeCommand, SendWakeUp, MeasuresDone, MeasureSucceeds, MeasureRefused,
         Measuring, SendHalt, SelfHalt, At
<1> QED BY <1>1, <1>2, <1>3, <1>4, <1>5, <1>6 DEF Moves

LEMMA SleepingMoves ==
  ASSUME ModuleTypeOK, AirType, Timely, PowerSwitched, NEW n \in Node, Sleeping(n), Moves(n)
  PROVE  values' = << >> /\ (Sleeping(n)' \/ Asleep(n)')
<1> DEFINE cs == << D0Frame(n, "LOW") >>
<1>0. values' = << >> /\ ~At(n, "off")
  BY DEF Sleeping, Moves, At, gatewayVars
<1>1. CASE RadioDelivers(n)
  <2>1. Head(air[n]) = D0Frame(n, "LOW") /\ Tail(air[n]) = << >>
    BY DEF Sleeping
  <2>2. PinLow(n) /\ air'[n] = << >>
    BY <1>1, <2>1 DEF RadioDelivers, D0Frame, AirType
  <2>3. statusDue[n] = 0
    BY <1>1, <2>1 DEF RadioDelivers, Sleeping, Line
  <2>4. /\ fw'[n].pc = "off" /\ inbox'[n] = << >> /\ statusDue'[n] = 0 /\ up'[n] = << >>
    BY <2>2, <2>3 DEF PinLow, Idle, Sleeping, ModuleTypeOK
  <2> QED BY <1>0, <2>2, <2>4 DEF Asleep, Quiet, At
<1>2. CASE ReportStatus(n) /\ air' = air
  <2>1. Line(n, cs)
    BY DEF Sleeping
  <2>2. Line(n, cs)' /\ UNCHANGED << fw, up >>
    <3> HIDE DEF cs
    <3> QED BY <1>0, <1>2, <2>1, LineReport DEF ReportStatus
  <2> QED BY <1>0, <1>2, <2>2 DEF Sleeping
<1>3. CASE StatusRead(n) /\ air' = air
  <2>1. Line(n, cs) /\ At(n, "halt_status")
    BY <1>3 DEF Sleeping, StatusRead, AfterStatus, At
  <2>2. Line(n, cs)' /\ up' = up /\ fw'[n].pc = "drain"
    <3> HIDE DEF cs
    <3> QED BY <1>3, <2>1, LineRead
  <2> QED BY <1>0, <1>3, <2>2 DEF Sleeping
<1>4. ~Quiet(n)
  BY DEF Sleeping, Quiet
<1>5. ~DrainPacket(n)
  BY DEF Sleeping, DrainPacket, Line, ReadsStatus, At
<1>6. /\ ~TakeCommand(n) /\ ~SendWakeUp(n) /\ ~MeasuresDone(n) /\ ~MeasureSucceeds(n)
      /\ ~MeasureRefused(n) /\ ~SendHalt(n) /\ ~SelfHalt(n)
  BY DEF Sleeping, TakeCommand, SendWakeUp, MeasuresDone, MeasureSucceeds, MeasureRefused,
         Measuring, SendHalt, SelfHalt, At
<1> QED BY <1>1, <1>2, <1>3, <1>4, <1>5, <1>6 DEF Moves

LEMMA AnsweringMoves ==
  ASSUME BoardsFitted, ModuleTypeOK, AirType, Timely, cfg \in Configs, NEW n \in Node,
         NEW b \in Addr, NEW r \in Nat, NEW t \in Nat, Answering(n, b, r, t), Moves(n)
  PROVE  \E u \in Nat : Answering(n, b, r, u)'
<1>1. PICK k : k = Size(n, b)
  OBVIOUS
<1>2. Awaits(n, b, r)' /\ k \in Nat /\ Size(n, b)' = k /\ r < k /\ r <= t /\ t <= k
  BY <1>1, GatewaySame, TablesOfModule
     DEF Answering, Awaits, Expects, Moves, Size, gatewayVars
<1>3. ~At(n, "off") /\ OneCommand(<< >>) /\ Line(n, << >>)
  BY DEF Answering, Measures, At, OneCommand
<1>4. /\ fw[n] \in Loop /\ fw[n].i \in Nat /\ fw[n].nb \in Nat /\ b \in Fitted[n]
      /\ up[n] \in Seq(Uplink)
  BY DEF BoardsFitted, Answering, Awaits, Expects, ModuleTypeOK, Loop
<1>5. ASSUME Measures(n, b, t)', up'[n] = up[n], Line(n, << >>)'
      PROVE  Answering(n, b, r, t)'
  <2>1. Results(n, b, r, t)'
    BY <1>5 DEF Answering, Results
  <2> QED BY <1>2, <1>5, <2>1 DEF Answering
<1>6. CASE RadioDelivers(n)
  <2>1. Line(n, << >>)' /\ UNCHANGED << fw, up >>
    BY <1>3, <1>6, LineDeliver
  <2>2. Measures(n, b, t)'
    BY <1>1, <1>2, <2>1 DEF Answering, Measures
  <2> QED BY <1>5, <2>1, <2>2
<1>7. CASE ReportStatus(n) /\ air' = air
  <2>1. Line(n, << >>)' /\ UNCHANGED << fw, up >>
    BY <1>3, <1>7, LineReport DEF ReportStatus
  <2>2. Measures(n, b, t)'
    BY <1>1, <1>2, <2>1 DEF Answering, Measures
  <2> QED BY <1>5, <2>1, <2>2
<1>8. CASE StatusRead(n) /\ air' = air
  <2>1. /\ Line(n, << >>)' /\ up' = up
        /\ At(n, "measure_status") =>
             fw'[n] = DoMeasure(fw[n].addr, fw[n].i + 1, fw[n].nb)
    BY <1>3, <1>8, LineRead
  <2>2. /\ At(n, "measure_status") /\ fw[n].i + 1 = t /\ fw[n].addr = b /\ fw[n].nb = k
    BY <1>1, <1>8 DEF Answering, Measures, StatusRead, AfterStatus, At
  <2>3. Measures(n, b, t)'
    BY <1>2, <2>1, <2>2 DEF Measures, DoMeasure
  <2> QED BY <1>5, <2>1, <2>3
<1>9. CASE MeasuresDone(n) /\ air' = air
  <2>1. /\ fw'[n].pc = "wait_for_command" /\ ~ReadsStatus(n) /\ up' = up /\ t = k
    BY <1>1, <1>9
       DEF MeasuresDone, At, Goto, ReadsStatus, ModuleTypeOK, Loop, Answering, Measures
  <2>2. Line(n, << >>)'
    BY <1>3, <1>9, <2>1, LineSame DEF MeasuresDone, ReadsStatus
  <2>3. Measures(n, b, t)'
    BY <1>2, <2>1 DEF Measures
  <2> QED BY <1>5, <2>1, <2>2, <2>3
<1>10. CASE MeasureSucceeds(n) /\ air' = air
  <2>1. /\ At(n, "do_measure") /\ fw[n].i = t /\ fw[n].addr = b /\ fw[n].nb = k /\ t < k
        /\ ~ReadsStatus(n)
    BY <1>1, <1>10 DEF Answering, Measures, MeasureSucceeds, Measuring, At, ReadsStatus
  <2>2. PICK d : Transmit(n, Result(b, t, d))
    BY <1>10, <2>1 DEF MeasureSucceeds
  <2>3. /\ fw'[n].pc = "measure_status" /\ fw'[n].i = t /\ fw'[n].addr = b /\ fw'[n].nb = k
        /\ inbox' = inbox
    BY <1>4, <1>10, <2>1 DEF MeasureSucceeds, Goto, ModuleTypeOK, Loop
  <2>4. Line(n, << >>)' /\ up'[n] = Append(up[n], Result(b, t, d))
    BY <1>3, <1>10, <2>1, <2>2, <2>3, LineTransmit DEF ReadsStatus
  <2>5. Measures(n, b, t + 1)'
    BY <1>2, <2>3 DEF Measures
  <2>6. Results(n, b, r, t + 1)'
    <3> DEFINE x == Result(b, t, d)
    <3>1. x.cmd = "MEAS" /\ x.addr = b /\ x.reg = t
      BY DEF Result
    <3>2. /\ Len(up[n]) = t - r
          /\ \A j \in 1 .. t - r :
               up[n][j].cmd = "MEAS" /\ up[n][j].addr = b /\ up[n][j].reg = r + j - 1
      BY DEF Answering, Results
    <3> HIDE DEF x
    <3>3. /\ Len(up'[n]) = t + 1 - r /\ up'[n][t + 1 - r] = x
          /\ \A j \in 1 .. t - r : up'[n][j] = up[n][j]
      <4>1. /\ Len(Append(up[n], x)) = Len(up[n]) + 1
            /\ Append(up[n], x)[Len(up[n]) + 1] = x
            /\ \A j \in 1 .. Len(up[n]) : Append(up[n], x)[j] = up[n][j]
        BY <1>4
      <4>2. (t - r) + 1 = t + 1 - r
        BY <1>2
      <4> QED BY <2>4, <3>2, <4>1, <4>2 DEF x
    <3>4. \A j \in 1 .. t + 1 - r : j \in 1 .. t - r \/ j = t + 1 - r
      BY <1>2
    <3>5. t = r + (t + 1 - r) - 1
      BY <1>2
    <3>6. ASSUME NEW j \in 1 .. t + 1 - r
          PROVE  up'[n][j].cmd = "MEAS" /\ up'[n][j].addr = b /\ up'[n][j].reg = r + j - 1
      <4>1. CASE j \in 1 .. t - r
        BY <3>2, <3>3, <4>1
      <4>2. CASE j = t + 1 - r
        BY <3>1, <3>3, <3>5, <4>2
      <4> QED BY <3>4, <4>1, <4>2
    <3> QED BY <3>3, <3>6 DEF Results
  <2>7. t + 1 \in Nat /\ r <= t + 1 /\ t + 1 <= k
    BY <1>2, <2>1
  <2> QED BY <1>2, <2>4, <2>5, <2>6, <2>7 DEF Answering
<1>11. ~TakeCommand(n) /\ ~DrainPacket(n)
  BY DEF Answering, Measures, TakeCommand, DrainPacket, At, Line, ReadsStatus
<1>12. ~(MeasureRefused(n) /\ fw[n].addr \notin Fitted[n])
  BY <1>4 DEF Answering, Measures, MeasureRefused, Measuring, At
<1>13. ~(Quiet(n) /\ (DrainEnds(n) \/ CommandTimeout(n)))
  <2>1. ~DrainEnds(n) /\ (CommandTimeout(n) => t = k)
    BY <1>1 DEF Answering, Measures, DrainEnds, CommandTimeout, At
  <2>2. Quiet(n) => t - r = 0
    BY DEF Answering, Results, Quiet
  <2> QED BY <1>2, <2>1, <2>2
<1>14. ~SendWakeUp(n) /\ ~SendHalt(n) /\ ~SelfHalt(n)
  BY DEF Answering, Measures, SendWakeUp, SendHalt, SelfHalt, At
<1> QED BY <1>5, <1>6, <1>7, <1>8, <1>9, <1>10, <1>11, <1>12, <1>13, <1>14 DEF Moves

-----------------------------------------------------------------------------
(* The gateway takes a frame of the module.                                 *)

(* Every answer goes to the module the frame came from.                     *)
LEMMA AnswerTo ==
  ASSUME NEW n \in Node, GatewayReceives(n)
  PROVE  sent' = << >> \/ Head(sent').to = n
<1>1. ASSUME GetNextMeasure(n) PROVE sent' = << >> \/ Head(sent').to = n
  <2>1. HaltFrame(n).to = n /\ \A a, k : MeasFrame(n, a, k).to = n
    BY DEF HaltFrame, MeasFrame
  <2>2. \A i, s : Halt(n, i, s) => Head(sent').to = n
    BY <2>1 DEF Halt
  <2>3. \A q, i, s : Ask(n, q, i, s) => Head(sent').to = n
    BY <2>1 DEF Ask
  <2> QED BY <1>1, <2>2, <2>3 DEF GetNextMeasure, NextMeasure, NullIterator, HaltAtEnd,
             AskSingle, AskSeveral, SkipMeasure, LastSkip
<1>2. RecvInit(n) => sent' = << >> \/ Head(sent').to = n
  BY <1>1 DEF RecvInit
<1>3. \A a, r, d : RecvMeas(n, a, r, TRUE, d) => sent' = << >> \/ Head(sent').to = n
  BY <1>1 DEF RecvMeas
<1>4. RecvHalt(n) => Head(sent').to = n
  BY DEF RecvHalt, D0Frame
<1> QED BY <1>2, <1>3, <1>4 DEF GatewayReceives

LEMMA AnnouncedAnswer ==
  ASSUME TypeOK, TypeOK', known = ModulesOf(cfg), NEW n \in ModulesOf(cfg), TablesAgree,
         Announced(n), GatewayReceives(n)
  PROVE  /\ proc' = "polling" /\ UNCHANGED << cfg, known >> /\ pushed' = << >>
         /\ \E b \in Addr : Commanded(n, b)'
<1>0. /\ GatewayTypeOK /\ ModuleTypeOK /\ AirType /\ n \in Node /\ cfg \in Configs
      /\ sent' \in Seq(Commands)
  BY RoundParts DEF TypeOK, GatewayTypeOK, ModulesOf
<1>1. Head(up[n]) = InitFrame /\ InitFrame.cmd = "INIT" /\ Tail(up[n]) = << >>
  BY DEF Announced, InitFrame
<1>2. RecvInit(n) /\ OnAir /\ up'[n] = << >> /\ UNCHANGED << fw, inbox, statusDue >>
  BY <1>0, <1>1 DEF GatewayReceives, ModuleTypeOK
<1>3. /\ GetNextMeasure(n) /\ UNCHANGED << cfg, known, values >> /\ pushed' = << >>
      /\ proc = "polling"
  BY <1>2 DEF RecvInit
<1>4. PICK b \in BoardsOf(cfg, n) : /\ sent' = << MeasFrame(n, b, Size(n, b)) >>
                                   /\ asked'[n] = {b}
                                   /\ Expects(n, b, 0)'
  BY <1>0, <1>3, FreshAnswer DEF Announced
<1>5. b \in Addr
  BY <1>0, TablesOfModule DEF BoardsOf
<1>6. PICK cs \in Seq(Commands) : cs = sent'
  BY <1>0
<1>7. Line(n, cs)'
  BY <1>0, <1>2, <1>6, AnswerTo, LineAsk DEF Announced
<1>8. cs = << MeasFrame(n, b, Size(n, b)') >>
  BY <1>3, <1>4, <1>6 DEF Size
<1>9. Line(n, << MeasFrame(n, b, Size(n, b)) >>)'
  BY <1>7, <1>8
<1>10. Awaits(n, b, 0)'
  <2>1. values' = << >> /\ {} \cup {b} = {b}
    BY <1>3 DEF Announced, Fresh
  <2>2. Heard(n, {b}, b, 0)' = {}
    BY <2>1, HeardNone DEF Heard, Size, Entry
  <2> QED BY <1>4, <2>1, <2>2, NoneYet DEF Awaits
<1>11. Ready(n)'
  BY <1>2 DEF Announced, Ready
<1>12. proc' = "polling"
  BY <1>0, <1>3, FreshAnswer DEF Announced
<1> QED BY <1>2, <1>3, <1>5, <1>9, <1>10, <1>11, <1>12 DEF Commanded

(* The value of result r of board b is stored, unless it is an action's.    *)
LEMMA ResultStored ==
  ASSUME WideTypes, TablesAgree, GatewayTypeOK, NEW n \in Node, NEW b \in Addr, NEW r \in Nat,
         NEW d \in Data, Awaits(n, b, r), RecvMeas(n, b, r, TRUE, d)
  PROVE  OneEach(values', n, Heard(n, asked[n], b, r + 1))
<1> DEFINE x == Entry(n, b, r)
           v == Labelled(n, b, r, d)
           H == Heard(n, asked[n], b, r)
<1>1. /\ cfg \in Configs /\ asked[n] \in SUBSET Addr /\ b \in asked[n] /\ r < Size(n, b)
      /\ values \in Seq(Value) /\ r \in Reg
  BY DEF GatewayTypeOK, Awaits, Expects, WideTypes
<1>2. /\ x \notin H
      /\ x.ignored => Heard(n, asked[n], b, r + 1) = H
      /\ ~x.ignored => Heard(n, asked[n], b, r + 1) = H \cup {x}
  BY <1>1, HeardOne
<1>3. OneEach(values, n, H)
  BY DEF Awaits
<1>4. Accepted(n, b, r, TRUE) <=> ~x.ignored
  BY <1>1 DEF Accepted, Entry
<1>5. CASE x.ignored
  <2>1. values' = values
    BY <1>4, <1>5 DEF RecvMeas
  <2> QED BY <1>2, <1>3, <1>5, <2>1
<1>6. CASE ~x.ignored
  <2>1. values' = Append(values, v)
    BY <1>4, <1>6 DEF RecvMeas
  <2>2. v \in Value
    BY <1>1, <1>4, <1>6, StoredType
  <2>3. v.node = n /\ v.sensor = x
    BY DEF Labelled, Entry
  <2> HIDE DEF v, x, H
  <2>4. OneEach(Append(values, v), n, H \cup {x})
    BY <1>1, <1>2, <1>3, <2>2, <2>3, OneMore
  <2> QED BY <1>2, <1>6, <2>1, <2>4
<1> QED BY <1>5, <1>6

LEMMA ResultAnswer ==
  ASSUME WideTypes, AllContiguous, AllSpaced, TablesAgree, TypeOK, TypeOK',
         IteratorsCover, NothingAskedAhead, known = ModulesOf(cfg), NEW n \in ModulesOf(cfg),
         NEW b \in Addr, NEW r \in Nat, NEW t \in Nat, Answering(n, b, r, t),
         GatewayReceives(n)
  PROVE  /\ proc' = "polling" /\ UNCHANGED << cfg, known >> /\ pushed' = << >>
         /\ \/ Answering(n, b, r + 1, t)'
            \/ Closing(n)'
            \/ \E c \in Addr : Commanded(n, c)'
<1>0. /\ GatewayTypeOK /\ ModuleTypeOK /\ AirType /\ n \in Node /\ cfg \in Configs
      /\ sent' \in Seq(Commands) /\ asked[n] \in SUBSET Addr /\ up[n] \in Seq(Uplink)
  BY RoundParts DEF TypeOK, GatewayTypeOK, ModuleTypeOK, ModulesOf
<1>1. PICK k : k = Size(n, b)
  OBVIOUS
<1>2. Expects(n, b, r) /\ k \in Nat /\ r < k /\ r <= t /\ t <= k /\ up[n] # << >>
  BY <1>0, <1>1, TablesOfModule DEF Answering, Awaits, Expects, Size, GatewayReceives
<1>3. /\ Len(up[n]) = t - r /\ r + 1 <= t
      /\ \A j \in 1 .. t - r :
           up[n][j].cmd = "MEAS" /\ up[n][j].addr = b /\ up[n][j].reg = r + j - 1
  BY <1>0, <1>2, EmptySeq DEF Answering, Results
<1>4. /\ Head(up[n]).cmd = "MEAS" /\ Head(up[n]).addr = b /\ Head(up[n]).reg = r
  <2>1. Head(up[n]) = up[n][1] /\ 1 \in 1 .. t - r /\ r + 1 - 1 = r
    BY <1>0, <1>2, <1>3
  <2> QED BY <1>3, <2>1
<1>5. PICK d : d = Head(up[n]).data
  OBVIOUS
<1>6. /\ d \in Data /\ RecvMeas(n, b, r, TRUE, d) /\ OnAir /\ up'[n] = Tail(up[n])
      /\ UNCHANGED << fw, inbox, statusDue >>
  BY <1>0, <1>2, <1>4, <1>5, FrameTaken DEF GatewayReceives, WideTypes, ModuleTypeOK
<1>7. /\ GetNextMeasure(n) /\ UNCHANGED << cfg, known >> /\ pushed' = << >> /\ proc = "polling"
  BY <1>6 DEF RecvMeas, Learn
<1>8. PICK H : H = Heard(n, asked[n], b, r + 1)
  OBVIOUS
<1>9. OneEach(values', n, H)
  BY <1>0, <1>6, <1>8, ResultStored DEF Answering
<1>10. \A a : Size(n, a)' = Size(n, a)
  BY <1>7 DEF Size
<1>11. \A A, a, q : Heard(n, A, a, q)' = Heard(n, A', a, q)
  BY <1>7, <1>10 DEF Heard, Entry
<1>12. PICK cs \in Seq(Commands) : cs = sent'
  BY <1>0
<1>13. Line(n, cs)'
  BY <1>0, <1>6, <1>12, AnswerTo, LineAsk DEF Answering
<1>14. ASSUME r + 1 = k PROVE Ready(n)' /\ up'[n] = << >>
  <2>1. t = k
    BY <1>2, <1>3, <1>14
  <2>2. Ready(n)'
    BY <1>1, <1>6, <2>1 DEF Answering, Measures, Ready
  <2>3. Len(up[n]) = 1
    BY <1>2, <1>3, <1>14, <2>1
  <2>4. Tail(up[n]) = << >>
    <3>1. Tail(up[n]) \in Seq(Uplink) /\ Len(Tail(up[n])) = 0
      BY <1>0, <1>2, <2>3, HeadTailProperties
    <3> QED BY <3>1, EmptySeq
  <2> QED BY <1>6, <2>2, <2>4
<1>15. proc' = proc
  BY <1>0, <1>2, <1>7, DueAnswer
<1>18. CASE /\ r + 1 < k /\ sent' = << >> /\ asked' = asked /\ Expects(n, b, r + 1)'
  <2>1. Awaits(n, b, r + 1)'
    BY <1>8, <1>9, <1>11, <1>18 DEF Awaits
  <2>2. Line(n, << >>)' /\ Measures(n, b, t)'
    BY <1>6, <1>10, <1>12, <1>13, <1>18 DEF Answering, Measures
  <2>3. Results(n, b, r + 1, t)'
    <3>1. /\ Len(Tail(up[n])) = t - (r + 1)
          /\ \A j \in 1 .. t - (r + 1) : Tail(up[n])[j] = up[n][j + 1]
      BY <1>0, <1>2, <1>3
    <3>2. ASSUME NEW j \in 1 .. t - (r + 1)
          PROVE  j + 1 \in 1 .. t - r /\ r + (j + 1) - 1 = (r + 1) + j - 1
      BY <1>2
    <3> QED BY <1>3, <1>6, <3>1, <3>2 DEF Results
  <2>4. t <= Size(n, b)'
    BY <1>1, <1>2, <1>10
  <2>5. Answering(n, b, r + 1, t)'
    BY <1>3, <2>1, <2>2, <2>3, <2>4 DEF Answering
  <2> QED BY <1>7, <1>15, <2>5
<1>16. CASE /\ r + 1 = k /\ sent' = << HaltFrame(n) >> /\ BoardsOf(cfg, n) \subseteq asked[n]
  <2>1. asked[n] = BoardsOf(cfg, n)
    BY <1>0, <1>16 DEF NothingAskedAhead, NotAhead, BoardsOf, Board
  <2>2. H = Reporting(n)
    BY <1>0, <1>1, <1>8, <1>16, <2>1, HeardAll
  <2>3. Reporting(n)' = Reporting(n)
    BY <1>7 DEF Reporting
  <2>4. Done(n)'
    BY <1>9, <2>2, <2>3 DEF Done
  <2>5. Closing(n)'
    BY <1>12, <1>13, <1>14, <1>16, <2>4 DEF Closing
  <2> QED BY <1>7, <1>15, <2>5
<1>17. CASE /\ r + 1 = k
            /\ \E c \in BoardsOf(cfg, n) \ asked[n] :
                 /\ sent' = << MeasFrame(n, c, Size(n, c)) >>
                 /\ asked'[n] = asked[n] \cup {c}
                 /\ Expects(n, c, 0)'
  <2>1. PICK c \in BoardsOf(cfg, n) \ asked[n] :
                 /\ sent' = << MeasFrame(n, c, Size(n, c)) >>
                 /\ asked'[n] = asked[n] \cup {c}
                 /\ Expects(n, c, 0)'
    BY <1>17
  <2>2. c \in Addr
    BY <1>0, TablesOfModule DEF BoardsOf
  <2>3. H = Heard(n, asked[n] \cup {c}, c, 0)
    BY <1>0, <1>1, <1>2, <1>8, <1>17, <2>1, <2>2, HeardAsk DEF Expects
  <2>4. H = Heard(n, asked[n], c, 0)'
    BY <1>11, <2>1, <2>3
  <2>5. Awaits(n, c, 0)'
    BY <1>9, <2>1, <2>4 DEF Awaits
  <2>6. Line(n, << MeasFrame(n, c, Size(n, c)) >>)'
    BY <1>10, <1>12, <1>13, <2>1
  <2>7. Commanded(n, c)'
    BY <1>14, <1>17, <2>5, <2>6 DEF Commanded
  <2> QED BY <1>7, <1>15, <2>2, <2>7
<1>19. \/ /\ r + 1 < k /\ sent' = << >> /\ asked' = asked /\ Expects(n, b, r + 1)'
       \/ /\ r + 1 = k /\ sent' = << HaltFrame(n) >> /\ BoardsOf(cfg, n) \subseteq asked[n]
       \/ /\ r + 1 = k
          /\ \E c \in BoardsOf(cfg, n) \ asked[n] :
               /\ sent' = << MeasFrame(n, c, Size(n, c)) >>
               /\ asked'[n] = asked[n] \cup {c}
               /\ Expects(n, c, 0)'
  BY <1>0, <1>1, <1>2, <1>7, DueAnswer
<1> QED BY <1>16, <1>17, <1>18, <1>19

LEMMA ReportedAnswer ==
  ASSUME TypeOK, TypeOK', NEW n \in Node, Reported(n), GatewayReceives(n)
  PROVE  /\ proc' = "polling" /\ UNCHANGED << cfg, known >> /\ PushWhole' /\ Sleeping(n)'
<1>0. /\ GatewayTypeOK /\ ModuleTypeOK /\ AirType /\ sent' \in Seq(Commands)
  BY RoundParts DEF TypeOK, GatewayTypeOK
<1>1. Head(up[n]) = HaltReply /\ HaltReply.cmd = "HALT" /\ Tail(up[n]) = << >>
  BY DEF Reported, HaltReply
<1>2. RecvHalt(n) /\ OnAir /\ up'[n] = << >> /\ UNCHANGED << fw, inbox, statusDue >>
  BY <1>0, <1>1 DEF GatewayReceives, ModuleTypeOK
<1>3. PICK cs \in Seq(Commands) : cs = sent' /\ cs = << D0Frame(n, "LOW") >>
  BY <1>0, <1>2 DEF RecvHalt
<1>4. Line(n, cs)' /\ air'[n] = cs
  BY <1>0, <1>2, <1>3, AnswerTo, LineAsk DEF Reported
<1>5. Sleeping(n)'
  BY <1>2, <1>3, <1>4 DEF Sleeping, Reported, RecvHalt
<1>6. PushWhole'
  <2>1. pushed' = << [to |-> n, values |-> values] >> /\ cfg' = cfg
    BY <1>2 DEF RecvHalt
  <2>2. Reporting(n)' = Reporting(n)
    BY <2>1 DEF Reporting
  <2>3. \A i \in DOMAIN pushed' : pushed'[i].to = n /\ pushed'[i].values = values
    BY <2>1
  <2>4. OneEach(values, n, Reporting(n)')
    BY <2>2 DEF Reported, Done
  <2> QED BY <2>3, <2>4 DEF PushWhole
<1> QED BY <1>2, <1>5, <1>6 DEF RecvHalt

-----------------------------------------------------------------------------
(* The modules that sleep do nothing, and what the others do leaves them    *)
(* asleep.                                                                  *)
LEMMA AsleepIdle ==
  ASSUME NEW n \in Node, Asleep(n)
  PROVE  ~GatewayReceives(n) /\ ~Moves(n)
<1>1. ~GatewayReceives(n) /\ ~RadioDelivers(n) /\ ~ReportStatus(n)
  BY DEF Asleep, Quiet, GatewayReceives, RadioDelivers, ReportStatus
<1>2. /\ ~StatusRead(n) /\ ~TakeCommand(n) /\ ~DrainPacket(n) /\ ~SendWakeUp(n)
      /\ ~MeasuresDone(n) /\ ~MeasureSucceeds(n) /\ ~MeasureRefused(n) /\ ~SendHalt(n)
      /\ ~SelfHalt(n) /\ ~DrainEnds(n) /\ ~CommandTimeout(n)
  BY DEF Asleep, StatusRead, AfterStatus, TakeCommand, DrainPacket, SendWakeUp, MeasuresDone,
         MeasureSucceeds, MeasureRefused, Measuring, SendHalt, SelfHalt, DrainEnds,
         CommandTimeout, At
<1> QED BY <1>1, <1>2 DEF Moves

LEMMA OthersSleep ==
  ASSUME TypeOK, TypeOK', NEW n \in Node, GatewayReceives(n) \/ Moves(n),
         NEW m \in Node, m # n, Asleep(m)
  PROVE  Asleep(m)'
<1>0. ModuleTypeOK /\ AirType /\ sent' \in Seq(Commands)
  BY RoundParts DEF TypeOK, GatewayTypeOK
<1>1. ASSUME /\ fw'[m] = fw[m] /\ inbox'[m] = inbox[m] /\ statusDue'[m] = statusDue[m]
             /\ up'[m] = up[m] /\ air'[m] = air[m]
      PROVE  Asleep(m)'
  BY <1>1 DEF Asleep, Quiet, At
<1>2. CASE GatewayReceives(n)
  <2>1. air'[m] = air[m]
    BY <1>2, AnswerTo DEF GatewayReceives, OnAir
  <2> QED BY <1>0, <1>1, <1>2, <2>1 DEF GatewayReceives, ModuleTypeOK
<1>3. CASE RadioDelivers(n)
  <2>1. air'[m] = air[m]
    BY <1>0, <1>3 DEF RadioDelivers, AirType
  <2>2. PinHigh(n) \/ PinLow(n) \/ \E p : Deliver(n, p)
    BY <1>3 DEF RadioDelivers
  <2> QED BY <1>0, <1>1, <2>1, <2>2
          DEF PinHigh, PinLow, Deliver, Enqueue, ModuleTypeOK
<1>4. CASE /\ air' = air
           /\ \/ ReportStatus(n) \/ StatusRead(n) \/ TakeCommand(n) \/ DrainPacket(n)
              \/ DrainEnds(n) \/ CommandTimeout(n) \/ MeasuresDone(n) \/ MeasureRefused(n)
  BY <1>0, <1>1, <1>4
     DEF ReportStatus, Enqueue, StatusRead, AfterStatus, ReadStatus, TakeCommand, DrainPacket,
         DrainEnds, CommandTimeout, MeasuresDone, MeasureRefused, Goto, ModuleTypeOK
<1>5. CASE air' = air /\ (SendWakeUp(n) \/ MeasureSucceeds(n) \/ SendHalt(n) \/ SelfHalt(n))
  BY <1>0, <1>1, <1>5
     DEF SendWakeUp, MeasureSucceeds, SendHalt, SelfHalt, PinLow, Transmit, Goto, ModuleTypeOK
<1> QED BY <1>2, <1>3, <1>4, <1>5 DEF Moves

-----------------------------------------------------------------------------
(* One step of the module that is in its round.                             *)
LEMMA MovesInRound ==
  ASSUME BoardsFitted, Timely, PowerSwitched, TypeOK, NEW n \in Node, InRound(n), Moves(n)
  PROVE  InRound(n)' \/ (values' = << >> /\ Asleep(n)')
<1>0. ModuleTypeOK /\ AirType /\ cfg \in Configs
  BY RoundParts DEF TypeOK, GatewayTypeOK
<1>1. CASE Waking(n)
  BY <1>0, <1>1, WakingMoves DEF InRound
<1>2. CASE Announced(n)
  BY <1>0, <1>2, AnnouncedMoves DEF InRound
<1>3. ASSUME NEW b \in Addr, Commanded(n, b) PROVE InRound(n)'
  <2>1. 0 \in Nat
    OBVIOUS
  <2> QED BY <1>0, <1>3, <2>1, CommandedMoves DEF InRound
<1>4. ASSUME NEW b \in Addr, NEW r \in Nat, NEW t \in Nat, Answering(n, b, r, t)
      PROVE  InRound(n)'
  BY <1>0, <1>4, AnsweringMoves DEF InRound
<1>5. CASE Closing(n) \/ Halting(n) \/ Reported(n)
  BY <1>0, <1>5, ClosingMoves, HaltingMoves, ReportedMoves DEF InRound
<1>6. CASE Sleeping(n)
  BY <1>0, <1>6, SleepingMoves DEF InRound
<1> QED BY <1>1, <1>2, <1>3, <1>4, <1>5, <1>6 DEF InRound

LEMMA NoPush == pushed' = << >> => PushWhole'
BY DEF PushWhole

LEMMA ReceivesInRound ==
  ASSUME WideTypes, AllContiguous, AllSpaced, TablesAgree, TypeOK, TypeOK',
         IteratorsCover, NothingAskedAhead, known = ModulesOf(cfg), NEW n \in ModulesOf(cfg),
         InRound(n), GatewayReceives(n)
  PROVE  proc' = "polling" /\ UNCHANGED << cfg, known >> /\ PushWhole' /\ InRound(n)'
<1>0. n \in Node /\ up[n] # << >>
  BY DEF ModulesOf, GatewayReceives
<1>1. CASE Announced(n)
  <2>1. /\ proc' = "polling" /\ UNCHANGED << cfg, known >> /\ pushed' = << >>
        /\ \E b \in Addr : Commanded(n, b)'
    BY <1>1, AnnouncedAnswer
  <2> QED BY <2>1, NoPush DEF InRound
<1>2. ASSUME NEW b \in Addr, NEW r \in Nat, NEW t \in Nat, Answering(n, b, r, t)
      PROVE  proc' = "polling" /\ UNCHANGED << cfg, known >> /\ PushWhole' /\ InRound(n)'
  <2>1. /\ proc' = "polling" /\ UNCHANGED << cfg, known >> /\ pushed' = << >>
        /\ \/ Answering(n, b, r + 1, t)'
           \/ Closing(n)'
           \/ \E c \in Addr : Commanded(n, c)'
    BY <1>2, ResultAnswer
  <2>2. r + 1 \in Nat
    OBVIOUS
  <2>3. InRound(n)'
    BY <2>1, <2>2 DEF InRound
  <2> QED BY <2>1, <2>3, NoPush
<1>3. CASE Reported(n)
  BY <1>0, <1>3, ReportedAnswer DEF InRound
<1>4. ~Waking(n) /\ (\A b \in Addr : ~Commanded(n, b)) /\ ~Closing(n) /\ ~Halting(n)
      /\ ~Sleeping(n)
  BY <1>0 DEF Waking, Commanded, Closing, Halting, Sleeping
<1> QED BY <1>1, <1>2, <1>3, <1>4 DEF InRound

(* A module in its round is not asleep: the gateway wakes nobody then.      *)
LEMMA NotAsleep ==
  ASSUME NEW n \in Node, InRound(n)
  PROVE  ~Asleep(n)
<1>1. ~(Waking(n) /\ Asleep(n))
  <2>1. \A f, g, h : << f >> # << >> /\ << f, g, h >> # << >>
    OBVIOUS
  <2> QED BY <2>1 DEF Waking, Asleep, Quiet, At
<1>2. ~(Announced(n) /\ Asleep(n)) /\ ~(Reported(n) /\ Asleep(n)) /\ ~(Sleeping(n) /\ Asleep(n))
      /\ ~(Halting(n) /\ Asleep(n)) /\ ~(Closing(n) /\ Asleep(n))
  BY DEF Announced, Reported, Sleeping, Halting, Closing, Ready, Asleep, At
<1>3. \A b \in Addr : ~(Commanded(n, b) /\ Asleep(n))
  BY DEF Commanded, Ready, Asleep, At
<1>4. \A b \in Addr, r \in Nat, t \in Nat : ~(Answering(n, b, r, t) /\ Asleep(n))
  BY DEF Answering, Measures, Asleep, At
<1> QED BY <1>1, <1>2, <1>3, <1>4 DEF InRound

(* The gateway wakes one module when all sleep.                             *)
LEMMA Wakes ==
  ASSUME TypeOK, TypeOK', known = ModulesOf(cfg), values = << >>, \A m \in Node : Asleep(m),
         GatewayWakes
  PROVE  RoundInv'
<1>0. ModuleTypeOK /\ AirType /\ GatewayTypeOK /\ cfg \in Configs
  BY RoundParts DEF TypeOK, GatewayTypeOK
<1>1. /\ UNCHANGED << fw, inbox, statusDue, up >> /\ OnAir
      /\ WakeUpNobody \/ \E n \in Node : WakeUpModule(n)
  BY DEF GatewayWakes, WakeUp, moduleVars
<1>2. pushed' = << >> /\ UNCHANGED << cfg, known, values >>
  BY <1>1 DEF WakeUpNobody, WakeUpModule
<1>3. CASE WakeUpNobody
  <2>1. \A m \in Node : air'[m] = air[m]
    BY <1>1, <1>3 DEF WakeUpNobody, OnAir
  <2>2. \A m \in Node : Asleep(m)'
    BY <1>1, <2>1 DEF Asleep, Quiet, At
  <2> QED BY <1>2, <2>2, NoPush DEF RoundInv, OneRound
<1>4. ASSUME NEW n \in Node, WakeUpModule(n) PROVE RoundInv'
  <2>1. n \in ModulesOf(cfg)
    BY <1>0, <1>4 DEF WakeUpModule, GatewayTypeOK
  <2>2. /\ proc' = "polling" /\ asked'[n] = {}
        /\ iter'[n] = Iterator(Begin(n), 0, 0)
        /\ sent' = << D0Frame(n, "HIGH"), D0Frame(n, "LOW"), D0Frame(n, "HIGH") >>
    BY <1>0, <1>4 DEF WakeUpModule, GatewayTypeOK
  <2>3. Begin(n)' = Begin(n)
    BY <1>2 DEF Begin
  <2>4. Fresh(n)'
    BY <1>2, <2>2, <2>3 DEF Fresh
  <2>5. Head(sent').to = n /\ sent' # << >> /\ << >> \o sent' = sent'
    BY <2>2 DEF D0Frame
  <2>6. air'[n] = sent' /\ \A m \in Node \ {n} : air'[m] = air[m]
    BY <1>1, <2>5 DEF OnAir, Asleep, Quiet
  <2>7. Waking(n)'
    BY <1>1, <2>2, <2>4, <2>6 DEF Waking, Asleep, Quiet, At
  <2>8. \A m \in Node \ {n} : Asleep(m)'
    BY <1>1, <2>6 DEF Asleep, Quiet, At
  <2> QED BY <1>2, <2>1, <2>2, <2>7, <2>8, NoPush DEF RoundInv, OneRound, InRound
<1> QED BY <1>1, <1>3, <1>4

-----------------------------------------------------------------------------
(* What disturbs the network is counted and stays counted.                  *)
LEMMA CalmBefore ==
  ASSUME TypeOK, [Next]_vars, Undisturbed'
  PROVE  Undisturbed /\ ~GatewayRestarts
<1>0. ModuleTypeOK /\ losses \in Nat /\ restarts \in Nat
  BY RoundParts, NetworkAssumption DEF BoundsType
<1>1. /\ losses' = losses \/ losses' = losses + 1
      /\ restarts' = restarts \/ restarts' = restarts + 1
      /\ GatewayRestarts => restarts' = restarts + 1
  BY DEF Next, vars, GatewayWakes, GatewayRestarts, GatewayReceives, RadioDelivers,
         RadioLoses, ModuleRuns, RadioReports, ModuleDrained, ModuleSeesNoStatus,
         ModuleTimesOut, Module
<1>2. losses = 0 /\ restarts = 0 /\ ~GatewayRestarts
  BY <1>0, <1>1 DEF Undisturbed
<1>3. glitches = 0
  <2>1. CASE [ModuleNext]_moduleVars
    BY <1>0, <2>1, GlitchesStay DEF Undisturbed
  <2>2. CASE \E n \in Node : HandsOver(n, Head(air[n]))
    BY <2>2 DEF HandsOver, Deliver, Undisturbed
  <2> QED BY <2>1, <2>2, ModuleSteps
<1> QED BY <1>2, <1>3 DEF Undisturbed

(* What the code and the configuration have to agree on.                    *)
WellConfigured == AllContiguous /\ AllSpaced /\ TablesAgree /\ BoardsFitted

LEMMA RoundInvStep ==
  ASSUME WideTypes, WellConfigured, Timely, PowerSwitched, TypeOK, TypeOK', FreshInv,
         Undisturbed, Undisturbed', RoundInv, [Next]_vars
  PROVE  RoundInv'
<1>0. /\ AllContiguous /\ AllSpaced /\ TablesAgree /\ BoardsFitted /\ cfg \in Configs
      /\ IteratorsCover /\ NothingAskedAhead /\ known = ModulesOf(cfg)
      /\ losses = 0 /\ losses' = 0 /\ glitches = 0 /\ glitches' = 0
  BY DEF WellConfigured, FreshInv, CoverInv, Undisturbed, RoundInv, TypeOK, GatewayTypeOK
<1>1. CASE UNCHANGED vars
  <2>1. UNCHANGED << gatewayVars, fw, inbox, statusDue, up, air >>
    BY <1>1 DEF vars, moduleVars
  <2>2. \A m \in Node : Asleep(m) => Asleep(m)'
    BY <2>1 DEF Asleep, Quiet, At
  <2>3. ASSUME NEW n \in Node, InRound(n) PROVE InRound(n)'
    <3>1. \A cs : Line(n, cs) => Line(n, cs)'
      BY <2>1 DEF Line, ReadsStatus
    <3>2. \A b : Size(n, b)' = Size(n, b)
      BY <2>1 DEF Size, gatewayVars
    <3>3. Fresh(n) => Fresh(n)'
      BY <2>1, GatewaySame
    <3>4. Done(n) => Done(n)'
      BY <2>1, GatewaySame
    <3>5. \A b, r : Awaits(n, b, r) => Awaits(n, b, r)'
      BY <2>1, GatewaySame
    <3>6. Waking(n) => Waking(n)'
      BY <2>1, <3>3 DEF Waking, At
    <3>7. Announced(n) => Announced(n)'
      BY <2>1, <3>1, <3>3 DEF Announced
    <3>8. \A b \in Addr : Commanded(n, b) => Commanded(n, b)'
      BY <2>1, <3>1, <3>2, <3>5 DEF Commanded, Ready
    <3>9. ASSUME NEW b \in Addr, NEW r \in Nat, NEW t \in Nat, Answering(n, b, r, t)
          PROVE  Answering(n, b, r, t)'
      BY <2>1, <3>1, <3>2, <3>5, <3>9 DEF Answering, Measures, Results
    <3>10. Closing(n) \/ Halting(n) \/ Reported(n) => (Closing(n) \/ Halting(n) \/ Reported(n))'
      BY <2>1, <3>1, <3>4 DEF Closing, Halting, Reported, Ready, At
    <3>11. Sleeping(n) => Sleeping(n)'
      BY <2>1, <3>1 DEF Sleeping, gatewayVars
    <3> QED BY <2>3, <3>6, <3>7, <3>8, <3>9, <3>10, <3>11 DEF InRound
  <2>4. ModulesOf(cfg)' = ModulesOf(cfg) /\ (PushWhole => PushWhole')
    BY <2>1, GatewaySame
  <2>5. ModulesOf(cfg) \subseteq Node /\ UNCHANGED << known, values, proc >>
    BY <2>1 DEF ModulesOf, gatewayVars
  <2> QED BY <2>2, <2>3, <2>4, <2>5 DEF RoundInv, OneRound
<1>2. CASE GatewayWakes
  <2>1. CASE values = << >> /\ \A m \in Node : Asleep(m)
    BY <1>0, <1>2, <2>1, Wakes
  <2>2. ASSUME proc = "polling", NEW n \in ModulesOf(cfg), InRound(n) PROVE FALSE
    BY <1>2, <2>2, NotAsleep DEF GatewayWakes, Asleep, ModulesOf
  <2> QED BY <2>1, <2>2 DEF RoundInv, OneRound
<1>3. ~GatewayRestarts
  BY CalmBefore
<1>4. ASSUME NEW n \in Node, GatewayReceives(n) PROVE RoundInv'
  <2>1. PICK m \in ModulesOf(cfg) : InRound(m) /\ \A l \in Node \ {m} : Asleep(l)
    BY <1>4, AsleepIdle DEF RoundInv, OneRound
  <2>2. m = n
    BY <1>4, <2>1, AsleepIdle
  <2>3. proc' = "polling" /\ UNCHANGED << cfg, known >> /\ PushWhole' /\ InRound(n)'
    BY <1>0, <1>4, <2>1, <2>2, ReceivesInRound
  <2>4. \A l \in Node \ {n} : Asleep(l)'
    BY <1>4, <2>1, <2>2, OthersSleep
  <2> QED BY <1>0, <2>1, <2>2, <2>3, <2>4 DEF RoundInv, OneRound
<1>5. ASSUME NEW n \in Node,
             RadioDelivers(n) \/ RadioLoses(n) \/ ModuleRuns(n) \/ RadioReports(n)
             \/ ModuleDrained(n) \/ ModuleSeesNoStatus(n) \/ ModuleTimesOut(n)
      PROVE  RoundInv'
  <2>1. Moves(n)
    BY <1>0, <1>5, CalmMoves
  <2>2. PICK m \in ModulesOf(cfg) :
          proc = "polling" /\ InRound(m) /\ \A l \in Node \ {m} : Asleep(l)
    BY <2>1, AsleepIdle DEF RoundInv, OneRound
  <2>3. m = n
    BY <2>1, <2>2, AsleepIdle
  <2>4. InRound(n)' \/ (values' = << >> /\ Asleep(n)')
    BY <1>0, <2>1, <2>2, <2>3, MovesInRound
  <2>5. \A l \in Node \ {n} : Asleep(l)'
    BY <2>1, <2>2, <2>3, OthersSleep
  <2>6. UNCHANGED gatewayVars
    BY <2>1 DEF Moves
  <2>7. ModulesOf(cfg)' = ModulesOf(cfg) /\ (PushWhole => PushWhole')
    BY <2>6, GatewaySame
  <2>8. UNCHANGED << known, proc >>
    BY <2>6 DEF gatewayVars
  <2> QED BY <1>0, <2>2, <2>3, <2>4, <2>5, <2>7, <2>8 DEF RoundInv, OneRound
<1> QED BY <1>1, <1>2, <1>3, <1>4, <1>5 DEF Next

LEMMA RoundInvInit ==
  ASSUME PowerSwitched, Init
  PROVE  RoundInv
<1>1. known = ModulesOf(cfg) /\ values = << >> /\ pushed = << >>
  BY DEF Init, GatewayInit
<1>2. \A m \in Node : Asleep(m)
  BY DEF Init, ModuleInit, Asleep, Quiet, At, Idle
<1> QED BY <1>1, <1>2 DEF RoundInv, OneRound, PushWhole

LEMMA CalmCorrect ==
  ASSUME WideTypes, WellConfigured, Timely, PowerSwitched
  PROVE  Spec => []CalmInv
<1> DEFINE Inv == TypeOK /\ FreshInv /\ CalmInv
<1>0. AllContiguous /\ AllSpaced
  BY DEF WellConfigured
<1>1. Init => Inv
  <2> SUFFICES ASSUME Init PROVE Inv
    OBVIOUS
  <2>1. TypeOK /\ GatewayInit
    BY RoundInitType DEF Init
  <2>2. IteratorsCover /\ NothingAskedAhead
    BY <2>1, CoverInit DEF GatewayInit, NothingAskedAhead, NotAhead
  <2>3. RoundInv
    BY RoundInvInit
  <2> QED BY <2>1, <2>2, <2>3 DEF FreshInv, CoverInv, CalmInv, TypeOK
<1>2. Inv /\ [Next]_vars => Inv'
  <2> SUFFICES ASSUME Inv, [Next]_vars PROVE Inv'
    OBVIOUS
  <2>1. TypeOK'
    BY RoundNextType
  <2>2. FreshInv'
    <3>1. [GatewayNext]_gatewayVars
      BY RoundParts, GatewaySteps
    <3> QED BY <1>0, <3>1, FreshNext
  <2>3. ASSUME Undisturbed' PROVE RoundInv'
    BY <2>1, <2>3, CalmBefore, RoundInvStep DEF CalmInv
  <2> QED BY <2>1, <2>2, <2>3 DEF CalmInv
<1> QED BY <1>1, <1>2, PTL DEF Spec

(* As long as no frame is lost, no measure fails and the gateway is not     *)
(* started again, every push hands over exactly one value of each activated *)
(* sensor of the module: for any number of modules, boards and sensors, and *)
(* however the two programs and the radio interleave in the intended        *)
(* timing.  next_measure, wait_for_command and push_data share no counter:  *)
(* each result moves the gateway's iterator by the one sensor it is of.     *)
(* Needs boards side by side, none with several sensors right after another *)
(* such board, all on their buses, and modules that D0 powers.              *)
THEOREM RoundsAreComplete ==
  ASSUME WideTypes, WellConfigured, Timely, PowerSwitched
  PROVE  Spec => []RoundComplete
<1>1. CalmInv => RoundComplete
  BY DEF CalmInv, RoundInv, PushWhole, OneEach, RoundComplete
<1> QED BY <1>1, CalmCorrect, PTL

(* From the same invariant: the values a push hands over are all of the     *)
(* module that is going to sleep, though values_list is one for all         *)
(* modules: no module is woken before the values of the last one are        *)
(* pushed (wake_up, push_data).                                             *)
THEOREM PushesAreOwn ==
  ASSUME WideTypes, WellConfigured, Timely, PowerSwitched
  PROVE  Spec => []PushesOwnValues
<1>1. CalmInv => PushesOwnValues
  BY DEF CalmInv, RoundInv, PushWhole, OneEach, PushesOwnValues
<1> QED BY <1>1, CalmCorrect, PTL
=============================================================================
