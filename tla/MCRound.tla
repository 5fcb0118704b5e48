------------------------------- MODULE MCRound -------------------------------
(* Small networks for TLC.  The environment board measures fan and noise    *)
(* (the fan is an action), the dust board dust, the sensoric board two      *)
(* gases, as the shipped boards do; the environment board's third measure   *)
(* is left out, two being enough to have a first, a next and a last one.    *)
EXTENDS MeasureRound, TLC

CONSTANTS m1, m2, environment, dust, sensoric

Fan   == [addr |-> environment, reg |-> 0, ignored |-> TRUE]
Noise == [addr |-> environment, reg |-> 1, ignored |-> FALSE]
Dust  == [addr |-> dust,        reg |-> 0, ignored |-> FALSE]
NO2   == [addr |-> sensoric,    reg |-> 0, ignored |-> FALSE]
CO    == [addr |-> sensoric,    reg |-> 1, ignored |-> FALSE]

MCAddr == {environment, dust, sensoric}
MCRegisters == environment :> 2 @@ dust :> 1 @@ sensoric :> 2
AllFitted == [n \in Node |-> MCAddr]
NoDustFitted == [n \in Node |-> MCAddr \ {dust}]
MCData == Measure \cup {Junk}

Tables(layout) ==
  [listed  |-> {n \in Node : layout[n] # << >>},
   ordered |-> layout,
   boards  |-> [n \in Node |-> [a \in MCAddr |->
                  SelectSeq(layout[n], LAMBDA s : s.addr = a)]]]

On(nodes, sensors) == Tables([n \in Node |-> IF n \in nodes THEN sensors ELSE << >>])

Full    == On(Node, << Fan, Noise, Dust, NO2, CO >>)
Shipped == On(Node, << Fan, Noise, Dust >>)
NoFan   == On(Node, << Noise, Dust, NO2, CO >>)
(* A board with several sensors first, and one last.                        *)
ShippedOnce == On({m1}, << Fan, Noise, Dust >>)
GasesOnce   == On({m1}, << Dust, NO2, CO >>)

DustFirst == On(Node, << Dust, Fan, Noise >>)

OneOrTwo == {Full, Shipped, ShippedOnce, GasesOnce}
OnlyShipped == {Shipped}
OnlyNoFan == {NoFan}
OnlyDustFirst == {DustFirst}

(* Two modules are left undisturbed, one module meets every fault: a bound  *)
(* on what TLC explores, the network itself has no such limit.              *)
AtMostOne(c) == \A m, n \in c.listed : m = n
FaultsOnlyAlone ==
  ~(AtMostOne(cfg) /\ AtMostOne(cfg')) => UNCHANGED << losses, glitches, restarts >>
=============================================================================
