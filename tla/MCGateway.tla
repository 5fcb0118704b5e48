----------------------------- MODULE MCGateway -----------------------------
(* Small configurations of the gateway for TLC.  m1 is the module of        *)
(* conf/sensors.json; m2 a second module, or a stranger when it has no      *)
(* sensors.                                                                 *)
EXTENDS Gateway, TLC

CONSTANTS m1, m2, environment, dust, sensoric

(* The sensors of conf/sensors_list.json, in its order.                     *)
Fan   == [addr |-> environment, reg |-> 0, ignored |-> TRUE]
Noise == [addr |-> environment, reg |-> 1, ignored |-> FALSE]
Temp  == [addr |-> environment, reg |-> 2, ignored |-> FALSE]
Dust  == [addr |-> dust,        reg |-> 0, ignored |-> FALSE]
NO2   == [addr |-> sensoric,    reg |-> 0, ignored |-> FALSE]
CO    == [addr |-> sensoric,    reg |-> 1, ignored |-> FALSE]

MCAddr == {environment, dust, sensoric}

(* The tables load_sensors builds from the activated sensors of each module.*)
Tables(m1Sensors, m2Sensors) ==
  LET ordered == m1 :> m1Sensors @@ m2 :> m2Sensors
  IN [listed  |-> {n \in {m1, m2} : ordered[n] # << >>},
      ordered |-> ordered,
      boards  |-> [n \in {m1, m2} |-> [a \in MCAddr |->
                     SelectSeq(ordered[n], LAMBDA s : s.addr = a)]]]

Full    == << Fan, Noise, Temp, Dust, NO2, CO >>
Shipped == << Fan, Noise, Temp, Dust >>
Singles == << Temp, Dust, CO >>
(* Dust taken off the full list: two boards with several sensors touch.     *)
NoDust  == << Fan, Noise, Temp, NO2, CO >>

OneModule  == {Tables(s, << >>) : s \in {Full, Shipped, Singles}}
TwoModules == {Tables(Shipped, Singles)}
Touching   == {Tables(NoDust, << >>)}
Nobody     == {Tables(<< >>, << >>)}
AnyNumber  == OneModule \cup TwoModules \cup Nobody
=============================================================================
