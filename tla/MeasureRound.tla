---------------------------- MODULE MeasureRound ----------------------------
(***************************************************************************)
(* A gateway and its sensor modules on one ZigBee network: the processes   *)
(* of Gateway and Wakeupduino, joined by one FIFO per module and direction *)
(* that may lose frames.                                                   *)
(*                                                                         *)
(* Timely is the schedule the constants of the code aim at: a transmission *)
(* is reported before it is answered, a time-out runs out only when        *)
(* nothing is on its way, and wud_sleep_time is longer than a round.       *)
(***************************************************************************)
EXTENDS Gateway, Wakeupduino, FiniteSets

CONSTANTS Timely,      \* time-outs and answers come in the intended order
          MaxLosses,   \* bound: frames the radio loses
          MaxRestarts  \* bound: restarts of the gateway

ASSUME NetworkAssumption ==
  Timely \in BOOLEAN /\ MaxLosses \in Nat /\ MaxRestarts \in Nat

VARIABLES air,         \* per module: frames of the gateway on their way
          losses, restarts

vars == << gatewayVars, moduleVars, air, losses, restarts >>

TypeOK ==
  /\ GatewayTypeOK
  /\ ModuleTypeOK
  /\ air \in [Node -> Seq(Commands)]
  /\ losses \in 0 .. MaxLosses /\ restarts \in 0 .. MaxRestarts

Init ==
  /\ GatewayInit
  /\ ModuleInit
  /\ air = [n \in Node |-> << >>]
  /\ losses = 0 /\ restarts = 0

-----------------------------------------------------------------------------
(* What a handler sent, all of it to one module, goes on the air in order.  *)
OnAir ==
  /\ air' = [n \in Node |-> IF sent' # << >> /\ Head(sent').to = n
                            THEN air[n] \o sent' ELSE air[n]]
  /\ \A n \in Node : Len(air'[n]) <= MaxQueue

(* Nothing is on its way between the gateway and n.                         *)
Quiet(n) ==
  /\ air[n] = << >> /\ up[n] = << >>
  /\ inbox[n] = << >> /\ statusDue[n] = 0

GatewayReceives(n) ==
  /\ up[n] # << >>
  /\ LET frame == Head(up[n]) IN
     \/ frame.cmd = "INIT" /\ RecvInit(n)
     \/ frame.cmd = "MEAS" /\ RecvMeas(n, frame.addr, frame.reg, TRUE, frame.data)
     \/ frame.cmd = "HALT" /\ RecvHalt(n)
  /\ up' = [up EXCEPT ![n] = Tail(@)]
  /\ OnAir
  /\ UNCHANGED << fw, counter, inbox, statusDue, glitches, losses, restarts >>

(* begin() wakes a module; so does a poll that sees no frame for            *)
(* wud_sleep_time seconds.                                                  *)
GatewayWakes ==
  /\ Timely /\ proc = "polling" => \A n \in Node : Quiet(n) /\ At(n, "off")
  /\ WakeUp
  /\ OnAir
  /\ UNCHANGED << moduleVars, losses, restarts >>

GatewayRestarts ==
  /\ restarts < MaxRestarts /\ restarts' = restarts + 1
  /\ Restart
  /\ UNCHANGED << moduleVars, air, losses >>

-----------------------------------------------------------------------------
(* A frame of the gateway reaches the XBee of the module, which acts on D0  *)
(* itself and passes the rest on.                                           *)
RadioDelivers(n) ==
  /\ air[n] # << >>
  /\ Timely => statusDue[n] = 0
  /\ LET frame == Head(air[n]) IN
     \/ frame.cmd = "D0" /\ frame.level = "HIGH" /\ PinHigh(n)
     \/ frame.cmd = "D0" /\ frame.level = "LOW" /\ PinLow(n)
     \/ frame.cmd = "MEAS" /\ Deliver(n, MeasCommand(frame.addr, frame.nb))
     \/ frame.cmd = "HALT" /\ Deliver(n, HaltCommand)
  /\ air' = [air EXCEPT ![n] = Tail(@)]
  /\ UNCHANGED << gatewayVars, losses, restarts >>

RadioLoses(n) ==
  /\ losses < MaxLosses /\ losses' = losses + 1
  /\ \/ /\ air[n] # << >>
        /\ air' = [air EXCEPT ![n] = Tail(@)]
        /\ UNCHANGED up
     \/ /\ up[n] # << >>
        /\ up' = [up EXCEPT ![n] = Tail(@)]
        /\ UNCHANGED air
  /\ UNCHANGED << gatewayVars, fw, counter, inbox, statusDue, glitches, restarts >>

Module(n, A) == A /\ UNCHANGED << gatewayVars, air, losses, restarts >>

ModuleRuns(n) == Module(n, Runs(n))
RadioReports(n) == Module(n, ReportStatus(n))
(* The drain outlasts what the modem still had to say.                      *)
ModuleDrained(n) == Module(n, (Timely => Quiet(n)) /\ DrainEnds(n))
ModuleSeesNoStatus(n) == Module(n, ~Timely /\ StatusTimeout(n))
ModuleTimesOut(n) == Module(n, (Timely => Quiet(n)) /\ CommandTimeout(n))

Next ==
  \/ GatewayWakes
  \/ GatewayRestarts
  \/ \E n \in Node :
       \/ GatewayReceives(n) \/ RadioDelivers(n) \/ RadioLoses(n)
       \/ ModuleRuns(n) \/ RadioReports(n) \/ ModuleDrained(n)
       \/ ModuleSeesNoStatus(n) \/ ModuleTimesOut(n)

Spec == Init /\ [][Next]_vars

(* The gateway polls for ever, the radio works for ever and the firmware    *)
(* runs for ever; losses, glitches and restarts just may happen.            *)
Fairness ==
  /\ WF_vars(GatewayWakes)
  /\ \A n \in Node :
       /\ WF_vars(GatewayReceives(n)) /\ WF_vars(RadioDelivers(n))
       /\ WF_vars(RadioReports(n))
       /\ WF_vars(ModuleRuns(n)) /\ WF_vars(ModuleDrained(n))
       /\ WF_vars(ModuleTimesOut(n))

FairSpec == Spec /\ Fairness

-----------------------------------------------------------------------------
(* A value carries the name of the sensor that measured it.                 *)
Right(v) == v.data = << v.sensor.addr, v.sensor.reg >>

(* Whatever the radio loses and however the timers run, no sensor's value   *)
(* is stored under another sensor's name: the gateway's index, the loop     *)
(* variable of the firmware and the counter of the board agree              *)
(* (store_measure, wait_for_command, sensor_meas).  Needs every register of *)
(* a board activated, in the board's order, and no failed I2C transfer.     *)
LabelsRight == \A i \in DOMAIN values : Right(values[i])

(* The sensors of module n that report a value.                             *)
Reporting(n) ==
  {cfg.ordered[n][i] : i \in {j \in DOMAIN cfg.ordered[n] :
                                ~cfg.ordered[n][j].ignored}}

(* Nothing was lost, no measure failed, the gateway was not restarted.      *)
Undisturbed == losses = 0 /\ glitches = 0 /\ restarts = 0

(* As long as nothing disturbs the network, each push hands over exactly    *)
(* one value of every activated sensor of the module (next_measure,         *)
(* push_data).                                                              *)
RoundComplete ==
  Undisturbed => \A i \in DOMAIN pushed :
    LET n == pushed[i].to
        vs == pushed[i].values
    IN  /\ {vs[j].sensor : j \in DOMAIN vs} = Reporting(n)
        /\ Len(vs) = Cardinality(Reporting(n))

(* The gateway stores each result and asks for the next one                 *)
(* (pollux_observer.h:50), also after a restart in the middle of a round.   *)
GatewayAlive == proc # "crashed"

(* As long as nothing disturbs the network, push_data(module) pushes values *)
(* of that module only (pollux_prober.h:64): values_list is shared by the   *)
(* modules, and a round that breaks off leaves its values to the next one.  *)
PushesOwnValues ==
  Undisturbed => \A i \in DOMAIN pushed : \A j \in DOMAIN pushed[i].values :
    pushed[i].values[j].node = pushed[i].to

(* Values reach the datastores again and again: a lost frame costs a round  *)
(* and no more (wake_up on poll time-out, the firmware's time-out), unless  *)
(* the process was aborted while it loaded its configuration.               *)
PushedAgain ==
  []<>(proc = "aborted" \/ \E i \in DOMAIN pushed : pushed[i].values # << >>)
=============================================================================
