------------------------------- MODULE Readout -------------------------------
(***************************************************************************)
(* What one do_measure of the firmware promises, without the bus: a call   *)
(* sends the reading of the measure the board's counter is at and moves    *)
(* the counter on, or is refused and moves nothing.  A broken transfer may *)
(* spoil the call it falls in and the one behind it; of a spoilt call the  *)
(* board may or may not have measured, and anything may be sent.  BoardBus *)
(* implements this, and Wakeupduino takes a call as one step: it succeeds, *)
(* is refused, or is garbled.                                              *)
(***************************************************************************)
EXTENDS Naturals

CONSTANTS Registers, Readings, MaxFaults,
          Result,   \* what a call may send
          Nothing   \* it sends nothing

VARIABLES
  counter,  \* the measure the board makes next
  call,     \* "running", or how the call has ended
  result,   \* what it has sent
  upset,    \* calls, this one included, that may still be spoilt
  faults    \* broken transfers

readoutVars == << counter, call, result, upset, faults >>

Init ==
  /\ counter = 0 /\ call = "running" /\ result = Nothing
  /\ upset = 0 /\ faults = 0

Breaks == faults < MaxFaults /\ faults' = faults + 1 /\ upset' = 2
Holds == UNCHANGED << faults, upset >>

Advances == counter' = IF counter + 1 = Registers THEN 0 ELSE counter + 1

(* A transfer breaks off and the call goes on.                              *)
Disturbed ==
  /\ call = "running"
  /\ Breaks
  /\ UNCHANGED << counter, call, result >>

Succeeds ==
  /\ call = "running" /\ upset = 0
  /\ call' = "sent"
  /\ Advances /\ result' \in Readings[counter]
  /\ Holds

Refused ==
  /\ call = "running"
  /\ Breaks
  /\ call' = "refused"
  /\ UNCHANGED << counter, result >>

Garbled ==
  /\ call = "running"
  /\ Breaks \/ (upset > 0 /\ Holds)
  /\ call' = "sent"
  /\ Advances \/ UNCHANGED counter
  /\ result' \in Result \cup {Nothing}

NextCall ==
  /\ call # "running" /\ call' = "running"
  /\ result' = Nothing
  /\ upset' = IF upset = 0 THEN 0 ELSE upset - 1
  /\ UNCHANGED << counter, faults >>

Next == Disturbed \/ Succeeds \/ Refused \/ Garbled \/ NextCall

Spec == Init /\ [][Next]_readoutVars
=============================================================================
