------------------------------ MODULE Datastores ------------------------------
(***************************************************************************)
(* The values of a round on their way to the datastores: Pollux_prober     *)
(* collects them, push_data adds where the gateway is and hands the list   *)
(* to the Python plugin of each activated datastore, whatever the others   *)
(* answered, and PolluxExtension makes new Python objects of it for each.  *)
(* But all the plugins share one interpreter, where an error that was not  *)
(* cleared is still set in the turns that follow.  pollux_calibrator is    *)
(* the same program but for the loop of push_data: it empties the list in  *)
(* the first turn and reads the answers otherwise.                         *)
(***************************************************************************)
EXTENDS Integers, Sequences, FiniteSets

CONSTANTS Name,        \* datastores, in the order of datastores_map
          Switch,      \* what "activated" may say; "unset" where it is missing
          MaxRounds, MaxMeasures   \* bounds

ASSUME DatastoresAssumption ==
  /\ Name \in Seq(STRING) /\ {"true", "false", "unset"} \subseteq Switch
  /\ MaxRounds \in Nat /\ MaxMeasures \in Nat

VARIABLES calibrating, \* the program is pollux_calibrator
          activated,   \* per datastore
          altitude,    \* it is configured; latitude and longitude always are
          installed,   \* datastores whose plugin can be loaded
          values_list,
          round,
          store_it,    \* the next datastore to push to, 0 between pushes
          led,         \* the colour of the last flash
          pending,     \* an error is set in the Python interpreter
          faulty,      \* one has been, since the gateway started
          given        \* per datastore: its plugin's calls, <<round, list>>

settings == << calibrating, activated, altitude, installed >>
python == << pending, faulty >>
pushVars == << settings, values_list, round, store_it, led, python, given >>

Index == DOMAIN Name
Location ==
  << << "latitude", 0 >>, << "longitude", 0 >> >>
    \o (IF altitude THEN << << "altitude", 0 >> >> ELSE << >>)

PushTypeOK ==
  /\ activated \in [Index -> Switch] /\ {altitude, calibrating} \subseteq BOOLEAN
  /\ installed \in SUBSET Index /\ led \in {"none", "GREEN", "RED"}
  /\ Len(values_list) <= (MaxMeasures + Len(Location))
                           * IF calibrating THEN MaxRounds ELSE 1
  /\ round \in 0 .. MaxRounds /\ store_it \in 0 .. Len(Name) + 1
  /\ {pending, faulty} \subseteq BOOLEAN
  /\ \A i \in Index : Len(given[i]) <= MaxRounds

PushInit ==
  /\ activated \in [Index -> Switch] /\ altitude \in BOOLEAN
  /\ installed \in SUBSET Index /\ calibrating \in BOOLEAN /\ led = "none"
  /\ values_list = << >> /\ round = 0 /\ store_it = 0
  /\ pending = FALSE /\ faulty = FALSE
  /\ given = [i \in Index |-> << >>]

(* store_measure, for a result of a known sensor.                           *)
StoreMeasure ==
  /\ store_it = 0 /\ round < MaxRounds
  /\ Cardinality({k \in DOMAIN values_list : values_list[k] = << "measure", round >>})
       < MaxMeasures
  /\ values_list' = Append(values_list, << "measure", round >>)
  /\ UNCHANGED << settings, round, store_it, led, python, given >>

(* push_data, by the halt of a module.                                      *)
PushBegins ==
  /\ store_it = 0 /\ round < MaxRounds /\ store_it' = 1
  /\ values_list' = values_list \o Location
  /\ UNCHANGED << settings, round, led, python, given >>

(* What push_to_datastore makes of a plugin's answer: None, which pachube   *)
(* returns for a success, is no number.                                     *)
Ret(answer) == CASE answer = "1" -> 1 [] answer \in {"-1", "None"} -> 0 - 1
                 [] answer \in {"raises", "missing"} -> 0

(* A plugin may miss its call because of the error of another one.          *)
Answers(i) ==
  (IF i \in installed THEN {"1", "-1", "None", "raises"} ELSE {})
    \cup (IF i \notin installed \/ pending THEN {"missing"} ELSE {})

(* An import that failed leaves its error, and so does PyInt_AsLong of      *)
(* None; PyErr_Print clears one.  Otherwise what was set may be cleared on  *)
(* the way to the plugin, or not.                                           *)
Leaves(answer) ==
  CASE answer \in {"missing", "None"} -> {TRUE}
    [] answer = "raises" -> {FALSE}
    [] OTHER -> {FALSE, pending}

Turn(i) == activated[i] # "false"

(* Of the plugin's answers the calibrator takes the 0 of one that raised or *)
(* could not be loaded for the success.                                     *)
Success(ret) == IF calibrating THEN ret = 0 ELSE ret > 0

(* The calibrator deletes the values, and clears the list, inside the loop. *)
AfterTurn == IF calibrating /\ Turn(store_it) THEN << >> ELSE values_list

Push_StopsOnFailure ==  \* mutant: the loop over the datastores ends at a failure
  /\ store_it \in Index
  /\ IF ~Turn(store_it) THEN store_it' = store_it + 1 /\ UNCHANGED << led, python, given >>
     ELSE \E answer \in Answers(store_it) :
            /\ store_it' = IF Success(Ret(answer)) THEN store_it + 1 ELSE Len(Name) + 1
            /\ led' = IF Success(Ret(answer)) THEN "GREEN" ELSE "RED"
            /\ pending' \in Leaves(answer) /\ faulty' = (faulty \/ pending')
            /\ given' = IF answer = "missing" THEN given
                        ELSE [given EXCEPT ![store_it] = Append(@, << round, values_list >>)]
  /\ values_list' = AfterTurn
  /\ UNCHANGED << settings, round >>

(* One turn of the loop: the plugin of an activated datastore is called     *)
(* with a list of its own, and its answer is shown and forgotten.           *)
Push ==
  /\ store_it \in Index /\ store_it' = store_it + 1
  /\ IF ~Turn(store_it) THEN UNCHANGED << led, python, given >>
     ELSE \E answer \in Answers(store_it) :
            /\ led' = IF Success(Ret(answer)) THEN "GREEN" ELSE "RED"
            /\ pending' \in Leaves(answer) /\ faulty' = (faulty \/ pending')
            /\ given' = IF answer = "missing" THEN given
                        ELSE [given EXCEPT ![store_it] = Append(@, << round, values_list >>)]
  /\ values_list' = AfterTurn
  /\ UNCHANGED << settings, round >>

PushEnds_KeepsValues ==  \* mutant: the list is not cleared
  /\ store_it = Len(Name) + 1 /\ store_it' = 0
  /\ round' = round + 1
  /\ UNCHANGED << settings, values_list, led, python, given >>

(* The gateway clears the list, whatever the datastores answered.           *)
PushEnds ==
  /\ store_it = Len(Name) + 1 /\ store_it' = 0
  /\ values_list' = IF calibrating THEN values_list ELSE << >>
  /\ round' = round + 1
  /\ UNCHANGED << settings, led, python, given >>

PushStep == StoreMeasure \/ PushBegins \/ Push \/ PushEnds
PushSpec == PushInit /\ [][PushStep]_pushVars

-----------------------------------------------------------------------------
(* The list of a round: so many values of that round, and where they were   *)
(* measured.                                                                *)
Measured(r, n) == [k \in 1 .. n |-> << "measure", r >>]
IsRound(list, r) == \E n \in 0 .. MaxMeasures : list = Measured(r, n) \o Location

(* An activated datastore is given the rounds in order, none twice, with    *)
(* nothing in them but the values of that round and the gateway's location  *)
(* once, whatever the plugins before it answered; and it is given each of   *)
(* them, as long as no plugin was missing or answered None: the error that  *)
(* such a one leaves may make any other miss its call.  Of the calibrator   *)
(* this is true of the first activated datastore only: those behind it are  *)
(* called with an empty list, though pollux_calibrator.h:64 has the data    *)
(* sent to all of them (push_data, push_to_datastore).                      *)
EachGetsEachRound ==
  \A i \in Index :
    /\ ~Turn(i) \/ i \notin installed => given[i] = << >>
    /\ Turn(i) /\ i \in installed /\ ~faulty =>
         Len(given[i]) = IF i < store_it THEN round + 1 ELSE round
    /\ \A k, l \in DOMAIN given[i] : k < l => given[i][k][1] < given[i][l][1]
    /\ \A k \in DOMAIN given[i] :
         IF calibrating /\ \E j \in Index : j < i /\ Turn(j)
         THEN given[i][k][2] = << >>
         ELSE IsRound(given[i][k][2], given[i][k][1])
=============================================================================
