------------------------------- MODULE Polling -------------------------------
(***************************************************************************)
(* What the polling process of the gateway promises, without iterators,    *)
(* indices or frames: in one pass over a module each of its boards is      *)
(* asked once, the module is sent to sleep only when none is left to ask,  *)
(* and the push that follows hands over all that was stored since the last *)
(* one, in order.  The process may stop at any time; a restart forgets     *)
(* what was stored and begins every pass anew.  Gateway implements this.   *)
(***************************************************************************)
EXTENDS Sequences

CONSTANTS Module,
          Layouts,    \* boards per module a configuration may name
          Value

VARIABLES
  up,       \* the process runs
  boards,   \* per module: its boards
  todo,     \* per module: boards not asked yet in this pass
  store,    \* values that wait for a push
  asks,     \* requests of the last step: << module, board >>
  halts,    \* modules the last step sent to sleep
  given     \* the push of the last step: << >> or << push >>

pollingVars == << up, boards, todo, store, asks, halts, given >>

Silent == asks' = {} /\ halts' = {}

Init ==
  /\ up \in BOOLEAN
  /\ boards \in Layouts /\ todo = boards
  /\ store = << >>
  /\ asks = {} /\ halts = {} /\ given = << >>

Restart ==
  /\ up' \in BOOLEAN
  /\ boards' \in Layouts /\ todo' = boards'
  /\ store' = << >>
  /\ Silent /\ given' = << >>

MayStore == store' = store \/ \E v \in Value : store' = Append(store, v)

Stop ==
  /\ up /\ up' = FALSE
  /\ MayStore
  /\ Silent /\ given' = << >>
  /\ UNCHANGED << boards, todo >>

Wake(n) ==
  /\ up
  /\ todo' = [todo EXCEPT ![n] = boards[n]]
  /\ Silent /\ given' = << >>
  /\ UNCHANGED << up, boards, store >>

(* The answer to a frame.                                                   *)
Wait == Silent /\ UNCHANGED todo

AskBoard(n) ==
  \E a \in todo[n] :
    /\ asks' = {<< n, a >>} /\ halts' = {}
    /\ todo' = [todo EXCEPT ![n] = @ \ {a}]

HaltModule(n) ==
  /\ todo[n] = {} /\ todo' = [todo EXCEPT ![n] = boards[n]]
  /\ asks' = {} /\ halts' = {n}

AnswerFrame ==
  /\ up
  /\ Wait \/ \E n \in Module : AskBoard(n) \/ HaltModule(n)
  /\ MayStore
  /\ given' = << >>
  /\ UNCHANGED << up, boards >>

Push(n) ==
  /\ up
  /\ given' = << [to |-> n, values |-> store] >>
  /\ store' = << >>
  /\ Silent
  /\ UNCHANGED << up, boards, todo >>

Next ==
  \/ Restart \/ Stop \/ AnswerFrame
  \/ \E n \in Module : Wake(n) \/ Push(n)

Spec == Init /\ [][Next]_pollingVars
=============================================================================
