-------------------------------- MODULE Button --------------------------------
(***************************************************************************)
(* The button plugin of bootstrap.js: a button that is given a state, for  *)
(* a form under way, and a group of buttons that toggle.  The text changes *)
(* at once, the disabling in a later turn of the event loop.               *)
(***************************************************************************)
EXTENDS Sequences, Naturals

CONSTANTS State,      \* the states a page gives the button, "reset" among them
          Original,   \* its first text
          Knob,       \* the buttons of a group
          MaxTurns    \* bound: turns of the event loop that are due

ASSUME ButtonAssumption ==
  {"loading", "reset"} \subseteq State /\ Original \notin State /\ MaxTurns \in Nat

VARIABLES text,
          resetText,   \* kept by the first setState, Original before
          kept,        \* there is one
          turns,       \* states whose setTimeout 0 is due
          disabled,
          last,        \* the state set last
          radio,       \* the group is buttons-radio
          pressed      \* its buttons with the class active

buttonVars == << text, resetText, kept, turns, disabled, last, radio, pressed >>

ButtonTypeOK ==
  /\ {text, resetText} \subseteq State \cup {Original} /\ last \in State
  /\ turns \in Seq(State) /\ {kept, disabled, radio} \subseteq BOOLEAN
  /\ pressed \in SUBSET Knob

ButtonInit ==
  /\ text = Original /\ resetText = Original /\ kept = FALSE
  /\ turns = << >> /\ disabled = FALSE /\ last = "reset"
  /\ radio \in BOOLEAN /\ pressed = {}

SetState_KeepsText(s) ==  \* mutant: resetText is kept each time
  /\ Len(turns) < MaxTurns
  /\ kept' = TRUE
  /\ resetText' = text
  /\ text' = IF s = "reset" THEN resetText' ELSE s
  /\ turns' = Append(turns, s) /\ last' = s
  /\ UNCHANGED << disabled, radio, pressed >>

SetState(s) ==
  /\ Len(turns) < MaxTurns
  /\ kept' = TRUE
  /\ resetText' = IF kept THEN resetText ELSE text
  /\ text' = IF s = "reset" THEN resetText' ELSE s
  /\ turns' = Append(turns, s) /\ last' = s
  /\ UNCHANGED << disabled, radio, pressed >>

(* Only loading disables the button; every other state enables it.          *)
TurnRuns ==
  /\ turns # << >> /\ turns' = Tail(turns)
  /\ disabled' = (Head(turns) = "loading")
  /\ UNCHANGED << text, resetText, kept, last, radio, pressed >>

(* toggle: a radio group lets go of its active buttons first.               *)
ToggleKnob(k) ==
  /\ LET others == IF radio THEN {} ELSE pressed
     IN  pressed' = IF k \in others THEN others \ {k} ELSE others \cup {k}
  /\ UNCHANGED << text, resetText, kept, turns, disabled, last, radio >>

ButtonStep ==
  \/ TurnRuns
  \/ \E s \in State : SetState(s)
  \/ \E k \in Knob : ToggleKnob(k)

ButtonSpec == ButtonInit /\ [][ButtonStep]_buttonVars

-----------------------------------------------------------------------------
(* Whatever states were set in one turn, the button ends up as the last one *)
(* says: disabled while loading, its first text back after a reset          *)
(* (setState: resetText, the order of the timers).                          *)
ButtonSettles ==
  /\ turns = << >> => (disabled <=> last = "loading")
  /\ text = IF last = "reset" THEN Original ELSE last
=============================================================================
