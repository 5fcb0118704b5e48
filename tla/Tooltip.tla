------------------------------- MODULE Tooltip -------------------------------
(***************************************************************************)
(* One tooltip or popover of bootstrap.js.  It follows the mouse with two  *)
(* delays; hide takes the tip out of the document at the end of its        *)
(* transition or half a second later, and show, which takes the tip out    *)
(* and puts it back, unbinds the handler of that end but not the timer.    *)
(***************************************************************************)
EXTENDS Transition, Naturals

CONSTANT MaxPending   \* bound: timers of a kind that are running

ASSUME TooltipAssumption == MaxPending \in Nat

VARIABLES manual,      \* the option trigger
          delay,       \* which delays are not 0: subset of {"show", "hide"}
          animation,   \* the option animation
          type,        \* tooltip or popover
          title, body, \* there is a title; there is a content
          enabled,
          hovered,     \* the mouse is over the element
          hoverState,  \* in, out, or unset
          showTimers, hideTimers,   \* delayed shows and hides
          inDocument,  \* the tip is in the document
          tipIn,       \* the tip has the class in
          everFaded,   \* the tip has the class fade
          bound,       \* removals bound to the tip's end, each with a timer
          loose,       \* timers of removals that are not bound any more
          reshown,     \* it was shown again while a removal was pending
          switched     \* it was enabled or disabled

tooltipVars == << manual, delay, animation, type, title, body, enabled, hovered,
                  hoverState, showTimers, hideTimers, inDocument, tipIn, everFaded, bound,
                  loose, reshown, switched >>
options == << manual, delay, animation, type, title, body >>

(* A popover is a tooltip with another template and a content of its own.   *)
Types == {"tooltip", "popover"}

TooltipTypeOK ==
  /\ {manual, animation, title, body, enabled, hovered, inDocument, tipIn,
      everFaded, reshown, switched} \subseteq BOOLEAN
  /\ type \in Types
  /\ delay \in SUBSET {"show", "hide"} /\ hoverState \in {"unset", "in", "out"}
  /\ {showTimers, hideTimers, bound, loose} \subseteq 0 .. MaxPending

TooltipInit ==
  /\ manual \in BOOLEAN /\ animation \in BOOLEAN
  /\ type \in Types /\ title \in BOOLEAN /\ body \in BOOLEAN
  /\ delay \in SUBSET {"show", "hide"}
  /\ enabled = TRUE /\ hovered = FALSE /\ hoverState = "unset"
  /\ showTimers = 0 /\ hideTimers = 0
  /\ inDocument = FALSE /\ tipIn = FALSE /\ everFaded = FALSE
  /\ bound = 0 /\ loose = 0 /\ reshown = FALSE /\ switched = FALSE

HasContent == title \/ (type = "popover" /\ body)

(* show.  A tip that has nothing to say or is disabled is not touched.      *)
ShowTip ==
  IF HasContent /\ enabled
  THEN /\ inDocument' = TRUE /\ tipIn' = TRUE
       /\ everFaded' = animation
       /\ loose' = loose + bound /\ bound' = 0
       /\ reshown' = (reshown \/ loose + bound > 0)
  ELSE UNCHANGED << inDocument, tipIn, everFaded, bound, loose, reshown >>

(* hide.                                                                    *)
HideTip ==
  /\ tipIn' = FALSE
  /\ IF support /\ everFaded
     THEN /\ bound + loose < MaxPending /\ bound' = bound + 1
          /\ UNCHANGED << inDocument, loose >>
     ELSE /\ inDocument' = FALSE
          /\ loose' = loose + bound /\ bound' = 0
  /\ UNCHANGED << everFaded, reshown >>

(* enter and leave: at once, or after the delay.                            *)
Enter ==
  /\ ~manual /\ ~hovered /\ hovered' = TRUE
  /\ IF "show" \in delay
     THEN /\ hoverState' = "in"
          /\ showTimers < MaxPending /\ showTimers' = showTimers + 1
          /\ UNCHANGED << inDocument, tipIn, everFaded, bound, loose, reshown >>
     ELSE ShowTip /\ UNCHANGED << hoverState, showTimers >>
  /\ UNCHANGED << options, enabled, switched, hideTimers >>

Leave ==
  /\ ~manual /\ hovered /\ hovered' = FALSE
  /\ IF "hide" \in delay
     THEN /\ hoverState' = "out"
          /\ hideTimers < MaxPending /\ hideTimers' = hideTimers + 1
          /\ UNCHANGED << inDocument, tipIn, everFaded, bound, loose, reshown >>
     ELSE HideTip /\ UNCHANGED << hoverState, hideTimers >>
  /\ UNCHANGED << options, enabled, switched, showTimers >>

(* A delay is over.                                                         *)
ShowDelayEnds ==
  /\ showTimers > 0 /\ showTimers' = showTimers - 1
  /\ IF hoverState = "in" THEN ShowTip
     ELSE UNCHANGED << inDocument, tipIn, everFaded, bound, loose, reshown >>
  /\ UNCHANGED << options, enabled, switched, hovered, hoverState, hideTimers >>

HideDelayEnds_Unchecked ==  \* mutant: hoverState is not looked at
  /\ hideTimers > 0 /\ hideTimers' = hideTimers - 1
  /\ HideTip
  /\ UNCHANGED << options, enabled, switched, hovered, hoverState, showTimers >>

HideDelayEnds ==
  /\ hideTimers > 0 /\ hideTimers' = hideTimers - 1
  /\ IF hoverState = "out" THEN HideTip
     ELSE UNCHANGED << inDocument, tipIn, everFaded, bound, loose, reshown >>
  /\ UNCHANGED << options, enabled, switched, hovered, hoverState, showTimers >>

(* The fading tip's transition ends: every removal clears its own timer.    *)
RemovalEnds ==
  /\ bound > 0 /\ inDocument
  /\ bound' = 0 /\ inDocument' = FALSE
  /\ UNCHANGED << options, enabled, switched, hovered, hoverState, showTimers,
                  hideTimers, tipIn, everFaded, loose, reshown >>

(* Half a second after a hide: the tip is taken out, whatever it shows.     *)
RemovalTimer ==
  /\ bound + loose > 0
  /\ bound' = 0 /\ loose' = bound + loose - 1
  /\ inDocument' = FALSE
  /\ UNCHANGED << options, enabled, switched, hovered, hoverState, showTimers,
                  hideTimers, tipIn, everFaded, reshown >>

(* enable, disable and toggleEnabled; toggle, for a tip shown by hand.      *)
SetEnabled ==
  /\ enabled' \in BOOLEAN
  /\ switched' = TRUE
  /\ UNCHANGED << options, hovered, hoverState, showTimers, hideTimers,
                  inDocument, tipIn, everFaded, bound, loose, reshown >>

ToggleTip ==
  /\ manual
  /\ IF tipIn THEN HideTip ELSE ShowTip
  /\ UNCHANGED << options, enabled, switched, hovered, hoverState, showTimers,
                  hideTimers >>

TooltipStep ==
  \/ Enter \/ Leave \/ ShowDelayEnds \/ HideDelayEnds
  \/ RemovalEnds \/ RemovalTimer \/ SetEnabled \/ ToggleTip

TooltipSpec ==
  /\ SupportInit /\ TooltipInit
  /\ [][TooltipStep /\ UNCHANGED support]_<< support, tooltipVars >>

-----------------------------------------------------------------------------
Resting == showTimers = 0 /\ hideTimers = 0 /\ bound = 0 /\ loose = 0

(* Once every timer has run out: a tip in the document has the class in; a  *)
(* tip with the class in is in the document, unless it was shown again      *)
(* while a removal was pending, for its timer is not cleared and may have   *)
(* taken the tip out under the mouse (show, hide); and where show and hide  *)
(* are delayed alike and the tip was not disabled or enabled, it has the    *)
(* class in exactly when the mouse is over the element and there is         *)
(* something to say, however often the mouse came and went (enter, leave,   *)
(* hoverState).                                                             *)
TipFollowsMouse ==
  Resting =>
    /\ inDocument => tipIn
    /\ tipIn /\ ~reshown => inDocument
    /\ ~manual /\ ~switched /\ delay \in {{}, {"show", "hide"}} =>
         (tipIn <=> hovered /\ HasContent)
=============================================================================
