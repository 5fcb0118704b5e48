------------------------------- MODULE Alerts -------------------------------
(***************************************************************************)
(* The messages of a page of the configuration tool: the alert plugin of   *)
(* bootstrap.js, which removes a dismissed alert, and custom.js, which     *)
(* fades out, once, the alerts on screen three seconds after the page is   *)
(* ready.  A click on a close link reaches close twice, by the element's   *)
(* own handler and by the body's; the second call changes nothing more.    *)
(***************************************************************************)
EXTENDS Transition

CONSTANTS Alert,   \* the alerts the templates write
          Fades,   \* those with the class fade (and in)
          Err      \* #osm_err, written hidden

ASSUME AlertAssumption == Fades \subseteq Alert /\ Err \in Alert

VARIABLES present,     \* alerts in the document
          displayed,   \* those whose display is not none
          opaque,      \* those that have not lost the class in
          leaving,     \* a transition to opacity 0 runs, removeElement bound
          fading,      \* jQuery's fadeOut runs
          fadeTimer    \* the one-shot timer of custom.js

alertVars == << present, displayed, opaque, leaving, fading, fadeTimer >>

AlertsTypeOK ==
  /\ present \in SUBSET Alert /\ displayed \in SUBSET present
  /\ opaque \in SUBSET Alert
  /\ leaving \in SUBSET present /\ fading \in SUBSET displayed
  /\ fadeTimer \in {"pending", "fired"}

(* A template writes any of its alerts, the error box hidden.               *)
AlertsInit ==
  /\ present \in SUBSET Alert
  /\ displayed = present \ {Err}
  /\ opaque = Alert
  /\ leaving = {} /\ fading = {}
  /\ fadeTimer = "pending"

Visible(a) == a \in displayed /\ a \in opaque

RemoveElement(a) ==
  /\ present' = present \ {a}
  /\ displayed' = displayed \ {a}
  /\ leaving' = leaving \ {a}
  /\ fading' = fading \ {a}

(* The user clicks the close link of an alert.  Without a transition to     *)
(* wait for, the alert goes at once; one that is transparent already starts *)
(* none, and stays.                                                         *)
Close(a) ==
  /\ a \in displayed
  /\ opaque' = opaque \ {a}
  /\ IF support /\ a \in Fades
     THEN /\ leaving' = IF a \in opaque THEN leaving \cup {a} ELSE leaving
          /\ UNCHANGED << present, displayed, fading >>
     ELSE RemoveElement(a)
  /\ UNCHANGED fadeTimer

TransitionEnds(a) ==
  /\ a \in leaving
  /\ RemoveElement(a)
  /\ UNCHANGED << opaque, fadeTimer >>

CloseAlerts_EachTime ==  \* mutant: an interval instead of a timeout
  /\ fadeTimer' = "fired"
  /\ fading' = displayed
  /\ UNCHANGED << present, displayed, opaque, leaving >>

(* close_alerts, by the timer set when the document is ready.               *)
CloseAlerts ==
  /\ fadeTimer = "pending"
  /\ fadeTimer' = "fired"
  /\ fading' = displayed
  /\ UNCHANGED << present, displayed, opaque, leaving >>

(* fadeOut ends in display: none, which cancels a transition under way.     *)
FadeEnds(a) ==
  /\ a \in fading
  /\ fading' = fading \ {a}
  /\ displayed' = displayed \ {a}
  /\ leaving' = leaving \ {a}
  /\ UNCHANGED << present, opaque, fadeTimer >>

(* showError of geoloc_osm.js: nothing happens where there is no #osm_err;  *)
(* show() neither gives the class in back nor stops a fade.                 *)
ShowError ==
  /\ displayed' = IF Err \in present THEN displayed \cup {Err} ELSE displayed
  /\ UNCHANGED << present, opaque, leaving, fading, fadeTimer >>

AlertStep ==
  \/ CloseAlerts
  \/ \E a \in Alert : Close(a) \/ TransitionEnds(a) \/ FadeEnds(a)
=============================================================================
