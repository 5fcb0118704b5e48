-------------------------------- MODULE Modal --------------------------------
(***************************************************************************)
(* One dialog of the modal plugin of bootstrap.js, its backdrops and the   *)
(* timer that stands in for a transition end that never comes.  show and   *)
(* hide change isShown at once; what is on screen follows by the handlers  *)
(* of transition ends, which nothing unbinds when the other call comes     *)
(* first.                                                                  *)
(***************************************************************************)
EXTENDS Transition, Naturals, FiniteSets

CONSTANT MaxCalls   \* bound: calls that create a backdrop or a timer

ASSUME ModalAssumption == MaxCalls \in Nat

VARIABLES isShown,
          faded,         \* the element has the class fade
          withBackdrop,  \* the option backdrop
          inPage,        \* the element's display is not none
          lit,           \* the element has the class in
          elementRuns,   \* its transition is under way
          toHide,        \* hides whose handler is bound to the element's end
          timers,        \* hides whose half-second timer is running
          backdrops,     \* backdrops in the document
          backdrop,      \* this.$backdrop, 0 for null
          backdropRuns,  \* backdrops in transition
          toShow,        \* backdrops whose end shows the element
          toRemove,      \* backdrops whose end removes this.$backdrop
          calls,
          rushed         \* show or hide was called while something moved

modalVars == << isShown, faded, withBackdrop, inPage, lit, elementRuns, toHide,
                timers, backdrops, backdrop, backdropRuns, toShow, toRemove,
                calls, rushed >>

Id == 1 .. MaxCalls

ModalTypeOK ==
  /\ {isShown, faded, withBackdrop, inPage, lit, elementRuns, rushed} \subseteq BOOLEAN
  /\ toHide \in SUBSET Id /\ timers \in SUBSET Id
  /\ backdrops \in SUBSET Id /\ backdropRuns \in SUBSET Id
  /\ toShow \in SUBSET Id /\ toRemove \in SUBSET Id
  /\ backdrop \in Id \cup {0} /\ calls \in 0 .. MaxCalls

ModalInit ==
  /\ isShown = FALSE /\ faded \in BOOLEAN /\ withBackdrop \in BOOLEAN
  /\ inPage = FALSE /\ lit = FALSE /\ elementRuns = FALSE
  /\ toHide = {} /\ timers = {}
  /\ backdrops = {} /\ backdrop = 0 /\ backdropRuns = {}
  /\ toShow = {} /\ toRemove = {}
  /\ calls = 0 /\ rushed = FALSE

Animated == support /\ faded
Moving == elementRuns \/ backdropRuns # {} \/ timers # {}

(* The callback of show: the element comes into the page and fades in.      *)
Reveal ==
  /\ inPage' = TRUE /\ lit' = TRUE
  /\ elementRuns' = Animated

(* show; a dialog that is shown returns at once.                            *)
ShowModal ==
  /\ ~isShown /\ isShown' = TRUE
  /\ rushed' = (rushed \/ Moving)
  /\ IF withBackdrop
     THEN /\ calls < MaxCalls /\ calls' = calls + 1
          /\ backdrop' = calls'
          /\ backdrops' = backdrops \cup {calls'}
          /\ IF Animated
             THEN /\ backdropRuns' = backdropRuns \cup {calls'}
                  /\ toShow' = toShow \cup {calls'}
                  /\ UNCHANGED << inPage, lit, elementRuns >>
             ELSE Reveal /\ UNCHANGED << backdropRuns, toShow >>
     ELSE Reveal /\ UNCHANGED << calls, backdrop, backdrops, backdropRuns, toShow >>
  /\ UNCHANGED << faded, withBackdrop, toHide, timers, toRemove >>

(* removeBackdrop, which raises when there is none left.                    *)
RemoveBackdrop ==
  /\ backdrops' = backdrops \ {backdrop}
  /\ backdropRuns' = backdropRuns \ {backdrop}
  /\ toShow' = toShow \ {backdrop} /\ toRemove' = toRemove \ {backdrop}
  /\ backdrop' = 0

HideModal_KeepsBackdrop(shown, n) ==  \* mutant: the call of backdrop is missing
  /\ inPage' = FALSE /\ elementRuns' = FALSE
  /\ UNCHANGED << calls, backdrop, backdrops, backdropRuns, toShow, toRemove >>

(* hideModal and the part of backdrop it reaches, n times over.  A dialog   *)
(* that was shown again in the meantime gets a new backdrop each time.      *)
HideModal(shown, n) ==
  /\ inPage' = FALSE /\ elementRuns' = FALSE
  /\ IF shown /\ withBackdrop
     THEN /\ calls + n <= MaxCalls /\ calls' = calls + n
          /\ backdrop' = calls'
          /\ backdrops' = backdrops \cup (calls + 1 .. calls')
          /\ backdropRuns' = backdropRuns \cup (calls + 1 .. calls')
          /\ UNCHANGED << toShow, toRemove >>
     ELSE /\ UNCHANGED calls
          /\ IF shown \/ backdrop = 0
             THEN UNCHANGED << backdrop, backdrops, backdropRuns, toShow, toRemove >>
             ELSE IF Animated
             THEN /\ backdropRuns' = backdropRuns \cup {backdrop}
                  /\ toRemove' = toRemove \cup {backdrop}
                  /\ UNCHANGED << backdrop, backdrops, toShow >>
             ELSE RemoveBackdrop

(* hide: by the close link, the escape key, a click on the backdrop, or a   *)
(* toggle.  A dialog that has not been lit yet starts no transition.        *)
HideDialog ==
  /\ isShown /\ isShown' = FALSE
  /\ lit' = FALSE
  /\ rushed' = (rushed \/ Moving)
  /\ IF Animated
     THEN /\ calls < MaxCalls /\ calls' = calls + 1
          /\ timers' = timers \cup {calls'} /\ toHide' = toHide \cup {calls'}
          /\ elementRuns' = (elementRuns \/ (inPage /\ lit))
          /\ UNCHANGED << inPage, backdrops, backdrop, backdropRuns, toShow, toRemove >>
     ELSE HideModal(FALSE, 1) /\ UNCHANGED << timers, toHide >>
  /\ UNCHANGED << faded, withBackdrop >>

(* The element's transition ends: each handler clears its own timer.        *)
ElementEnds ==
  /\ elementRuns
  /\ toHide' = {} /\ timers' = timers \ toHide
  /\ IF toHide = {}
     THEN /\ elementRuns' = FALSE
          /\ UNCHANGED << inPage, backdrops, backdrop, backdropRuns, toShow,
                          toRemove, calls >>
     ELSE HideModal(isShown, Cardinality(toHide))
  /\ UNCHANGED << isShown, lit, faded, withBackdrop, rushed >>

TimerFires_OnlyUnbinds(t) ==  \* mutant: the call of hideModal is missing
  /\ t \in timers
  /\ timers' = timers \ {t} /\ toHide' = {}
  /\ UNCHANGED << isShown, lit, faded, withBackdrop, rushed, inPage, elementRuns,
                  calls, backdrop, backdrops, backdropRuns, toShow, toRemove >>

(* Half a second after a hide: the element's handlers are unbound.          *)
TimerFires(t) ==
  /\ t \in timers
  /\ timers' = timers \ {t} /\ toHide' = {}
  /\ HideModal(isShown, 1)
  /\ UNCHANGED << isShown, lit, faded, withBackdrop, rushed >>

(* A backdrop's transition ends: first the callback of show, then the       *)
(* removal.                                                                 *)
BackdropEnds(b) ==
  /\ b \in backdropRuns
  /\ IF b \in toShow THEN Reveal ELSE UNCHANGED << inPage, lit, elementRuns >>
  /\ IF b \in toRemove /\ backdrop # 0
     THEN /\ backdrops' = backdrops \ {backdrop}
          /\ backdropRuns' = backdropRuns \ {b, backdrop}
          /\ toShow' = toShow \ {b, backdrop} /\ toRemove' = toRemove \ {b, backdrop}
          /\ backdrop' = 0
     ELSE /\ backdropRuns' = backdropRuns \ {b}
          /\ toShow' = toShow \ {b} /\ toRemove' = toRemove \ {b}
          /\ UNCHANGED << backdrops, backdrop >>
  /\ UNCHANGED << isShown, faded, withBackdrop, toHide, timers, calls, rushed >>

ModalStep ==
  \/ ShowModal \/ HideDialog \/ ElementEnds
  \/ \E i \in Id : TimerFires(i) \/ BackdropEnds(i)

ModalSpec ==
  /\ SupportInit /\ ModalInit
  /\ [][ModalStep /\ UNCHANGED support]_<< support, modalVars >>
  /\ \A t \in Id : WF_modalVars(TimerFires(t))

-----------------------------------------------------------------------------
(* A dialog whose calls came one after the other ends up as isShown says:   *)
(* on screen and lit above its one backdrop, or gone with it (show, hide,   *)
(* backdrop, hideModal, removeBackdrop).                                    *)
ModalSettles ==
  ~rushed /\ ~Moving =>
    /\ inPage = isShown /\ lit = isShown
    /\ backdrops = IF isShown /\ withBackdrop THEN {backdrop} ELSE {}

(* A hidden dialog leaves the page even if the browser never reports the    *)
(* end of its transition (hideWithTransition).                              *)
ModalHides == (~isShown /\ ~rushed) ~> (isShown \/ rushed \/ ~inPage)
=============================================================================
