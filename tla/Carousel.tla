------------------------------ MODULE Carousel ------------------------------
(***************************************************************************)
(* The carousel plugin of bootstrap.js: items that slide by themselves,    *)
(* every interval, and at the user's request.  A slide ends with the       *)
(* transition of its items; the flag sliding keeps the others out until    *)
(* then, and a request for a given item waits for the event slid.          *)
(***************************************************************************)
EXTENDS Transition, Integers

CONSTANTS MaxItems,    \* bound: items of a carousel
          MaxTimers    \* bound: intervals alive at a time

ASSUME CarouselAssumption == MaxItems \in Nat /\ MaxTimers \in Nat \ {0}

VARIABLES items,      \* how many items there are: 0 .. items - 1
          slides,     \* the element has the class slide
          active,     \* items with the class active
          sliding,
          interval,   \* this.interval, 0 for null
          intervals,  \* the intervals that are alive
          onEnd,      \* what the transition's end will do: <<from, to>>
          slidDue,    \* the event slid is due (setTimeout 0)
          wanted,     \* the item a deferred call of to waits for, or -1
          over,       \* the mouse is over the carousel
          made        \* its Carousel object exists

carouselVars == << items, slides, active, sliding, interval, intervals, onEnd,
                   slidDue, wanted, over, made >>

Item == 0 .. MaxItems - 1
Timer == 1 .. MaxTimers

CarouselTypeOK ==
  /\ items \in 1 .. MaxItems /\ {slides, sliding, slidDue, over, made} \subseteq BOOLEAN
  /\ active \in SUBSET (0 .. items - 1)
  /\ interval \in Timer \cup {0} /\ intervals \in SUBSET Timer
  /\ onEnd \in SUBSET (Item \X Item) /\ wanted \in Item \cup {-1}

(* The object is made by a call without the option slide, which starts it,  *)
(* or by the first click on one of its links, which does not.               *)
CarouselInit ==
  /\ items \in 1 .. MaxItems /\ slides \in BOOLEAN
  /\ active = {0} /\ sliding = FALSE
  /\ made \in BOOLEAN
  /\ interval = IF made THEN 1 ELSE 0
  /\ intervals = IF made THEN {1} ELSE {}
  /\ onEnd = {} /\ slidDue = FALSE /\ wanted = -1
  /\ over \in BOOLEAN

(* Intervals are numbered by the browser.                                   *)
Cycle(others) ==
  \E t \in Timer \ others :
    /\ \A u \in Timer \ others : t <= u
    /\ interval' = t /\ intervals' = others \cup {t}

(* pause, then cycle again at the end of a slide if it was cycling.         *)
KeepCycling ==
  IF interval = 0 THEN UNCHANGED << interval, intervals >>
                  ELSE Cycle(intervals \ {interval})

Neighbour_PastEnd(step) ==  \* mutant: no fallback to the first or last item
  {i + step : i \in active}

Neighbour(step) == {(i + step) % items : i \in active}

(* slide, from the active item to another: at once where there are no       *)
(* transitions, else by handlers of the transition's end.  Where it finds   *)
(* only the active item it gives up, the flag set and the interval cleared. *)
(* An element without the class slide waits for the end of a transition     *)
(* even where there are none: nothing is bound, and the flag stays set.     *)
Slide(from, to) ==
  IF from = to
  THEN /\ sliding' = TRUE
       /\ interval' = 0 /\ intervals' = intervals \ {interval}
       /\ UNCHANGED << active, onEnd >>
  ELSE /\ KeepCycling
       /\ IF support \/ ~slides
          THEN /\ sliding' = TRUE /\ UNCHANGED active
               /\ onEnd' = IF support THEN onEnd \cup {<< from, to >>} ELSE onEnd
          ELSE /\ sliding' = FALSE /\ UNCHANGED onEnd
               /\ active' = (active \ {from}) \cup {to}

Step_WhileSliding(by) ==  \* mutant: the test of sliding is missing
  \E from \in active, to \in Neighbour(by) : Slide(from, to)

(* next and prev.                                                           *)
Step(by) ==
  /\ ~sliding
  /\ \E from \in active, to \in Neighbour(by) : Slide(from, to)

Kept == UNCHANGED << items, slides, over, made >>

(* An interval calls next.                                                  *)
Tick(t) ==
  /\ t \in intervals
  /\ Step(1)
  /\ Kept /\ UNCHANGED << slidDue, wanted >>

(* The user's links (data-slide).  The first click makes the object, whose  *)
(* constructor slides, and then slides once more: the flag stops the second *)
(* slide where the first has left it set.                                   *)
ClickSlide ==
  /\ IF made \/ support \/ ~slides \/ items = 1
     THEN \E by \in {1, -1} : Step(by)
     ELSE /\ \E by \in {2, -2} : active' = Neighbour(by)
          /\ UNCHANGED << sliding, interval, intervals, onEnd >>
  /\ made' = TRUE
  /\ UNCHANGED << items, slides, over, slidDue, wanted >>

(* to, once it is not sliding.                                              *)
GoTo(pos) ==
  IF pos \in active
  THEN Cycle(intervals \ {interval}) /\ UNCHANGED << active, sliding, onEnd >>
  ELSE \E from \in active : Slide(from, pos)

(* to(pos) for an item there is; one call at a time is deferred here.       *)
To(pos) ==
  /\ made /\ pos < items
  /\ IF sliding
     THEN /\ wanted = -1 /\ wanted' = pos
          /\ UNCHANGED << active, sliding, onEnd, interval, intervals >>
     ELSE GoTo(pos) /\ UNCHANGED wanted
  /\ Kept /\ UNCHANGED slidDue

(* The transition ends: every handler bound to the element runs.            *)
SlideEnds ==
  /\ onEnd # {} /\ onEnd' = {}
  /\ active' = (active \cup {m[2] : m \in onEnd}) \ {m[1] : m \in onEnd}
  /\ sliding' = FALSE /\ slidDue' = TRUE
  /\ Kept /\ UNCHANGED << interval, intervals, wanted >>

(* The event slid: a deferred call is made, or deferred again if another    *)
(* slide has begun.                                                         *)
Slid ==
  /\ slidDue /\ slidDue' = FALSE
  /\ IF wanted = -1 \/ sliding
     THEN UNCHANGED << active, sliding, onEnd, interval, intervals, wanted >>
     ELSE GoTo(wanted) /\ wanted' = -1
  /\ Kept

(* The mouse enters: pause.  It leaves: cycle, without a look at whether    *)
(* an interval is alive.                                                    *)
MouseEnter ==
  /\ made /\ ~over /\ over' = TRUE
  /\ interval' = 0 /\ intervals' = intervals \ {interval}
  /\ UNCHANGED << items, slides, active, sliding, onEnd, slidDue, wanted, made >>

MouseLeave ==
  /\ made /\ over /\ over' = FALSE
  /\ Cycle(intervals)
  /\ UNCHANGED << items, slides, active, sliding, onEnd, slidDue, wanted, made >>

CarouselStep ==
  \/ \E t \in Timer : Tick(t)
  \/ \E pos \in Item : To(pos)
  \/ ClickSlide \/ SlideEnds \/ Slid \/ MouseEnter \/ MouseLeave

CarouselSpec ==
  /\ SupportInit /\ CarouselInit
  /\ [][CarouselStep /\ UNCHANGED support]_<< support, carouselVars >>

-----------------------------------------------------------------------------
(* However ticks, clicks, deferred calls and transition ends interleave,    *)
(* exactly one item is active (the flag sliding in next, prev and to).      *)
OneItemActive == active # {} /\ \A i, j \in active : i = j
=============================================================================
