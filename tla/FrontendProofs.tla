--------------------------- MODULE FrontendProofs ---------------------------
(***************************************************************************)
(* What TLAPS proves of the scripts of the web interface, for any number   *)
(* of alerts, addresses, panels, items, menus and buttons, with and        *)
(* without CSS transitions.  Each theorem but the last is about one        *)
(* widget's own specification.                                             *)
(***************************************************************************)
EXTENDS MCFrontend, SequenceTheorems, FiniteSetTheorems, TLAPS

(* The page of the datastores.  Before the ready handlers ran, nothing was  *)
(* asked or locked, and a coordinate is the file's or missing.              *)
Untouched ==
  ~ready => ~locked /\ asking = {} /\ {lat, lon} \subseteq {None, Saved}

AsksForAddresses == \A q \in asking : q[2] \in Address

PageInv == Untouched /\ AsksForAddresses /\ LockedTogether

LEMMA PageInvInit == PageInit => PageInv
BY DEF PageInit, GeolocInit, PageInv, Untouched, AsksForAddresses, LockedTogether

LEMMA PageInvStep == PageInv /\ [PageNext]_pageVars => PageInv'
<1> SUFFICES ASSUME PageInv, [PageNext]_pageVars PROVE PageInv'
  OBVIOUS
<1>1. CASE DocumentReady
  BY <1>1 DEF DocumentReady, PageInv, Untouched, AsksForAddresses, LockedTogether
<1>2. CASE TypeCoordinate \/ ResetCoordinates
  BY <1>2 DEF TypeCoordinate, ResetCoordinates, PageInv, Untouched, AsksForAddresses,
              LockedTogether
<1>3. ASSUME NEW a \in Address, AskCoordinates(a) PROVE PageInv'
  BY <1>3 DEF AskCoordinates, formVars, PageInv, Untouched, AsksForAddresses,
              LockedTogether
<1>4. ASSUME NEW q \in asking, AnswerOne(q) PROVE PageInv'
  <2>1. q[2] \in Address /\ q[2] # None
    BY GeolocAssumption DEF PageInv, AsksForAddresses
  <2> QED BY <1>4, <2>1 DEF AnswerOne, PageInv, Untouched, AsksForAddresses, LockedTogether
<1>5. ASSUME NEW q \in asking, AnswerUnclear(q) \/ AnswerFails(q) PROVE PageInv'
  BY <1>5 DEF AnswerUnclear, AnswerFails, formVars, PageInv, Untouched,
              AsksForAddresses, LockedTogether
<1>6. CASE UNCHANGED geolocVars
  BY <1>6 DEF geolocVars, formVars, PageInv, Untouched, AsksForAddresses, LockedTogether
<1> QED BY <1>1, <1>2, <1>3, <1>4, <1>5, <1>6 DEF PageNext, GeolocStep, Answer, pageVars

(* Locked coordinates are complete and of one place, the one on the map,    *)
(* for any set of addresses, any number of questions under way and any      *)
(* order of their answers (getCoordinates and the ready handler of          *)
(* geoloc_osm.js).  It may be a place that nobody asked for last.           *)
THEOREM FormLocksOnePlace == PageSpec => []LockedTogether
<1>1. PageInv => LockedTogether
  BY DEF PageInv
<1> QED BY <1>1, PageInvInit, PageInvStep, PTL DEF PageSpec

(* An error that was told after the fade cannot be faded out any more.      *)
ErrorInv == ErrorStays /\ (told => fadeTimer = "fired" /\ Err \notin fading)

LEMMA ErrorInvStep == ErrorInv /\ [PageNext]_pageVars => ErrorInv'
<1> SUFFICES ASSUME ErrorInv, [PageNext]_pageVars PROVE ErrorInv'
  OBVIOUS
<1>1. ASSUME NEW q \in asking, AnswerUnclear(q) PROVE ErrorInv'
  BY <1>1 DEF AnswerUnclear, ShowError, ErrorInv, ErrorStays
<1>2. CASE UNCHANGED << told, alertVars >>
  BY <1>2 DEF alertVars, ErrorInv, ErrorStays
<1>3. ASSUME NEW a \in Alert,
             Close(a) \/ TransitionEnds(a) \/ FadeEnds(a), told' = told
      PROVE  ErrorInv'
  BY <1>3 DEF Close, TransitionEnds, FadeEnds, RemoveElement, ErrorInv, ErrorStays
<1>4. CASE CloseAlerts /\ told' = told
  BY <1>4 DEF CloseAlerts, ErrorInv, ErrorStays
<1>5. GeolocStep => UNCHANGED << told, alertVars >> \/ \E q \in asking : AnswerUnclear(q)
  BY DEF GeolocStep, DocumentReady, TypeCoordinate, ResetCoordinates, AskCoordinates,
         Answer, AnswerOne, AnswerFails
<1> QED BY <1>1, <1>2, <1>3, <1>4, <1>5 DEF PageNext, AlertStep, geolocVars, pageVars

(* An error told after the page's alerts have faded stays until the user    *)
(* closes it, whichever alerts the page has and however their transitions   *)
(* run (showError, close_alerts, Alert.close).                              *)
THEOREM ToldErrorStays == PageSpec => []ErrorStays
<1>1. PageInit => ErrorInv
  BY DEF PageInit, GeolocInit, ErrorInv, ErrorStays
<1>2. ErrorInv => ErrorStays
  BY DEF ErrorInv
<1> QED BY <1>1, <1>2, ErrorInvStep, PTL DEF PageSpec

-----------------------------------------------------------------------------
(* The accordion.  With one open panel the first hidden is the only one, so *)
(* the data of an object made to hide is always forgotten: no orphan stays. *)
CollapseInv ==
  OnePanelOpen /\ object \in [Panel -> {"none", "parented"}] /\ open \subseteq Panel

LEMMA TogglePanelKeeps ==
  ASSUME CollapseInv, NEW p \in Panel, TogglePanel(p)
  PROVE  CollapseInv'
<1>1. CASE p \in open
  <2>1. HidePanel(p, "parented")
    BY <1>1 DEF TogglePanel, CollapseInv
  <2>2. open' = open \ {p}
    BY <2>1 DEF HidePanel, Move
  <2>3. object' = [object EXCEPT ![p] = "parented"]
    BY <2>1 DEF HidePanel
  <2> QED BY <2>2, <2>3 DEF CollapseInv, OnePanelOpen
<1>2. CASE p \notin open
  <2>1. ShowPanel(p, "parented")
    BY <1>2 DEF TogglePanel, CollapseInv
  <2>2. open' = {p}
    BY <2>1 DEF ShowPanel, Move
  <2>3. object' \in [Panel -> {"none", "parented"}]
    BY <2>1 DEF ShowPanel, CollapseInv, OnePanelOpen
  <2> QED BY <2>2, <2>3 DEF CollapseInv, OnePanelOpen
<1> QED BY <1>1, <1>2

(* An accordion of any number of panels never has two of them open (show,   *)
(* the reset of data after collapse('hide'), toggle).                       *)
THEOREM AccordionOpensOne == CollapseSpec => []OnePanelOpen
<1>1. SupportInit /\ CollapseInit => CollapseInv
  BY DEF CollapseInit, CollapseInv, OnePanelOpen
<1>2. CollapseInv /\ [CollapseStep /\ UNCHANGED support]_<< support, collapseVars >>
        => CollapseInv'
  <2>1. ASSUME CollapseInv, NEW p \in Panel, HeightReached(p) PROVE CollapseInv'
    BY <2>1 DEF HeightReached, CollapseInv, OnePanelOpen
  <2>2. CollapseInv /\ UNCHANGED collapseVars => CollapseInv'
    BY DEF collapseVars, CollapseInv, OnePanelOpen
  <2> QED BY <2>1, <2>2, TogglePanelKeeps DEF CollapseStep
<1>3. CollapseInv => OnePanelOpen
  BY DEF CollapseInv
<1> QED BY <1>1, <1>2, <1>3, PTL DEF CollapseSpec

-----------------------------------------------------------------------------
(* The carousel.  A slide is under way while a handler waits for the end of *)
(* a transition, and there is one handler at most: it takes the only active *)
(* item to another one.                                                     *)
CarouselInv ==
  /\ \E i : active = {i}
  /\ onEnd # {} => sliding /\ support
                    /\ \E i, j : i # j /\ active = {i} /\ onEnd = {<< i, j >>}

LEMMA SlideKeeps ==
  ASSUME CarouselInv, ~ sliding, NEW from \in active, NEW to, Slide(from, to),
         UNCHANGED support
  PROVE  CarouselInv'
<1>1. active = {from} /\ onEnd = {}
  BY DEF CarouselInv
<1>2. CASE from = to
  BY <1>1, <1>2 DEF Slide, CarouselInv
<1>3. CASE from # to /\ support
  <2>1. sliding' = TRUE /\ onEnd' = {<< from, to >>} /\ active' = {from}
    BY <1>1, <1>3 DEF Slide
  <2> QED BY <2>1, <1>3 DEF CarouselInv
<1>4. CASE from # to /\ ~ support
  <2>1. onEnd' = {} /\ (active' = {from} \/ active' = {to})
    BY <1>1, <1>4 DEF Slide
  <2> QED BY <2>1 DEF CarouselInv
<1> QED BY <1>2, <1>3, <1>4

LEMMA StepKeeps ==
  ASSUME CarouselInv, NEW by, Step(by), UNCHANGED support
  PROVE  CarouselInv'
BY SlideKeeps DEF Step

LEMMA GoToKeeps ==
  ASSUME CarouselInv, ~ sliding, NEW pos, GoTo(pos), UNCHANGED support
  PROVE  CarouselInv'
<1>1. CASE pos \in active
  BY <1>1 DEF GoTo, CarouselInv
<1>2. CASE pos \notin active
  BY <1>2, SlideKeeps DEF GoTo
<1> QED BY <1>1, <1>2

LEMMA CarouselInvStep ==
  CarouselInv /\ [CarouselStep /\ UNCHANGED support]_<< support, carouselVars >>
    => CarouselInv'
<1> SUFFICES ASSUME CarouselInv,
                    [CarouselStep /\ UNCHANGED support]_<< support, carouselVars >>
             PROVE  CarouselInv'
  OBVIOUS
<1> USE DEF CarouselInv
<1>1. UNCHANGED support
  OBVIOUS
<1>2. CASE UNCHANGED carouselVars
  BY <1>1, <1>2 DEF carouselVars
<1>3. ASSUME NEW t \in Timer, Tick(t) PROVE CarouselInv'
  BY <1>1, <1>3, StepKeeps DEF Tick
<1>4. ASSUME NEW pos \in Item, To(pos) PROVE CarouselInv'
  BY <1>1, <1>4, GoToKeeps DEF To
<1>5. CASE ClickSlide
  <2>1. CASE \E by \in {1, -1} : Step(by)
    BY <1>1, <2>1, StepKeeps
  <2>2. ASSUME ~ support, NEW by \in {2, -2}, active' = Neighbour(by), UNCHANGED onEnd
        PROVE  CarouselInv'
    <3>1. onEnd' = {}
      BY <2>2
    <3>2. PICK i : active = {i}
      OBVIOUS
    <3>3. active' = {(i + by) % items}
      BY <2>2, <3>2 DEF Neighbour
    <3> QED BY <3>1, <3>3
  <2> QED BY <1>5, <2>1, <2>2 DEF ClickSlide
<1>6. CASE SlideEnds
  <2>1. PICK i, j : i # j /\ active = {i} /\ onEnd = {<< i, j >>}
    BY <1>6 DEF SlideEnds
  <2>2. {m[1] : m \in onEnd} = {i} /\ {m[2] : m \in onEnd} = {j}
    BY <2>1
  <2>3. active' = {j} /\ onEnd' = {}
    BY <1>6, <2>1, <2>2 DEF SlideEnds
  <2> QED BY <2>3
<1>7. CASE Slid
  BY <1>1, <1>7, GoToKeeps DEF Slid
<1>8. CASE MouseEnter \/ MouseLeave
  BY <1>1, <1>8 DEF MouseEnter, MouseLeave
<1> QED BY <1>2, <1>3, <1>4, <1>5, <1>6, <1>7, <1>8 DEF CarouselStep

(* However ticks, clicks, deferred calls and ends of transitions interleave *)
(* exactly one item of a carousel is active, for any number of items and of *)
(* intervals (next, prev, to, slide).                                       *)
THEOREM CarouselShowsOne == CarouselSpec => []OneItemActive
<1>1. SupportInit /\ CarouselInit => CarouselInv
  BY DEF CarouselInit, CarouselInv
<1>2. CarouselInv => OneItemActive
  BY DEF CarouselInv, OneItemActive
<1> QED BY <1>1, <1>2, CarouselInvStep, PTL DEF CarouselSpec

-----------------------------------------------------------------------------
(* The button.  The first text is kept from the first state on, and the     *)
(* last turn that is due is the last state's.                               *)
ButtonInv ==
  /\ turns \in Seq(State)
  /\ resetText = Original /\ (~ kept => text = Original)
  /\ turns = << >> => (disabled <=> last = "loading")
  /\ turns # << >> => turns[Len(turns)] = last
  /\ text = IF last = "reset" THEN Original ELSE last

LEMMA ButtonInvStep == ButtonInv /\ [ButtonStep]_buttonVars => ButtonInv'
<1> SUFFICES ASSUME ButtonInv, [ButtonStep]_buttonVars PROVE ButtonInv'
  OBVIOUS
<1>1. ASSUME NEW s \in State, SetState(s) PROVE ButtonInv'
  <2>1. /\ turns' \in Seq(State) /\ Len(turns') = Len(turns) + 1
        /\ turns'[Len(turns')] = s
    BY <1>1, AppendProperties DEF SetState, ButtonInv
  <2>4. turns' # << >>
    BY <2>1 DEF ButtonInv
  <2>5. last' = s /\ kept' = TRUE
    BY <1>1 DEF SetState
  <2>2. resetText' = Original
    <3>1. CASE kept
      BY <1>1, <3>1 DEF SetState, ButtonInv
    <3>2. CASE ~ kept
      BY <1>1, <3>2 DEF SetState, ButtonInv
    <3> QED BY <3>1, <3>2
  <2>3. text' = IF s = "reset" THEN Original ELSE s
    BY <1>1, <2>2 DEF SetState
  <2> QED BY <2>1, <2>2, <2>3, <2>4, <2>5 DEF ButtonInv
<1>2. CASE TurnRuns
  <2>1. turns \in Seq(State) /\ turns # << >>
    BY <1>2 DEF TurnRuns, ButtonInv
  <2>2. turns' = Tail(turns) /\ turns' \in Seq(State) /\ Len(turns') = Len(turns) - 1
    BY <1>2, <2>1, HeadTailProperties DEF TurnRuns
  <2>3. CASE turns' = << >>
    <3>1. Len(turns) = 1
      BY <2>1, <2>2, <2>3
    <3>2. Head(turns) = last
      BY <2>1, <3>1 DEF ButtonInv
    <3> QED BY <1>2, <2>2, <2>3, <3>2 DEF TurnRuns, ButtonInv
  <2>4. CASE turns' # << >>
    <3>1. turns'[Len(turns')] = turns[Len(turns)]
      BY <2>1, <2>2, <2>4
    <3> QED BY <1>2, <2>1, <2>2, <2>4, <3>1 DEF TurnRuns, ButtonInv
  <2> QED BY <2>3, <2>4
<1>3. ASSUME NEW k \in Knob, ToggleKnob(k) PROVE ButtonInv'
  BY <1>3 DEF ToggleKnob, ButtonInv
<1>4. CASE UNCHANGED buttonVars
  BY <1>4 DEF buttonVars, ButtonInv
<1> QED BY <1>1, <1>2, <1>3, <1>4 DEF ButtonStep

(* Whatever states are set, in one turn or in several, the button comes to  *)
(* rest as the last one says (setState).                                    *)
THEOREM ButtonComesToRest == ButtonSpec => []ButtonSettles
<1>1. ButtonInit => ButtonInv
  <2> SUFFICES ASSUME ButtonInit PROVE ButtonInv
    OBVIOUS
  <2>1. turns = << >> /\ turns \in Seq(State) /\ resetText = Original /\ text = Original
        /\ last = "reset"
    BY DEF ButtonInit
  <2>2. disabled <=> last = "loading"
    <3>1. ~ disabled
      BY DEF ButtonInit
    <3>2. last # "loading"
      BY <2>1
    <3> QED BY <3>1, <3>2
  <2> QED BY <2>1, <2>2 DEF ButtonInv
<1>2. ButtonInv => ButtonSettles
  BY DEF ButtonInv, ButtonSettles
<1> QED BY <1>1, <1>2, ButtonInvStep, PTL DEF ButtonSpec

-----------------------------------------------------------------------------
(* The menus.  A click on its way up is of one toggle, and has changed      *)
(* nothing yet.                                                             *)
ClickUnderWay ==
  bubbling \in {"element", "body"} =>
    \E t \in Toggle : clicked = {t} /\ (wasOpen <=> target[t] \in opened)

ClickUnhandled ==
  /\ bubbling = "body" => clicked \cap scripted = {}
  /\ bubbling = "html" => clicked \cap (scripted \cup attributed) = {}

ClickInv == DropdownTypeOK /\ ClickUnderWay /\ ClickUnhandled /\ ClickCountsOnce

LEMMA ClickInvInit == DropdownInit => ClickInv
BY DEF DropdownInit, ClickInv, DropdownTypeOK, ClickUnderWay, ClickUnhandled,
       ClickCountsOnce

(* What toggle makes of the menus is what a click may do.                   *)
LEMMA ToggleCountsOnce ==
  ASSUME NEW t \in Toggle, DropdownTypeOK, Toggles(t), UNCHANGED Page
  PROVE  /\ opened' \in SUBSET Menu
         /\ target'[t] \in opened' <=>
              target[t] \notin opened \/ target'[t] \notin Parents(attributed)'
         /\ opened' \cap Parents(attributed)' \subseteq {target'[t]}
BY DEF DropdownTypeOK, Toggles, Page, Parents

LEMMA BubblesKeepsClicks ==
  ASSUME ClickInv, OnElement \/ OnBody
  PROVE  ClickInv'
<1>1. UNCHANGED << Page, scripted, clicked, wasOpen >>
  BY DEF OnElement, OnBody, Bubbles
<1>2. PICK t \in Toggle : clicked = {t} /\ (wasOpen <=> target[t] \in opened)
  BY DEF ClickInv, ClickUnderWay, OnElement, OnBody, Bubbles
<1>3. CASE Toggles(t) /\ bubbling' = "done" /\ t \in scripted \cup attributed
  <2>1. /\ opened' \in SUBSET Menu
        /\ target'[t] \in opened' <=>
             target[t] \notin opened \/ target'[t] \notin Parents(attributed)'
        /\ opened' \cap Parents(attributed)' \subseteq {target'[t]}
    BY <1>1, <1>3, ToggleCountsOnce DEF ClickInv
  <2>2. DropdownTypeOK'
    BY <1>1, <1>3, <2>1 DEF ClickInv, DropdownTypeOK, Page
  <2>3. clicked' = {t} /\ t \in scripted' \cup attributed' /\ wasOpen' = wasOpen
    BY <1>1, <1>2, <1>3 DEF Page
  <2>4. ClickCountsOnce'
    BY <1>2, <2>1, <2>3 DEF ClickCountsOnce
  <2> QED BY <1>3, <2>2, <2>4 DEF ClickInv, ClickUnderWay, ClickUnhandled
<1>4. CASE /\ UNCHANGED opened
           /\ \/ bubbling' = "body" /\ t \notin scripted
              \/ bubbling' = "html" /\ bubbling = "body" /\ t \notin attributed
  BY <1>1, <1>2, <1>4
     DEF ClickInv, DropdownTypeOK, ClickUnderWay, ClickUnhandled, ClickCountsOnce, Page
<1> QED BY <1>2, <1>3, <1>4 DEF OnElement, OnBody, Bubbles

LEMMA ClickInvStep == ClickInv /\ [DropdownStep]_dropdownVars => ClickInv'
<1> SUFFICES ASSUME ClickInv, [DropdownStep]_dropdownVars PROVE ClickInv'
  OBVIOUS
<1>1. CASE Click({}) \/ \E t \in Toggle : Click({t})
  BY <1>1 DEF Click, Waits, Page, ClickInv, DropdownTypeOK, ClickUnderWay,
              ClickUnhandled, ClickCountsOnce
<1>2. CASE OnElement \/ OnBody
  BY <1>2, BubblesKeepsClicks
<1>3. CASE OnDocument
  BY <1>3 DEF OnDocument, Page, Parents, ClickInv, DropdownTypeOK, ClickUnderWay,
              ClickUnhandled, ClickCountsOnce
<1>4. ASSUME NEW t \in Toggle, CallDropdown(t) PROVE ClickInv'
  <2>1. opened' \in SUBSET Menu
    BY <1>4 DEF CallDropdown, Toggles, ClickInv, DropdownTypeOK
  <2> QED BY <1>4, <2>1 DEF CallDropdown, Page, ClickInv, DropdownTypeOK, ClickUnderWay,
                            ClickUnhandled, ClickCountsOnce
<1>5. CASE UNCHANGED dropdownVars
  BY <1>5 DEF dropdownVars, Parents, ClickInv, DropdownTypeOK, ClickUnderWay,
              ClickUnhandled, ClickCountsOnce
<1> QED BY <1>1, <1>2, <1>3, <1>4, <1>5 DEF DropdownStep

(* A click is handled once, for any toggles, with the attribute, an object, *)
(* both or neither, in whichever parents and with whichever targets (the    *)
(* handlers of toggle, its return false, clearMenus).                       *)
THEOREM MenusCountClicks == DropdownSpec => []ClickCountsOnce
<1>1. ClickInv => ClickCountsOnce
  BY DEF ClickInv
<1> QED BY <1>1, ClickInvInit, ClickInvStep, PTL DEF DropdownSpec
-----------------------------------------------------------------------------
(* The tabs.  While nobody clicks too early, either nothing fades and the   *)
(* marked pane is on screen, lit if it has the class fade, or the pane that *)
(* leaves fades and knows the marked one, or the marked one fades in.       *)
TabRests ==
  /\ fadingPanes = {} /\ shownPanes = {marked} /\ next = [p \in Pane |-> {}]
  /\ marked \in fadePanes => marked \in litPanes

TabLeaves ==
  \E p \in Pane :
    /\ fadingPanes = {p} /\ shownPanes = {p}
    /\ next = [q \in Pane |-> IF q = p THEN {<< {p}, marked >>} ELSE {}]

TabComes ==
  /\ fadingPanes = {marked} /\ shownPanes = {marked}
  /\ next = [p \in Pane |-> {}] /\ marked \in litPanes

TabInv == TabTypeOK /\ (tabRushed \/ TabRests \/ TabLeaves \/ TabComes)

LEMMA ShowTabTypes ==
  ASSUME TabTypeOK, NEW t \in Pane, ShowTab(t)
  PROVE  TabTypeOK'
<1>1. next' \in [Pane -> SUBSET ((SUBSET Pane) \X Pane)]
  BY DEF ShowTab, TabTypeOK
<1>2. {shownPanes, litPanes, fadePanes, fadingPanes}' \subseteq SUBSET Pane
  BY DEF ShowTab, TabTypeOK
<1> QED BY <1>1, <1>2 DEF ShowTab, TabTypeOK

LEMMA ShowTabKeeps ==
  ASSUME TabInv, NEW t \in Pane, ShowTab(t)
  PROVE  TabInv'
<1>1. TabTypeOK'
  BY ShowTabTypes DEF TabInv
<1>2. CASE tabRushed'
  BY <1>1, <1>2 DEF TabInv
<1>3. CASE ~tabRushed'
  <2>1. TabRests
    BY <1>3 DEF TabInv, ShowTab, TabTypeOK, TabLeaves, TabComes
  <2>2. marked' = t /\ marked \in Pane /\ t # marked
    BY DEF ShowTab, TabInv, TabTypeOK
  <2>3. CASE support /\ marked \in fadePanes
    <3>1. shownPanes' = {marked} /\ fadingPanes' = {marked}
      BY <2>1, <2>3 DEF ShowTab, TabRests
    <3>2. next' = [p \in Pane |-> IF p = marked THEN {<< {marked}, t >>} ELSE {}]
      BY <2>1, <2>3 DEF ShowTab, TabRests
    <3>3. TabLeaves'
      BY <2>2, <3>1, <3>2 DEF TabLeaves
    <3> QED BY <1>1, <3>3 DEF TabInv
  <2>4. CASE ~(support /\ marked \in fadePanes)
    <3>1. TabRests'
      BY <2>1, <2>2, <2>4 DEF ShowTab, TabRests
    <3> QED BY <1>1, <3>1 DEF TabInv
  <2> QED BY <2>3, <2>4
<1> QED BY <1>2, <1>3

LEMMA PaneFadedTypes ==
  ASSUME TabTypeOK, NEW p \in Pane, PaneFaded(p)
  PROVE  TabTypeOK'
<1>1. next[p] \subseteq (SUBSET Pane) \X Pane
  BY DEF TabTypeOK
<1>2. {n[2] : n \in next[p]} \subseteq Pane /\ UNION {n[1] : n \in next[p]} \subseteq Pane
  BY <1>1
<1>3. next' \in [Pane -> SUBSET ((SUBSET Pane) \X Pane)]
  BY DEF PaneFaded, TabTypeOK
<1>4. {shownPanes, litPanes, fadePanes, fadingPanes}' \subseteq SUBSET Pane
  BY <1>2 DEF PaneFaded, Replace, TabTypeOK
<1> QED BY <1>3, <1>4 DEF PaneFaded, TabTypeOK

LEMMA PaneFadedKeeps ==
  ASSUME TabInv, NEW p \in Pane, PaneFaded(p)
  PROVE  TabInv'
<1>1. TabTypeOK'
  BY PaneFadedTypes DEF TabInv
<1>2. CASE tabRushed
  BY <1>1, <1>2 DEF TabInv, PaneFaded
<1>3. CASE TabLeaves
  <2>1. fadingPanes = {p} /\ shownPanes = {p}
    BY <1>3 DEF TabLeaves, PaneFaded
  <2>2. next = [q \in Pane |-> IF q = p THEN {<< {p}, marked >>} ELSE {}]
    BY <1>3, <2>1 DEF TabLeaves
  <2>3. next[p] = {<< {p}, marked >>}
    BY <2>2
  <2>4. {n[2] : n \in next[p]} = {marked} /\ UNION {n[1] : n \in next[p]} = {p}
    BY <2>3
  <2>5. shownPanes' = {marked} /\ marked \in litPanes'
    BY <2>1, <2>4 DEF PaneFaded, Replace
  <2>6. fadingPanes' = {marked} \cap fadePanes
    BY <2>1, <2>4 DEF PaneFaded
  <2>7. next' = [q \in Pane |-> {}]
    BY <2>2 DEF PaneFaded
  <2>8. marked' = marked /\ fadePanes' = fadePanes
    BY DEF PaneFaded
  <2>9. TabRests' \/ TabComes'
    BY <2>5, <2>6, <2>7, <2>8 DEF TabRests, TabComes
  <2> QED BY <1>1, <2>9 DEF TabInv
<1>4. CASE TabComes
  <2>1. p = marked /\ next[p] = {}
    BY <1>4 DEF TabComes, PaneFaded
  <2>2. shownPanes' = {marked} /\ marked \in litPanes' /\ fadingPanes' = {}
    BY <1>4, <2>1 DEF TabComes, PaneFaded, Replace
  <2>3. next' = [q \in Pane |-> {}] /\ marked' = marked
    BY <1>4 DEF TabComes, PaneFaded
  <2> QED BY <1>1, <2>2, <2>3 DEF TabInv, TabRests
<1>5. ~TabRests
  BY DEF TabRests, PaneFaded
<1> QED BY <1>2, <1>3, <1>4, <1>5 DEF TabInv

LEMMA TabInvInit == TabInit => TabInv
BY DEF TabInit, TabInv, TabTypeOK, TabRests

LEMMA TabInvStep == TabInv /\ [TabStep]_tabVars => TabInv'
<1>1. TabInv /\ UNCHANGED tabVars => TabInv'
  BY DEF tabVars, TabInv, TabTypeOK, TabRests, TabLeaves, TabComes
<1> QED BY <1>1, ShowTabKeeps, PaneFadedKeeps DEF TabStep

(* Of any number of tabs, with any of the panes fading, the pane on screen  *)
(* is the marked tab's alone once the clicks have left the panes the time   *)
(* to fade (show, activate and its next).                                   *)
THEOREM TabShowsItsPane == TabSpec => []PaneOfTab
<1>1. TabInv => PaneOfTab
  BY DEF TabInv, PaneOfTab, TabRests, TabLeaves, TabComes
<1>2. [TabStep /\ UNCHANGED support]_<< support, tabVars >> => [TabStep]_tabVars
  BY DEF tabVars
<1> QED BY <1>1, <1>2, TabInvInit, TabInvStep, PTL DEF TabSpec

-----------------------------------------------------------------------------
(* The accordion once more.  A panel that moves will complete what it was   *)
(* last told, and nothing else; one that has moved is as open says, or was  *)
(* evicted where there are no transitions.                                  *)
PanelRuns(p) ==
  /\ support /\ p \in clipped
  /\ IF p \in open THEN size[p] = "full" /\ waiting[p] = {"show"}
     ELSE size[p] = "zero" /\ waiting[p] = {"hide"}

PanelRests(p) ==
  /\ waiting[p] = {}
  /\ p \in touched =>
       IF p \in open THEN p \in clipped => size[p] # "zero"
       ELSE size[p] = "zero" /\ (p \in clipped <=> support \/ p \notin evicted)

SettleInv ==
  /\ CollapseInv /\ CollapseTypeOK
  /\ open \cap evicted = {} /\ (~support => running = {})
  /\ ~hurried => \A p \in Panel : IF p \in running THEN PanelRuns(p) ELSE PanelRests(p)

LEMMA MoveTypes ==
  ASSUME CollapseTypeOK, NEW opening \in SUBSET Panel, NEW closed \in SUBSET Panel,
         NEW flat \in SUBSET Panel, Move(opening, closed, flat)
  PROVE  /\ open' \in SUBSET Panel /\ clipped' \in SUBSET Panel
         /\ size' \in [Panel -> {"zero", "full", "auto"}]
         /\ running' \in SUBSET Panel /\ touched' \in SUBSET Panel
         /\ waiting' \in [Panel -> SUBSET {"show", "hide"}]
         /\ hurried' \in BOOLEAN
<1> DEFINE moving == IF support THEN (opening \cap clipped) \cup (closed \ flat) ELSE {}
<1>1. moving \subseteq Panel
  OBVIOUS
<1>2. open' \in SUBSET Panel /\ clipped' \in SUBSET Panel /\ running' \in SUBSET Panel
      /\ touched' \in SUBSET Panel
  BY <1>1 DEF Move, CollapseTypeOK
<1>3. size' \in [Panel -> {"zero", "full", "auto"}]
  BY DEF Move, CollapseTypeOK
<1>4. waiting' \in [Panel -> SUBSET {"show", "hide"}]
  BY DEF Move, CollapseTypeOK
<1>5. hurried' \in BOOLEAN
  BY DEF Move, CollapseTypeOK
<1> QED BY <1>2, <1>3, <1>4, <1>5

(* A move of panels that rest, of which the opening were closed and the     *)
(* closed open.                                                             *)
LEMMA MoveSettles ==
  ASSUME SettleInv, NEW opening \in SUBSET Panel, NEW closed \in SUBSET Panel,
         NEW flat \in SUBSET closed, Move(opening, closed, flat), support' = support,
         opening \cap closed = {}, ~hurried',
         support => flat \subseteq running,
         ~support => \A q \in closed : q \in flat <=> q \in evicted',
         \A q \in Panel \ (opening \cup closed) : q \in evicted' <=> q \in evicted
  PROVE  \A p \in Panel : IF p \in running' THEN PanelRuns(p)' ELSE PanelRests(p)'
<1> DEFINE moving == IF support THEN (opening \cap clipped) \cup closed ELSE {}
<1>1. ~hurried /\ (opening \cup closed) \cap running = {} /\ (support => flat = {})
  BY DEF Move
<1>2. /\ open' = (open \ closed) \cup opening
      /\ clipped' = ((clipped \cup closed) \ flat) \ (opening \ moving)
      /\ running' = running \cup moving
      /\ touched' = touched \cup opening \cup closed
  <2>1. running \ flat = running /\ moving \cap flat = {}
    BY <1>1
  <2>2. (IF support THEN (opening \cap clipped) \cup (closed \ flat) ELSE {}) = moving
    BY <1>1
  <2> HIDE DEF moving
  <2> QED BY <2>1, <2>2 DEF Move
<1> SUFFICES ASSUME NEW p \in Panel
             PROVE  IF p \in running' THEN PanelRuns(p)' ELSE PanelRests(p)'
  OBVIOUS
<1>3. size'[p] = IF p \in opening THEN "full" ELSE IF p \in closed THEN "zero" ELSE size[p]
  BY DEF Move
<1>4. waiting'[p] = waiting[p] \cup (IF p \notin moving THEN {}
                                     ELSE IF p \in opening THEN {"show"} ELSE {"hide"})
  <2>1. (IF support THEN (opening \cap clipped) \cup (closed \ flat) ELSE {}) = moving
    BY <1>1
  <2> HIDE DEF moving
  <2> QED BY <2>1 DEF Move
<1>5. IF p \in running THEN PanelRuns(p) ELSE PanelRests(p)
  BY <1>1 DEF SettleInv
<1>6. CASE p \in opening
  <2>1. p \notin running /\ p \notin closed /\ waiting[p] = {}
    BY <1>1, <1>5, <1>6 DEF PanelRests
  <2>2. CASE p \in moving
    BY <1>1, <1>2, <1>3, <1>4, <1>6, <2>1, <2>2 DEF PanelRuns
  <2>3. CASE p \notin moving
    BY <1>2, <1>3, <1>4, <1>6, <2>1, <2>3 DEF PanelRests
  <2> QED BY <2>2, <2>3
<1>7. CASE p \in closed
  <2>1. p \notin running /\ p \notin opening /\ waiting[p] = {}
    BY <1>1, <1>5, <1>7 DEF PanelRests
  <2>2. CASE support
    BY <1>1, <1>2, <1>3, <1>4, <1>7, <2>1, <2>2 DEF PanelRuns
  <2>3. CASE ~support
    BY <1>2, <1>3, <1>4, <1>7, <2>1, <2>3 DEF PanelRests
  <2> QED BY <2>2, <2>3
<1>8. CASE p \notin opening \cup closed
  <2>1. /\ (p \in open' <=> p \in open) /\ (p \in clipped' <=> p \in clipped)
        /\ (p \in running' <=> p \in running) /\ (p \in touched' <=> p \in touched)
        /\ size'[p] = size[p] /\ waiting'[p] = waiting[p]
        /\ (p \in evicted' <=> p \in evicted)
    BY <1>2, <1>3, <1>4, <1>8
  <2> QED BY <1>5, <2>1 DEF PanelRuns, PanelRests
<1> QED BY <1>6, <1>7, <1>8

LEMMA ToggleSettles ==
  ASSUME SettleInv, NEW p \in Panel, TogglePanel(p), support' = support
  PROVE  SettleInv'
<1>1. CollapseInv'
  BY TogglePanelKeeps DEF SettleInv
<1>2. object' \in [Panel -> {"none", "parented", "orphan"}]
  BY <1>1 DEF CollapseInv
<1>3. evicted \in SUBSET Panel /\ (~support => running = {})
  BY DEF SettleInv, CollapseTypeOK
<1>4. CASE p \in open
  <2>1. HidePanel(p, "parented")
    BY <1>4 DEF TogglePanel, SettleInv, CollapseInv
  <2>2. PICK flat \in SUBSET ({p} \cap running) : Move({}, {p}, flat)
    BY <2>1 DEF HidePanel
  <2>3. flat \in SUBSET Panel /\ {} \in SUBSET Panel /\ {p} \in SUBSET Panel
        /\ evicted' = evicted \ {p}
    BY <2>1 DEF HidePanel
  <2>4. CollapseTypeOK'
    BY <1>2, <1>3, <2>2, <2>3, MoveTypes DEF CollapseTypeOK, SettleInv
  <2>5. open' \cap evicted' = {} /\ (~support => running' = {})
    BY <1>3, <2>2, <2>3 DEF Move, SettleInv
  <2>6. /\ flat \in SUBSET {p} /\ {} \cap {p} = {} /\ (support => flat \subseteq running)
        /\ ~support => \A q \in {p} : q \in flat <=> q \in evicted'
        /\ \A q \in Panel \ ({} \cup {p}) : q \in evicted' <=> q \in evicted
    BY <1>3, <2>3
  <2>7. ~hurried' => \A q \in Panel : IF q \in running' THEN PanelRuns(q)' ELSE PanelRests(q)'
    BY <2>2, <2>3, <2>6, MoveSettles
  <2> QED BY <1>1, <2>4, <2>5, <2>7 DEF SettleInv
<1>5. CASE p \notin open
  <2>1. ShowPanel(p, "parented")
    BY <1>5 DEF TogglePanel, SettleInv, CollapseInv
  <2>2. PICK flat \in Flat(open) : Move({p}, open, flat)
    BY <2>1 DEF ShowPanel
  <2>3. evicted' = (evicted \cup Unmade(open)) \ {p}
    BY <2>1 DEF ShowPanel
  <2>4. /\ flat \in SUBSET open /\ (support => flat \subseteq running)
        /\ ~support => flat = Unmade(open)
    BY <2>2 DEF Flat, Unmade
  <2>5. flat \in SUBSET Panel /\ open \in SUBSET Panel /\ {p} \in SUBSET Panel
        /\ evicted' \in SUBSET Panel
    BY <1>3, <2>3, <2>4 DEF SettleInv, CollapseInv, Unmade
  <2>6. CollapseTypeOK'
    BY <1>2, <2>2, <2>5, MoveTypes DEF CollapseTypeOK, SettleInv
  <2>7. open' = {p} /\ p \notin evicted'
    BY <2>2, <2>3, <2>5 DEF Move
  <2>8. ~support => running' = {}
    BY <1>3, <2>2 DEF Move
  <2>9. /\ {p} \cap open = {}
        /\ ~support => \A q \in open : q \in flat <=> q \in evicted'
        /\ \A q \in Panel \ ({p} \cup open) : q \in evicted' <=> q \in evicted
    BY <1>5, <2>3, <2>4 DEF SettleInv, Unmade
  <2>10. ~hurried' => \A q \in Panel : IF q \in running' THEN PanelRuns(q)' ELSE PanelRests(q)'
    BY <2>2, <2>4, <2>5, <2>9, MoveSettles
  <2> QED BY <1>1, <2>6, <2>7, <2>8, <2>10 DEF SettleInv
<1> QED BY <1>4, <1>5

LEMMA HeightReachedSettles ==
  ASSUME SettleInv, NEW p \in Panel, HeightReached(p), support' = support
  PROVE  SettleInv'
<1>1. CollapseInv'
  BY DEF HeightReached, SettleInv, CollapseInv, OnePanelOpen
<1>2. CollapseTypeOK'
  BY DEF HeightReached, SettleInv, CollapseTypeOK
<1>3. ASSUME ~hurried', NEW q \in Panel
      PROVE  IF q \in running' THEN PanelRuns(q)' ELSE PanelRests(q)'
  <2>1. IF q \in running THEN PanelRuns(q) ELSE PanelRests(q)
    BY <1>3 DEF HeightReached, SettleInv
  <2>2. waiting \in [Panel -> SUBSET {"show", "hide"}]
        /\ size \in [Panel -> {"zero", "full", "auto"}]
    BY DEF SettleInv, CollapseTypeOK
  <2>3. CASE q = p
    BY <2>1, <2>2, <2>3 DEF HeightReached, PanelRuns, PanelRests
  <2>4. CASE q # p
    <3>1. size'[q] = size[q] /\ waiting'[q] = waiting[q]
      BY <2>2, <2>4 DEF HeightReached
    <3>2. (q \in running' <=> q \in running) /\ (q \in clipped' <=> q \in clipped)
          /\ open' = open /\ touched' = touched /\ evicted' = evicted
      BY <2>4 DEF HeightReached
    <3> QED BY <2>1, <3>1, <3>2 DEF PanelRuns, PanelRests
  <2> QED BY <2>3, <2>4
<1>4. open' \cap evicted' = {} /\ (~support => running' = {})
  BY DEF HeightReached, SettleInv
<1> QED BY <1>1, <1>2, <1>3, <1>4 DEF SettleInv

LEMMA SettleInvInit == CollapseInit => SettleInv
<1> SUFFICES ASSUME CollapseInit PROVE SettleInv
  OBVIOUS
<1>1. CollapseInv
  BY DEF CollapseInit, CollapseInv, OnePanelOpen
<1>2. CollapseTypeOK
  BY DEF CollapseInit, CollapseTypeOK
<1> QED BY <1>1, <1>2 DEF CollapseInit, SettleInv, PanelRests

LEMMA SettleInvStep ==
  SettleInv /\ [CollapseStep /\ UNCHANGED support]_<< support, collapseVars >> => SettleInv'
<1>1. SettleInv /\ UNCHANGED << support, collapseVars >> => SettleInv'
  BY DEF collapseVars, SettleInv, CollapseInv, OnePanelOpen, CollapseTypeOK, PanelRuns,
         PanelRests
<1> QED BY <1>1, ToggleSettles, HeightReachedSettles DEF CollapseStep

(* In an accordion of any number of panels, a panel that was moved and came *)
(* to rest shows its contents exactly when it is open, or, without          *)
(* transitions, when the opening of another one hid it before it had an     *)
(* object (show, hide, reset, $.fn.collapse).                               *)
THEOREM PanelsComeToRest == CollapseSpec => []PanelsSettle
<1>1. SettleInv => PanelsSettle
  <2> SUFFICES ASSUME SettleInv, ~hurried, NEW p \in touched \ running
               PROVE  OnScreen(p) <=> p \in open \/ (~support /\ p \in evicted)
    BY DEF PanelsSettle
  <2>1. p \in Panel /\ PanelRests(p)
    BY DEF SettleInv, CollapseTypeOK
  <2> QED BY <2>1 DEF PanelRests, OnScreen
<1> QED BY <1>1, SettleInvInit, SettleInvStep, PTL DEF CollapseSpec

-----------------------------------------------------------------------------
(* The tip.  A tip in the document without the class in has a removal bound *)
(* to it; one that was never shown again too early has no removal pending   *)
(* while it has the class in; and the hover state tells what the timers are *)
(* for.                                                                     *)
TipInv ==
  /\ {inDocument, tipIn, everFaded, reshown} \subseteq BOOLEAN
  /\ {bound, loose} \subseteq 0 .. MaxPending /\ bound + loose <= MaxPending
  /\ inDocument /\ ~tipIn => bound > 0
  /\ tipIn => HasContent
  /\ tipIn /\ ~reshown => inDocument /\ bound + loose = 0

HoverTypes ==
  /\ {manual, animation, title, body, enabled, hovered, switched} \subseteq BOOLEAN
  /\ type \in Types
  /\ delay \in SUBSET {"show", "hide"} /\ hoverState \in {"unset", "in", "out"}
  /\ {showTimers, hideTimers} \subseteq 0 .. MaxPending

HoverKept ==
  ~manual =>
    /\ delay = {} =>
         /\ showTimers = 0 /\ hideTimers = 0
         /\ tipIn <=> (hovered /\ HasContent)
    /\ delay = {"show", "hide"} =>
         IF hovered THEN hoverState = "in" /\ (showTimers > 0 \/ (tipIn <=> HasContent))
         ELSE \/ hoverState = "out" /\ (hideTimers > 0 \/ ~tipIn)
              \/ hoverState = "unset" /\ ~tipIn

TooltipInv == TipInv /\ HoverTypes /\ (~switched => enabled /\ HoverKept)

(* What show and hide do to a tip, whoever calls them.                      *)
LEMMA ShowTipKeeps ==
  ASSUME TipInv, ShowTip, UNCHANGED options, animation \in BOOLEAN
  PROVE  TipInv' /\ (enabled => (tipIn' <=> HasContent))
<1> USE TooltipAssumption
<1>1. bound \in Nat /\ loose \in Nat /\ bound + loose <= MaxPending
  BY DEF TipInv
<1>2. HasContent' = HasContent
  BY DEF HasContent, options
<1>3. CASE HasContent /\ enabled
  <2>1. inDocument' = TRUE /\ tipIn' = TRUE /\ everFaded' = animation
        /\ loose' = loose + bound /\ bound' = 0
        /\ reshown' = (reshown \/ loose + bound > 0)
    BY <1>3 DEF ShowTip
  <2>2. {inDocument, tipIn, everFaded, reshown}' \subseteq BOOLEAN
    BY <2>1 DEF TipInv
  <2>3. {bound, loose}' \subseteq 0 .. MaxPending /\ (bound + loose)' <= MaxPending
    BY <1>1, <2>1
  <2>4. ~reshown' => (bound + loose)' = 0
    <3>1. ~reshown' => ~(loose + bound > 0)
      BY <2>1, Zenon
    <3> QED BY <1>1, <2>1, <3>1
  <2> QED BY <1>2, <1>3, <2>1, <2>2, <2>3, <2>4 DEF TipInv
<1>4. CASE ~(HasContent /\ enabled)
  <2>1. UNCHANGED << inDocument, tipIn, everFaded, bound, loose, reshown >>
    BY <1>4 DEF ShowTip
  <2>2. TipInv'
    BY <1>2, <2>1 DEF TipInv
  <2>3. enabled => (tipIn' <=> HasContent)
    BY <1>4, <2>1 DEF TipInv
  <2> QED BY <2>2, <2>3
<1> QED BY <1>3, <1>4

LEMMA HideTipKeeps ==
  ASSUME TipInv, HideTip, UNCHANGED options
  PROVE  TipInv' /\ tipIn' = FALSE
<1> USE TooltipAssumption
<1>1. bound \in Nat /\ loose \in Nat /\ bound + loose <= MaxPending
  BY DEF TipInv
<1>2. tipIn' = FALSE /\ reshown' = reshown /\ everFaded' = everFaded
  BY DEF HideTip
<1>3. CASE support /\ everFaded
  <2>1. bound + loose < MaxPending /\ bound' = bound + 1 /\ loose' = loose
        /\ inDocument' = inDocument
    BY <1>3 DEF HideTip
  <2>2. {bound, loose}' \subseteq 0 .. MaxPending /\ (bound + loose)' <= MaxPending
        /\ bound' > 0
    BY <1>1, <2>1
  <2> QED BY <1>2, <2>1, <2>2 DEF TipInv
<1>4. CASE ~(support /\ everFaded)
  <2>1. inDocument' = FALSE /\ loose' = loose + bound /\ bound' = 0
    BY <1>4 DEF HideTip
  <2>2. {bound, loose}' \subseteq 0 .. MaxPending /\ (bound + loose)' <= MaxPending
    BY <1>1, <2>1
  <2> QED BY <1>2, <2>1, <2>2 DEF TipInv
<1> QED BY <1>3, <1>4

LEMMA TipStays ==
  ASSUME TipInv, UNCHANGED << inDocument, tipIn, everFaded, bound, loose, reshown >>,
         UNCHANGED options
  PROVE  TipInv'
<1>1. HasContent' = HasContent
  BY DEF HasContent, options
<1> QED BY <1>1 DEF TipInv

(* What moves with the timers and the mouse.                                *)
LEMMA EnterKeeps ==
  ASSUME TooltipInv, Enter
  PROVE  TooltipInv'
<1>1. /\ UNCHANGED options /\ enabled' = enabled /\ switched' = switched
      /\ hideTimers' = hideTimers /\ ~manual /\ hovered' = TRUE /\ ~hovered
  BY DEF Enter
<1>2. HasContent' = HasContent /\ manual' = manual /\ delay' = delay
  BY <1>1 DEF HasContent, options
<1>3. showTimers \in Nat /\ hideTimers \in Nat /\ delay \in SUBSET {"show", "hide"}
  BY DEF TooltipInv, HoverTypes
<1>4. CASE "show" \in delay
  <2>1. hoverState' = "in" /\ showTimers' = showTimers + 1 /\ showTimers < MaxPending
    BY <1>4 DEF Enter
  <2>2. UNCHANGED << inDocument, tipIn, everFaded, bound, loose, reshown >>
    BY <1>4 DEF Enter
  <2>3. TipInv'
    BY <1>1, <2>2, TipStays DEF TooltipInv
  <2>4. HoverTypes'
    <3>1. showTimers' \in 0 .. MaxPending
      BY <1>3, <2>1, TooltipAssumption
    <3> QED BY <1>1, <2>1, <3>1 DEF TooltipInv, HoverTypes, options
  <2>5. HoverKept'
    BY <1>1, <1>2, <1>3, <1>4, <2>1 DEF HoverKept
  <2> QED BY <1>1, <2>3, <2>4, <2>5 DEF TooltipInv
<1>5. CASE "show" \notin delay
  <2>1. ShowTip /\ hoverState' = hoverState /\ showTimers' = showTimers
    BY <1>5 DEF Enter
  <2>2. TipInv' /\ (enabled => (tipIn' <=> HasContent))
    BY <1>1, <2>1, ShowTipKeeps DEF TooltipInv, HoverTypes
  <2>3. HoverTypes'
    BY <1>1, <2>1 DEF TooltipInv, HoverTypes, options
  <2>4. enabled /\ HoverKept => HoverKept'
    BY <1>1, <1>2, <1>3, <1>5, <2>1, <2>2 DEF HoverKept
  <2> QED BY <1>1, <2>2, <2>3, <2>4 DEF TooltipInv
<1> QED BY <1>4, <1>5

LEMMA LeaveKeeps ==
  ASSUME TooltipInv, Leave
  PROVE  TooltipInv'
<1>1. /\ UNCHANGED options /\ enabled' = enabled /\ switched' = switched
      /\ showTimers' = showTimers /\ ~manual /\ hovered' = FALSE /\ hovered
  BY DEF Leave
<1>2. HasContent' = HasContent /\ manual' = manual /\ delay' = delay
  BY <1>1 DEF HasContent, options
<1>3. showTimers \in Nat /\ hideTimers \in Nat /\ delay \in SUBSET {"show", "hide"}
  BY DEF TooltipInv, HoverTypes
<1>4. CASE "hide" \in delay
  <2>1. hoverState' = "out" /\ hideTimers' = hideTimers + 1 /\ hideTimers < MaxPending
    BY <1>4 DEF Leave
  <2>2. UNCHANGED << inDocument, tipIn, everFaded, bound, loose, reshown >>
    BY <1>4 DEF Leave
  <2>3. TipInv'
    BY <1>1, <2>2, TipStays DEF TooltipInv
  <2>4. HoverTypes'
    <3>1. hideTimers' \in 0 .. MaxPending
      BY <1>3, <2>1, TooltipAssumption
    <3> QED BY <1>1, <2>1, <3>1 DEF TooltipInv, HoverTypes, options
  <2>5. HoverKept'
    BY <1>1, <1>2, <1>3, <1>4, <2>1 DEF HoverKept
  <2> QED BY <1>1, <2>3, <2>4, <2>5 DEF TooltipInv
<1>5. CASE "hide" \notin delay
  <2>1. HideTip /\ hoverState' = hoverState /\ hideTimers' = hideTimers
    BY <1>5 DEF Leave
  <2>2. TipInv' /\ tipIn' = FALSE
    BY <1>1, <2>1, HideTipKeeps DEF TooltipInv
  <2>3. HoverTypes'
    BY <1>1, <2>1 DEF TooltipInv, HoverTypes, options
  <2>4. HoverKept => HoverKept'
    BY <1>1, <1>2, <1>3, <1>5, <2>1, <2>2 DEF HoverKept
  <2> QED BY <1>1, <2>2, <2>3, <2>4 DEF TooltipInv
<1> QED BY <1>4, <1>5

LEMMA ShowDelayKeeps ==
  ASSUME TooltipInv, ShowDelayEnds
  PROVE  TooltipInv'
<1>1. /\ UNCHANGED options /\ UNCHANGED << enabled, switched, hovered, hoverState >>
      /\ hideTimers' = hideTimers /\ showTimers > 0 /\ showTimers' = showTimers - 1
  BY DEF ShowDelayEnds
<1>2. HasContent' = HasContent /\ manual' = manual /\ delay' = delay
  BY <1>1 DEF HasContent, options
<1>3. showTimers \in Nat /\ hideTimers \in Nat /\ delay \in SUBSET {"show", "hide"}
      /\ showTimers <= MaxPending
  BY TooltipAssumption DEF TooltipInv, HoverTypes
<1>4. HoverTypes'
  <2>1. showTimers' \in 0 .. MaxPending
    BY <1>1, <1>3, TooltipAssumption
  <2> QED BY <1>1, <2>1 DEF TooltipInv, HoverTypes, options
<1>5. CASE hoverState = "in"
  <2>1. ShowTip
    BY <1>5 DEF ShowDelayEnds
  <2>2. TipInv' /\ (enabled => (tipIn' <=> HasContent))
    BY <1>1, <2>1, ShowTipKeeps DEF TooltipInv, HoverTypes
  <2>3. enabled /\ HoverKept => HoverKept'
    BY <1>1, <1>2, <1>3, <1>5, <2>2 DEF HoverKept
  <2> QED BY <1>1, <1>4, <2>2, <2>3 DEF TooltipInv
<1>6. CASE hoverState # "in"
  <2>1. UNCHANGED << inDocument, tipIn, everFaded, bound, loose, reshown >>
    BY <1>6 DEF ShowDelayEnds
  <2>2. TipInv'
    BY <1>1, <2>1, TipStays DEF TooltipInv
  <2>3. HoverKept => HoverKept'
    BY <1>1, <1>2, <1>3, <1>6, <2>1 DEF HoverKept
  <2> QED BY <1>1, <1>4, <2>2, <2>3 DEF TooltipInv
<1> QED BY <1>5, <1>6

LEMMA HideDelayKeeps ==
  ASSUME TooltipInv, HideDelayEnds
  PROVE  TooltipInv'
<1>1. /\ UNCHANGED options /\ UNCHANGED << enabled, switched, hovered, hoverState >>
      /\ showTimers' = showTimers /\ hideTimers > 0 /\ hideTimers' = hideTimers - 1
  BY DEF HideDelayEnds
<1>2. HasContent' = HasContent /\ manual' = manual /\ delay' = delay
  BY <1>1 DEF HasContent, options
<1>3. showTimers \in Nat /\ hideTimers \in Nat /\ delay \in SUBSET {"show", "hide"}
      /\ hideTimers <= MaxPending
  BY TooltipAssumption DEF TooltipInv, HoverTypes
<1>4. HoverTypes'
  <2>1. hideTimers' \in 0 .. MaxPending
    BY <1>1, <1>3, TooltipAssumption
  <2> QED BY <1>1, <2>1 DEF TooltipInv, HoverTypes, options
<1>5. CASE hoverState = "out"
  <2>1. HideTip
    BY <1>5 DEF HideDelayEnds
  <2>2. TipInv' /\ tipIn' = FALSE
    BY <1>1, <2>1, HideTipKeeps DEF TooltipInv
  <2>3. HoverKept => HoverKept'
    BY <1>1, <1>2, <1>3, <1>5, <2>2 DEF HoverKept
  <2> QED BY <1>1, <1>4, <2>2, <2>3 DEF TooltipInv
<1>6. CASE hoverState # "out"
  <2>1. UNCHANGED << inDocument, tipIn, everFaded, bound, loose, reshown >>
    BY <1>6 DEF HideDelayEnds
  <2>2. TipInv'
    BY <1>1, <2>1, TipStays DEF TooltipInv
  <2>3. HoverKept => HoverKept'
    BY <1>1, <1>2, <1>3, <1>6, <2>1 DEF HoverKept
  <2> QED BY <1>1, <1>4, <2>2, <2>3 DEF TooltipInv
<1> QED BY <1>5, <1>6

LEMMA RemovalKeeps ==
  ASSUME TooltipInv, RemovalEnds \/ RemovalTimer
  PROVE  TooltipInv'
<1>1. /\ UNCHANGED options /\ UNCHANGED << enabled, switched, hovered, hoverState >>
      /\ UNCHANGED << showTimers, hideTimers, tipIn, everFaded, reshown >>
      /\ inDocument' = FALSE
  BY DEF RemovalEnds, RemovalTimer
<1>2. HasContent' = HasContent
  BY <1>1 DEF HasContent, options
<1>3. bound \in Nat /\ loose \in Nat /\ bound + loose <= MaxPending
  BY DEF TooltipInv, TipInv
<1>4. /\ {bound, loose}' \subseteq 0 .. MaxPending /\ (bound + loose)' <= MaxPending
      /\ bound + loose > 0
  BY <1>3, TooltipAssumption DEF RemovalEnds, RemovalTimer
<1>5. TipInv'
  <2>1. {inDocument, tipIn, everFaded, reshown}' \subseteq BOOLEAN
    BY <1>1 DEF TooltipInv, TipInv
  <2>2. ~(tipIn /\ ~reshown)
    BY <1>4 DEF TooltipInv, TipInv
  <2>3. (tipIn' => HasContent') /\ ~(tipIn' /\ ~reshown')
    BY <1>1, <1>2, <2>2 DEF TooltipInv, TipInv
  <2> QED BY <1>1, <1>4, <2>1, <2>3 DEF TipInv
<1>6. HoverTypes'
  BY <1>1 DEF TooltipInv, HoverTypes, options
<1>7. HoverKept => HoverKept'
  BY <1>1, <1>2 DEF HoverKept, options
<1> QED BY <1>1, <1>5, <1>6, <1>7 DEF TooltipInv

LEMMA ToggleTipKeeps ==
  ASSUME TooltipInv, ToggleTip
  PROVE  TooltipInv'
<1>1. /\ UNCHANGED options /\ UNCHANGED << enabled, switched, hovered, hoverState >>
      /\ UNCHANGED << showTimers, hideTimers >> /\ manual /\ manual' = manual
  BY DEF ToggleTip, options
<1>2. HoverKept'
  BY <1>1 DEF HoverKept
<1>3. TipInv'
  <2>1. CASE tipIn
    <3>1. HideTip
      BY <2>1 DEF ToggleTip
    <3> QED BY <1>1, <3>1, HideTipKeeps DEF TooltipInv
  <2>2. CASE ~tipIn
    <3>1. ShowTip
      BY <2>2 DEF ToggleTip
    <3> QED BY <1>1, <3>1, ShowTipKeeps DEF TooltipInv, HoverTypes
  <2> QED BY <2>1, <2>2
<1>4. HoverTypes'
  BY <1>1 DEF TooltipInv, HoverTypes, options
<1> QED BY <1>1, <1>2, <1>3, <1>4 DEF TooltipInv

LEMMA TooltipInvInit == TooltipInit => TooltipInv
<1> SUFFICES ASSUME TooltipInit PROVE TooltipInv
  OBVIOUS
<1>1. TipInv
  <2>1. bound = 0 /\ loose = 0 /\ bound + loose = 0 /\ 0 \in 0 .. MaxPending
        /\ bound + loose <= MaxPending
    BY TooltipAssumption DEF TooltipInit
  <2>2. {inDocument, tipIn, everFaded, reshown} \subseteq BOOLEAN
        /\ inDocument = FALSE /\ tipIn = FALSE
    BY DEF TooltipInit
  <2> QED BY <2>1, <2>2 DEF TipInv
<1>2. HoverTypes
  <2>1. {manual, animation, title, body, enabled, hovered, switched} \subseteq BOOLEAN
    BY DEF TooltipInit
  <2>2. {showTimers, hideTimers} \subseteq 0 .. MaxPending
    BY TooltipAssumption DEF TooltipInit
  <2>3. type \in Types /\ delay \in SUBSET {"show", "hide"} /\ hoverState = "unset"
    BY DEF TooltipInit
  <2> QED BY <2>1, <2>2, <2>3 DEF HoverTypes
<1>3. HoverKept /\ enabled
  BY DEF TooltipInit, HoverKept
<1> QED BY <1>1, <1>2, <1>3 DEF TooltipInv

LEMMA TooltipInvStep == TooltipInv /\ [TooltipStep]_tooltipVars => TooltipInv'
<1>1. TooltipInv /\ SetEnabled => TooltipInv'
  <2> SUFFICES ASSUME TooltipInv, SetEnabled PROVE TooltipInv'
    OBVIOUS
  <2>1. TipInv'
    BY TipStays DEF SetEnabled, TooltipInv
  <2>2. HoverTypes'
    BY DEF SetEnabled, TooltipInv, HoverTypes, options
  <2> QED BY <2>1, <2>2 DEF SetEnabled, TooltipInv
<1>2. TooltipInv /\ UNCHANGED tooltipVars => TooltipInv'
  <2> SUFFICES ASSUME TooltipInv, UNCHANGED tooltipVars PROVE TooltipInv'
    OBVIOUS
  <2>1. UNCHANGED options
    BY DEF tooltipVars, options
  <2>2. TipInv'
    BY <2>1, TipStays DEF tooltipVars, TooltipInv
  <2>3. HoverTypes'
    BY DEF tooltipVars, TooltipInv, HoverTypes
  <2>4. HoverKept => HoverKept'
    BY DEF tooltipVars, HasContent, HoverKept
  <2> QED BY <2>2, <2>3, <2>4 DEF tooltipVars, TooltipInv
<1> QED BY <1>1, <1>2, EnterKeeps, LeaveKeeps, ShowDelayKeeps, HideDelayKeeps,
           RemovalKeeps, ToggleTipKeeps
        DEF TooltipStep

LEMMA TooltipTypeHolds == TooltipInv => TooltipTypeOK
BY DEF TooltipInv, TipInv, HoverTypes, TooltipTypeOK

(* For any number of timers: a tip at rest that is in the document has the  *)
(* class in, and the other way round unless it was shown again while a      *)
(* removal was pending; with the delays of show and hide alike, and never   *)
(* disabled, it has the class in exactly when the mouse is there (enter,    *)
(* leave, show, hide and its removals).                                     *)
THEOREM TipComesToRest == TooltipSpec => []TipFollowsMouse
<1>1. TooltipInv => TipFollowsMouse
  <2> SUFFICES ASSUME TooltipInv, Resting
               PROVE  /\ inDocument => tipIn
                      /\ tipIn /\ ~reshown => inDocument
                      /\ ~manual /\ ~switched /\ delay \in {{}, {"show", "hide"}}
                           => (tipIn <=> hovered /\ HasContent)
    BY DEF TipFollowsMouse
  <2>1. ~(bound > 0) /\ ~(showTimers > 0) /\ ~(hideTimers > 0)
    BY DEF Resting
  <2>2. (inDocument => tipIn) /\ (tipIn /\ ~reshown => inDocument)
    BY <2>1 DEF TooltipInv, TipInv
  <2>3. ASSUME ~manual, ~switched, delay = {} PROVE tipIn <=> hovered /\ HasContent
    BY <2>3 DEF TooltipInv, HoverKept
  <2>4. ASSUME ~manual, ~switched, delay = {"show", "hide"}
        PROVE  tipIn <=> hovered /\ HasContent
    BY <2>1, <2>4 DEF TooltipInv, HoverKept
  <2> QED BY <2>2, <2>3, <2>4
<1>2. [TooltipStep /\ UNCHANGED support]_<< support, tooltipVars >>
        => [TooltipStep]_tooltipVars
  BY DEF tooltipVars
<1> QED BY <1>1, <1>2, TooltipInvInit, TooltipInvStep, PTL DEF TooltipSpec

-----------------------------------------------------------------------------
(* The dialog.  Without a call that comes too early it is hidden, or its    *)
(* backdrop fades in, or it is there, or it fades, or its backdrop fades    *)
(* out.                                                                     *)
OwnBackdrop ==
  IF withBackdrop THEN backdrop \in Id /\ backdrops = {backdrop}
  ELSE backdrop = 0 /\ backdrops = {}

NoTimer == toHide = {} /\ timers = {}
StillBackdrop == backdropRuns = {} /\ toShow = {} /\ toRemove = {}
OutOfPage == ~inPage /\ ~lit /\ ~elementRuns

ModalHidden ==
  ~isShown /\ OutOfPage /\ NoTimer /\ StillBackdrop /\ backdrops = {} /\ backdrop = 0

ModalComes ==
  /\ Animated /\ withBackdrop /\ isShown /\ OutOfPage /\ NoTimer
  /\ OwnBackdrop /\ backdropRuns = {backdrop} /\ toShow = {backdrop} /\ toRemove = {}

ModalThere ==
  isShown /\ inPage /\ lit /\ NoTimer /\ StillBackdrop /\ OwnBackdrop

ModalFades ==
  /\ Animated /\ ~isShown /\ inPage /\ ~lit /\ elementRuns
  /\ \E t \in Id : toHide = {t} /\ timers = {t}
  /\ StillBackdrop /\ OwnBackdrop

ModalGoes ==
  /\ Animated /\ withBackdrop /\ ~isShown /\ OutOfPage /\ NoTimer
  /\ OwnBackdrop /\ backdropRuns = {backdrop} /\ toShow = {} /\ toRemove = {backdrop}

ModalPhase == ModalHidden \/ ModalComes \/ ModalThere \/ ModalFades \/ ModalGoes

ModalInv == ModalTypeOK /\ (rushed \/ ModalPhase)

(* The numbers a step takes for what it creates.                            *)
LEMMA NextIds ==
  ASSUME NEW c \in 0 .. MaxCalls, NEW n \in Nat, c + n <= MaxCalls
  PROVE  /\ c + n \in 0 .. MaxCalls /\ c + n \in Id \cup {0}
         /\ (c + 1 .. c + n) \subseteq Id
BY ModalAssumption DEF Id

LEMMA ShowModalTypes ==
  ASSUME ModalTypeOK, ShowModal
  PROVE  ModalTypeOK'
<1>1. calls < MaxCalls => calls + 1 \in Id
  BY ModalAssumption DEF ModalTypeOK, Id
<1>2. {isShown, faded, withBackdrop, inPage, lit, elementRuns, rushed}' \subseteq BOOLEAN
  BY DEF ShowModal, Reveal, Animated, ModalTypeOK
<1>3. toHide' \in SUBSET Id /\ timers' \in SUBSET Id /\ toRemove' \in SUBSET Id
  BY DEF ShowModal, ModalTypeOK
<1>4. backdrops' \in SUBSET Id /\ backdropRuns' \in SUBSET Id /\ toShow' \in SUBSET Id
      /\ backdrop' \in Id \cup {0}
  BY <1>1 DEF ShowModal, ModalTypeOK
<1>5. calls' \in 0 .. MaxCalls
  BY ModalAssumption DEF ShowModal, ModalTypeOK
<1> QED BY <1>2, <1>3, <1>4, <1>5 DEF ModalTypeOK

LEMMA HideModalTypes ==
  ASSUME ModalTypeOK, NEW seen, NEW n \in Nat, HideModal(seen, n)
  PROVE  /\ {inPage, elementRuns}' \subseteq BOOLEAN
         /\ backdrops' \in SUBSET Id /\ backdropRuns' \in SUBSET Id
         /\ toShow' \in SUBSET Id /\ toRemove' \in SUBSET Id
         /\ backdrop' \in Id \cup {0} /\ calls' \in 0 .. MaxCalls
<1>1. CASE seen /\ withBackdrop
  <2>1. calls \in 0 .. MaxCalls /\ calls + n <= MaxCalls /\ calls' = calls + n
    BY <1>1 DEF HideModal, ModalTypeOK
  <2>2. /\ calls' \in 0 .. MaxCalls /\ calls' \in Id \cup {0}
        /\ (calls + 1 .. calls') \subseteq Id
    BY <2>1, NextIds
  <2> QED BY <1>1, <2>2 DEF HideModal, ModalTypeOK
<1>2. CASE ~(seen /\ withBackdrop)
  <2>1. calls' = calls
    BY <1>2 DEF HideModal
  <2> QED BY <1>2, <2>1 DEF HideModal, RemoveBackdrop, ModalTypeOK
<1> QED BY <1>1, <1>2

LEMMA HideDialogTypes ==
  ASSUME ModalTypeOK, HideDialog
  PROVE  ModalTypeOK'
<1>1. {isShown, faded, withBackdrop, lit, rushed}' \subseteq BOOLEAN
  BY DEF HideDialog, ModalTypeOK
<1>2. CASE Animated
  <2>1. calls < MaxCalls /\ calls' = calls + 1 /\ calls' \in Id /\ calls' \in 0 .. MaxCalls
    BY <1>2, ModalAssumption DEF HideDialog, ModalTypeOK, Id
  <2>2. inPage' \in BOOLEAN /\ elementRuns' \in BOOLEAN
    BY <1>2 DEF HideDialog, ModalTypeOK
  <2> QED BY <1>1, <1>2, <2>1, <2>2 DEF HideDialog, ModalTypeOK
<1>3. CASE ~Animated
  <2>1. HideModal(FALSE, 1) /\ timers' = timers /\ toHide' = toHide
    BY <1>3 DEF HideDialog
  <2> QED BY <1>1, <2>1, HideModalTypes DEF ModalTypeOK
<1> QED BY <1>2, <1>3

LEMMA ElementEndsTypes ==
  ASSUME ModalTypeOK, ElementEnds
  PROVE  ModalTypeOK'
<1>1. {isShown, faded, withBackdrop, lit, rushed}' \subseteq BOOLEAN
      /\ toHide' \in SUBSET Id /\ timers' \in SUBSET Id
  BY DEF ElementEnds, ModalTypeOK
<1>2. CASE toHide = {}
  BY <1>1, <1>2 DEF ElementEnds, ModalTypeOK
<1>3. CASE toHide # {}
  <2>1. PICK n : n = Cardinality(toHide)
    OBVIOUS
  <2>2. n \in Nat
    <3>1. IsFiniteSet(Id)
      BY FS_Interval, ModalAssumption DEF Id
    <3>2. toHide \in SUBSET Id
      BY DEF ModalTypeOK
    <3> QED BY <2>1, <3>1, <3>2, FS_Subset, FS_CardinalityType
  <2>3. PICK seen : seen = isShown
    OBVIOUS
  <2>4. HideModal(seen, n)
    BY <1>3, <2>1, <2>3 DEF ElementEnds
  <2> QED BY <1>1, <2>2, <2>4, HideModalTypes DEF ModalTypeOK
<1> QED BY <1>2, <1>3

LEMMA TimerFiresTypes ==
  ASSUME ModalTypeOK, NEW t \in Id, TimerFires(t)
  PROVE  ModalTypeOK'
<1>1. {isShown, faded, withBackdrop, lit, rushed}' \subseteq BOOLEAN
      /\ toHide' \in SUBSET Id /\ timers' \in SUBSET Id
  BY DEF TimerFires, ModalTypeOK
<1>2. PICK seen : seen = isShown
  OBVIOUS
<1>3. HideModal(seen, 1)
  BY <1>2 DEF TimerFires
<1> QED BY <1>1, <1>3, HideModalTypes DEF ModalTypeOK

LEMMA BackdropEndsTypes ==
  ASSUME ModalTypeOK, NEW b \in Id, BackdropEnds(b)
  PROVE  ModalTypeOK'
<1>1. {isShown, faded, withBackdrop, inPage, lit, elementRuns, rushed}' \subseteq BOOLEAN
  BY DEF BackdropEnds, Reveal, Animated, ModalTypeOK
<1>2. backdrops' \in SUBSET Id /\ backdropRuns' \in SUBSET Id /\ toShow' \in SUBSET Id
      /\ toRemove' \in SUBSET Id /\ backdrop' \in Id \cup {0}
  BY DEF BackdropEnds, ModalTypeOK
<1> QED BY <1>1, <1>2 DEF BackdropEnds, ModalTypeOK

LEMMA ShowModalSettles ==
  ASSUME ModalInv, support' = support, ShowModal, ~rushed'
  PROVE  ModalPhase'
<1>1. ModalHidden
  BY DEF ShowModal, Moving, ModalInv, ModalPhase, ModalHidden, ModalComes, ModalThere,
         ModalFades, ModalGoes
<1>2. /\ isShown' = TRUE /\ Animated' = Animated /\ withBackdrop' = withBackdrop
      /\ NoTimer' /\ toRemove' = {}
  BY <1>1 DEF ShowModal, Animated, ModalHidden, NoTimer, StillBackdrop
<1>3. CASE withBackdrop
  <2>1. calls < MaxCalls /\ backdrop' = calls + 1 /\ backdrops' = backdrops \cup {calls + 1}
    BY <1>3 DEF ShowModal
  <2>2. backdrop' \in Id /\ OwnBackdrop'
    BY <1>1, <1>2, <1>3, <2>1, ModalAssumption
       DEF ModalInv, ModalTypeOK, ModalHidden, OwnBackdrop, Id
  <2>3. CASE Animated
    <3>1. ModalComes'
      BY <1>1, <1>2, <1>3, <2>1, <2>2, <2>3
         DEF ShowModal, ModalHidden, ModalComes, StillBackdrop, OutOfPage
    <3> QED BY <3>1 DEF ModalPhase
  <2>4. CASE ~Animated
    <3>1. ModalThere'
      BY <1>1, <1>2, <1>3, <2>2, <2>4
         DEF ShowModal, Reveal, ModalHidden, ModalThere, StillBackdrop
    <3> QED BY <3>1 DEF ModalPhase
  <2> QED BY <2>3, <2>4
<1>4. CASE ~withBackdrop
  <2>1. ModalThere'
    BY <1>1, <1>2, <1>4
       DEF ShowModal, Reveal, ModalHidden, ModalThere, StillBackdrop, OwnBackdrop
  <2> QED BY <2>1 DEF ModalPhase
<1> QED BY <1>3, <1>4

LEMMA HideDialogSettles ==
  ASSUME ModalInv, support' = support, HideDialog, ~rushed'
  PROVE  ModalPhase'
<1>1. ModalThere /\ ~elementRuns
  BY DEF HideDialog, Moving, ModalInv, ModalPhase, ModalHidden, ModalComes, ModalThere,
         ModalFades, ModalGoes
<1>2. /\ isShown' = FALSE /\ lit' = FALSE /\ Animated' = Animated
      /\ withBackdrop' = withBackdrop
  BY DEF HideDialog, Animated
<1>3. CASE Animated
  <2>1. calls + 1 \in Id /\ timers' = {calls + 1} /\ toHide' = {calls + 1}
    BY <1>1, <1>3, ModalAssumption
       DEF HideDialog, ModalInv, ModalTypeOK, ModalThere, NoTimer, Id
  <2>2. elementRuns' /\ inPage' /\ StillBackdrop' /\ OwnBackdrop'
    BY <1>1, <1>3 DEF HideDialog, ModalThere, StillBackdrop, OwnBackdrop
  <2> QED BY <1>2, <1>3, <2>1, <2>2 DEF ModalPhase, ModalFades
<1>4. CASE ~Animated
  <2>1. HideModal(FALSE, 1) /\ timers' = timers /\ toHide' = toHide
    BY <1>4 DEF HideDialog
  <2>2. OutOfPage' /\ NoTimer'
    BY <1>1, <1>2, <2>1 DEF HideModal, OutOfPage, NoTimer, ModalThere
  <2>3. StillBackdrop' /\ backdrops' = {} /\ backdrop' = 0
    <3>1. StillBackdrop /\ OwnBackdrop
      BY <1>1 DEF ModalThere
    <3>2. CASE backdrop = 0
      <4>1. backdrops = {}
        BY <3>1, <3>2, ModalAssumption DEF OwnBackdrop, Id
      <4> QED BY <2>1, <3>1, <3>2, <4>1 DEF HideModal, StillBackdrop
    <3>3. CASE backdrop # 0
      <4>1. backdrops = {backdrop}
        BY <3>1, <3>3 DEF OwnBackdrop
      <4> QED BY <1>4, <2>1, <3>1, <3>3, <4>1 DEF HideModal, RemoveBackdrop, StillBackdrop
    <3> QED BY <3>2, <3>3
  <2> QED BY <1>2, <2>2, <2>3 DEF ModalPhase, ModalHidden
<1> QED BY <1>3, <1>4

(* The end of a hide, reported by the browser or by the timer.              *)
LEMMA FadedSettles ==
  ASSUME ModalTypeOK, ModalFades, NEW n, HideModal(FALSE, n), toHide' = {}, timers' = {},
         UNCHANGED << support, isShown, lit, faded, withBackdrop >>
  PROVE  ModalPhase'
<1>1. ~isShown' /\ OutOfPage' /\ NoTimer' /\ Animated' = Animated /\ Animated
      /\ withBackdrop' = withBackdrop
  BY DEF ModalFades, HideModal, OutOfPage, NoTimer, Animated
<1>2. CASE withBackdrop
  <2>1. backdrop # 0 /\ backdrop \in Id
    BY <1>2, ModalAssumption DEF ModalFades, OwnBackdrop, Id
  <2>2. /\ backdropRuns' = {backdrop} /\ toRemove' = {backdrop} /\ toShow' = {}
        /\ backdrop' = backdrop /\ backdrops' = {backdrop}
    BY <1>1, <1>2, <2>1 DEF HideModal, ModalFades, StillBackdrop, OwnBackdrop
  <2>3. ModalGoes'
    BY <1>1, <1>2, <2>1, <2>2 DEF ModalGoes, OwnBackdrop
  <2> QED BY <2>3 DEF ModalPhase
<1>3. CASE ~withBackdrop
  <2>1. backdrop = 0 /\ backdrops = {} /\ StillBackdrop
    BY <1>3 DEF ModalFades, OwnBackdrop
  <2>2. StillBackdrop' /\ backdrops' = {} /\ backdrop' = 0
    BY <1>3, <2>1 DEF HideModal, StillBackdrop
  <2> QED BY <1>1, <2>2 DEF ModalPhase, ModalHidden
<1> QED BY <1>2, <1>3

LEMMA ElementEndsSettles ==
  ASSUME ModalInv, support' = support, ElementEnds, ~rushed'
  PROVE  ModalPhase'
<1>1. ModalThere \/ ModalFades
  BY DEF ElementEnds, ModalInv, ModalPhase, ModalHidden, ModalComes, ModalGoes, OutOfPage
<1>2. CASE ModalThere
  <2>1. toHide = {} /\ timers = {}
    BY <1>2 DEF ModalThere, NoTimer
  <2>2. ModalThere'
    BY <1>2, <2>1 DEF ElementEnds, ModalThere, NoTimer, StillBackdrop, OwnBackdrop
  <2> QED BY <2>2 DEF ModalPhase
<1>3. CASE ModalFades
  <2>1. toHide # {} /\ timers' = {} /\ toHide' = {} /\ ~isShown
    BY <1>3 DEF ModalFades, ElementEnds
  <2>2. PICK n : n = Cardinality(toHide)
    OBVIOUS
  <2>3. isShown = FALSE
    BY <2>1 DEF ModalInv, ModalTypeOK
  <2>4. HideModal(FALSE, n)
    BY <2>1, <2>2, <2>3 DEF ElementEnds
  <2> QED BY <1>3, <2>1, <2>4, FadedSettles DEF ElementEnds, ModalInv
<1> QED BY <1>1, <1>2, <1>3

LEMMA TimerFiresSettles ==
  ASSUME ModalInv, support' = support, NEW t \in Id, TimerFires(t), ~rushed'
  PROVE  ModalPhase'
<1>1. ModalFades
  BY DEF TimerFires, ModalInv, ModalPhase, ModalHidden, ModalComes, ModalThere, ModalGoes,
         NoTimer
<1>2. timers' = {} /\ toHide' = {} /\ isShown = FALSE
  BY <1>1 DEF ModalFades, TimerFires, ModalInv, ModalTypeOK
<1>3. HideModal(FALSE, 1)
  BY <1>2 DEF TimerFires
<1> QED BY <1>1, <1>2, <1>3, FadedSettles DEF TimerFires, ModalInv

LEMMA BackdropEndsSettles ==
  ASSUME ModalInv, support' = support, NEW b \in Id, BackdropEnds(b), ~rushed'
  PROVE  ModalPhase'
<1>1. ModalComes \/ ModalGoes
  BY DEF BackdropEnds, ModalInv, ModalPhase, ModalHidden, ModalThere, ModalFades,
         StillBackdrop
<1>2. /\ isShown' = isShown /\ withBackdrop' = withBackdrop /\ toHide' = toHide
      /\ timers' = timers
  BY DEF BackdropEnds
<1>3. CASE ModalComes
  <2>1. b = backdrop /\ b \in toShow /\ b \notin toRemove
    BY <1>3 DEF ModalComes, BackdropEnds
  <2>2. inPage' /\ lit' /\ StillBackdrop' /\ backdrops' = backdrops /\ backdrop' = backdrop
    BY <1>3, <2>1 DEF ModalComes, BackdropEnds, Reveal, StillBackdrop
  <2>3. ModalThere'
    BY <1>2, <1>3, <2>2 DEF ModalThere, ModalComes, NoTimer, OwnBackdrop
  <2> QED BY <2>3 DEF ModalPhase
<1>4. CASE ModalGoes
  <2>1. b = backdrop /\ b \notin toShow /\ b \in toRemove /\ backdrop # 0
    BY <1>4, ModalAssumption DEF ModalGoes, BackdropEnds, OwnBackdrop, Id
  <2>2. StillBackdrop' /\ backdrops' = {} /\ backdrop' = 0
    BY <1>4, <2>1 DEF ModalGoes, BackdropEnds, StillBackdrop, OwnBackdrop
  <2>3. OutOfPage'
    BY <1>4, <2>1 DEF ModalGoes, BackdropEnds, OutOfPage
  <2> QED BY <1>2, <1>4, <2>2, <2>3 DEF ModalPhase, ModalHidden, ModalGoes, NoTimer
<1> QED BY <1>1, <1>3, <1>4

LEMMA ModalInvInit == ModalInit => ModalInv
<1> SUFFICES ASSUME ModalInit PROVE ModalInv
  OBVIOUS
<1>1. ModalHidden
  BY DEF ModalInit, ModalHidden, OutOfPage, NoTimer, StillBackdrop
<1>2. {isShown, faded, withBackdrop, inPage, lit, elementRuns, rushed} \subseteq BOOLEAN
  BY DEF ModalInit
<1>3. calls \in 0 .. MaxCalls
  BY ModalAssumption DEF ModalInit
<1> QED BY <1>1, <1>2, <1>3 DEF ModalInit, ModalInv, ModalTypeOK, ModalPhase

LEMMA ModalInvStep ==
  ModalInv /\ [ModalStep /\ UNCHANGED support]_<< support, modalVars >> => ModalInv'
<1> SUFFICES ASSUME ModalInv, [ModalStep /\ UNCHANGED support]_<< support, modalVars >>
             PROVE  ModalInv'
  OBVIOUS
<1>1. ASSUME ModalStep, UNCHANGED support PROVE ModalInv'
  <2>1. ModalTypeOK'
    BY <1>1, ShowModalTypes, HideDialogTypes, ElementEndsTypes, TimerFiresTypes,
       BackdropEndsTypes DEF ModalStep, ModalInv
  <2>2. ~rushed' => ModalPhase'
    BY <1>1, ShowModalSettles, HideDialogSettles, ElementEndsSettles, TimerFiresSettles,
       BackdropEndsSettles DEF ModalStep
  <2> QED BY <2>1, <2>2 DEF ModalInv
<1>2. CASE UNCHANGED << support, modalVars >>
  <2>1. ModalTypeOK' /\ rushed' = rushed
    BY <1>2 DEF modalVars, ModalInv, ModalTypeOK
  <2>2. ModalPhase => ModalPhase'
    BY <1>2 DEF modalVars, ModalPhase, ModalHidden, ModalComes, ModalThere, ModalFades,
                ModalGoes, OwnBackdrop, NoTimer, StillBackdrop, OutOfPage, Animated
  <2> QED BY <2>1, <2>2 DEF ModalInv
<1> QED BY <1>1, <1>2

LEMMA ModalRests == ModalInv => ModalSettles
<1> SUFFICES ASSUME ModalInv, ~rushed, ~Moving
             PROVE  /\ inPage = isShown /\ lit = isShown
                    /\ backdrops = IF isShown /\ withBackdrop THEN {backdrop} ELSE {}
  BY DEF ModalSettles
<1>1. ModalHidden \/ ModalThere
  BY DEF ModalInv, Moving, ModalPhase, ModalComes, ModalFades, ModalGoes
<1>2. {isShown, inPage, lit} \subseteq BOOLEAN
  BY DEF ModalInv, ModalTypeOK
<1>3. CASE ModalHidden
  BY <1>2, <1>3 DEF ModalHidden, OutOfPage
<1>4. CASE ModalThere
  BY <1>2, <1>4 DEF ModalThere, OwnBackdrop
<1> QED BY <1>1, <1>3, <1>4

(* A dialog with or without a backdrop, faded or not, whose calls came one  *)
(* after the other is at rest as isShown says: there, lit, above its one    *)
(* backdrop, or gone with it (show, hide, backdrop, hideModal).             *)
THEOREM DialogComesToRest == ModalSpec => []ModalSettles
BY ModalRests, ModalInvInit, ModalInvStep, PTL DEF ModalSpec

-----------------------------------------------------------------------------
(* The least-number principle for a set of numbers, from the order of the   *)
(* finite sets.                                                             *)
LEMMA LeastNumber ==
  ASSUME NEW S \in SUBSET Nat, S # {}
  PROVE  \E m \in S : \A n \in S : m <= n
<1> DEFINE R == StrictSubsetOrdering(Nat)
           T == {1 .. n : n \in S}
<1>1. T \subseteq FiniteSubsetsOf(Nat) /\ T # {}
  <2>1. ASSUME NEW n \in S PROVE 1 .. n \in FiniteSubsetsOf(Nat)
    BY FS_Interval DEF FiniteSubsetsOf
  <2> QED BY <2>1
<1>2. IsWellFoundedOn(R, FiniteSubsetsOf(Nat))
  BY FS_StrictSubsetOrderingWellFounded
<1> HIDE DEF R, T
<1>3. PICK x \in T : \A y \in T : ~(<< y, x >> \in R)
  BY <1>1, <1>2, WFMin
<1>4. PICK m \in S : x = 1 .. m
  BY DEF T
<1>5. ASSUME NEW n \in S, ~(m <= n) PROVE FALSE
  <2>1. n \in Nat /\ m \in Nat /\ n < m
    BY <1>5
  <2>2. 1 .. n \subseteq 1 .. m /\ m \in 1 .. m /\ m \notin 1 .. n
    BY <2>1
  <2>3. << 1 .. n, x >> \in R
    BY <1>4, <2>2 DEF R, StrictSubsetOrdering
  <2> QED BY <1>3, <2>3 DEF T
<1> QED BY <1>5

(* The section spy.  After a process the marked section is what process     *)
(* makes of the offsets and the position, from some section marked before.  *)
SpyProcessed ==
  processed => \E m \in 0 .. MaxSections : activeTarget = Processed(offsets, scrollTop, m)

SpyInv == SpyTypeOK /\ SpyProcessed

LEMMA ProcessedType ==
  ASSUME NEW offs \in Layout, NEW top, NEW m \in 0 .. MaxSections
  PROVE  Processed(offs, top, m) \in 0 .. MaxSections
<1> DEFINE hits == {i \in DOMAIN offs : Marks(offs, top, m, i)}
<1>1. PICK n \in 0 .. MaxSections : offs \in [1 .. n -> Top]
  BY DEF Layout
<1>2. hits \subseteq 1 .. MaxSections /\ hits \in SUBSET Nat
  BY <1>1, ScrollSpyAssumption
<1>3. CASE hits = {}
  BY <1>3 DEF Processed
<1>4. CASE hits # {}
  <2>1. \E i \in hits : \A j \in hits : i <= j
    <3> HIDE DEF hits
    <3> QED BY <1>2, <1>4, LeastNumber
  <2>2. Processed(offs, top, m) = CHOOSE i \in hits : \A j \in hits : i <= j
    BY <1>4 DEF Processed
  <2>3. Processed(offs, top, m) \in hits
    BY <2>1, <2>2
  <2> QED BY <1>2, <2>3
<1> QED BY <1>3, <1>4

(* In offsets that are in order, process marks the last section above the   *)
(* position, or, exactly where that one begins, the one before it.          *)
LEMMA ProcessedMarks ==
  ASSUME NEW offs \in Layout, NEW top \in Top, NEW m, InOrder(offs),
         NEW i \in DOMAIN offs, LastAbove(top, offs, i)
  PROVE  \/ Processed(offs, top, m) = i
         \/ offs[i] = top /\ Processed(offs, top, m) = i - 1 /\ i > 1
<1> DEFINE hits == {j \in DOMAIN offs : Marks(offs, top, m, j)}
<1>1. PICK n \in 0 .. MaxSections : offs \in [1 .. n -> Top]
  BY DEF Layout
<1>2. n \in Nat /\ DOMAIN offs = 1 .. n /\ Len(offs) = n
  BY <1>1, ScrollSpyAssumption
<1>3. top \in Nat /\ \A j \in 1 .. n : offs[j] \in Nat
  BY <1>1, ScrollSpyAssumption
<1>4. ASSUME NEW j \in hits PROVE j = i \/ (offs[i] = top /\ j = i - 1 /\ i > 1)
  <2>1. j \in 1 .. n /\ top >= offs[j] /\ (j = n \/ offs[j + 1] = 0 \/ top <= offs[j + 1])
    BY <1>2 DEF Marks
  <2>2. ~(j > i)
    BY <1>2, <1>3, <2>1 DEF LastAbove
  <2>3. CASE j < i
    <3>1. j + 1 \in 1 .. n /\ j < j + 1 /\ j # n
      BY <1>2, <2>1, <2>3
    <3>2. offs[j + 1] > 0
      <4>1. offs[j] < offs[j + 1]
        BY <1>2, <2>1, <3>1 DEF InOrder
      <4> QED BY <1>3, <2>1, <3>1, <4>1
    <3>3. offs[i] <= top /\ top <= offs[j + 1]
      BY <1>2, <1>3, <2>1, <3>1, <3>2 DEF LastAbove
    <3>4. CASE j + 1 = i
      <4>1. i > 1 /\ j = i - 1
        BY <1>2, <2>1, <3>4
      <4>2. offs[i] = top
        BY <1>2, <1>3, <3>3, <3>4
      <4> QED BY <4>1, <4>2
    <3>5. CASE j + 1 < i
      <4>1. offs[j + 1] < offs[i]
        BY <1>2, <3>1, <3>5 DEF InOrder
      <4> QED BY <1>2, <1>3, <3>1, <3>3, <4>1
    <3> QED BY <1>2, <2>1, <2>3, <3>4, <3>5
  <2> QED BY <1>2, <2>1, <2>2, <2>3
<1>5. m # i => i \in hits
  <2>1. i = n \/ top <= offs[i + 1]
    <3>1. ASSUME i # n PROVE top <= offs[i + 1]
      <4>1. i + 1 \in 1 .. n /\ i + 1 > i
        BY <1>2, <3>1
      <4>2. offs[i + 1] > top
        BY <1>2, <4>1 DEF LastAbove
      <4> QED BY <1>3, <4>1, <4>2
    <3> QED BY <3>1
  <2>2. top >= offs[i]
    BY <1>2, <1>3 DEF LastAbove
  <2> QED BY <1>2, <2>1, <2>2 DEF Marks
<1>6. CASE hits = {}
  BY <1>5, <1>6 DEF Processed
<1>7. CASE hits # {}
  <2>1. hits \in SUBSET Nat
    BY <1>2
  <2>2. \E k \in hits : \A j \in hits : k <= j
    <3> HIDE DEF hits
    <3> QED BY <1>7, <2>1, LeastNumber
  <2>3. Processed(offs, top, m) = CHOOSE k \in hits : \A j \in hits : k <= j
    BY <1>7 DEF Processed
  <2>4. Processed(offs, top, m) \in hits
    <3> HIDE DEF hits
    <3> QED BY <2>2, <2>3
  <2> QED BY <1>4, <2>4
<1> QED BY <1>6, <1>7

LEMMA SpyInvInit == SpyInit => SpyInv
<1> SUFFICES ASSUME SpyInit PROVE SpyInv
  OBVIOUS
<1>1. sections \in Layout /\ offsets \in Layout /\ scrollTop \in Top /\ processed \in BOOLEAN
      /\ activeTarget = Processed(offsets, scrollTop, 0)
  BY DEF SpyInit
<1>2. 0 \in 0 .. MaxSections
  BY ScrollSpyAssumption
<1>3. activeTarget \in 0 .. MaxSections
  BY <1>1, <1>2, ProcessedType
<1> QED BY <1>1, <1>2, <1>3 DEF SpyInv, SpyTypeOK, SpyProcessed

LEMMA SpyInvStep == SpyInv /\ [SpyStep]_spyVars => SpyInv'
<1> SUFFICES ASSUME SpyInv, [SpyStep]_spyVars PROVE SpyInv'
  OBVIOUS
<1>1. CASE Scroll
  <2>1. PICK top, m, offs : top = scrollTop' /\ m = activeTarget /\ offs = offsets
    OBVIOUS
  <2>2. top \in Top /\ m \in 0 .. MaxSections /\ offs \in Layout
    BY <1>1, <2>1 DEF Scroll, SpyInv, SpyTypeOK
  <2>3. activeTarget' = Processed(offs, top, m)
    BY <1>1, <2>1 DEF Scroll
  <2>4. activeTarget' \in 0 .. MaxSections
    BY <2>2, <2>3, ProcessedType
  <2>5. SpyTypeOK'
    BY <1>1, <2>4 DEF Scroll, SpyInv, SpyTypeOK
  <2>6. offsets' = offs
    BY <1>1, <2>1 DEF Scroll
  <2> QED BY <2>1, <2>2, <2>3, <2>5, <2>6 DEF SpyInv, SpyProcessed
<1>2. CASE MoveSections
  <2>1. PICK i \in DOMAIN sections, there \in Top :
          sections' = [sections EXCEPT ![i] = there]
    BY <1>2 DEF MoveSections
  <2>2. PICK n \in 0 .. MaxSections : sections \in [1 .. n -> Top]
    BY DEF SpyInv, SpyTypeOK, Layout
  <2>3. sections' \in [1 .. n -> Top]
    BY <2>1, <2>2
  <2>4. sections' \in Layout
    BY <2>3 DEF Layout
  <2> QED BY <1>2, <2>4 DEF MoveSections, SpyInv, SpyTypeOK, SpyProcessed
<1>3. CASE Refresh
  BY <1>3 DEF Refresh, SpyInv, SpyTypeOK, SpyProcessed
<1>4. CASE UNCHANGED spyVars
  BY <1>4 DEF spyVars, SpyInv, SpyTypeOK, SpyProcessed
<1> QED BY <1>1, <1>2, <1>3, <1>4 DEF SpyStep

(* Of sections one below the other the spy marks the one the reader is in,  *)
(* or exactly at its beginning perhaps the one before, wherever they lie    *)
(* and whatever was marked; sections side by side or out of order are left  *)
(* out (refresh, process, activate).                                        *)
THEOREM SpyFollowsScroll == SpySpec => []SpyMarksSection
<1>1. SpyInv => SpyMarksSection
  <2> SUFFICES ASSUME SpyInv, processed, InOrder(offsets),
                      NEW i \in DOMAIN offsets, LastAbove(scrollTop, offsets, i)
               PROVE  \/ activeTarget = i
                      \/ offsets[i] = scrollTop /\ activeTarget = i - 1 /\ i > 1
    BY DEF SpyMarksSection
  <2>1. PICK m \in 0 .. MaxSections : activeTarget = Processed(offsets, scrollTop, m)
    BY DEF SpyInv, SpyProcessed
  <2>2. offsets \in Layout /\ scrollTop \in Top
    BY DEF SpyInv, SpyTypeOK
  <2> QED BY <2>1, <2>2, ProcessedMarks
<1> QED BY <1>1, SpyInvInit, SpyInvStep, PTL DEF SpySpec

-----------------------------------------------------------------------------
(* The menu.  The k-th item at some places is found by counting the places  *)
(* up to each: the count is a bijection, so every place is listed once.     *)
LEMMA PlacesCounted ==
  ASSUME NEW P \in SUBSET Nat, IsFiniteSet(P)
  PROVE  /\ Cardinality(P) \in Nat
         /\ \A k \in P : Cardinality({j \in P : j <= k}) \in 1 .. Cardinality(P)
         /\ \A k, l \in P : Cardinality({j \in P : j <= k}) = Cardinality({j \in P : j <= l})
                              => k = l
         /\ \A n \in 1 .. Cardinality(P) :
              \E k \in P : Cardinality({j \in P : j <= k}) = n
<1> DEFINE UpTo(k) == {j \in P : j <= k}
           C == Cardinality(P)
           count == [k \in P |-> Cardinality(UpTo(k))]
<1>1. C \in Nat
  BY FS_CardinalityType
<1>2. ASSUME NEW k \in P
      PROVE  IsFiniteSet(UpTo(k)) /\ Cardinality(UpTo(k)) \in 1 .. C
  <2>1. UpTo(k) \in SUBSET P /\ k \in UpTo(k)
    OBVIOUS
  <2>2. IsFiniteSet(UpTo(k)) /\ Cardinality(UpTo(k)) <= C
    BY <2>1, FS_Subset
  <2>3. Cardinality(UpTo(k)) \in Nat
    BY <2>2, FS_CardinalityType
  <2>4. Cardinality(UpTo(k)) # 0
    BY <2>1, <2>2, FS_EmptySet
  <2> QED BY <1>1, <2>2, <2>3, <2>4
<1>3. ASSUME NEW k \in P, NEW l \in P, k < l
      PROVE  Cardinality(UpTo(k)) # Cardinality(UpTo(l))
  <2>1. UpTo(k) \in SUBSET UpTo(l) /\ UpTo(k) # UpTo(l)
    <3>1. l \in UpTo(l) /\ l \notin UpTo(k)
      BY <1>3
    <3>2. \A j \in P : j <= k => j <= l
      BY <1>3
    <3> QED BY <3>1, <3>2
  <2>2. IsFiniteSet(UpTo(l))
    BY <1>2
  <2> QED BY <2>1, <2>2, FS_Subset
<1>4. ASSUME NEW k \in P, NEW l \in P, Cardinality(UpTo(k)) = Cardinality(UpTo(l))
      PROVE  k = l
  <2>1. k < l \/ l < k \/ k = l
    OBVIOUS
  <2> QED BY <1>3, <1>4, <2>1
<1>5. count \in Injection(P, 1 .. C)
  <2>1. count \in [P -> 1 .. C]
    BY <1>2
  <2>2. \A k, l \in P : count[k] = count[l] => k = l
    BY <1>4
  <2> HIDE DEF count
  <2> QED BY <2>1, <2>2 DEF Injection, IsInjective
<1>6. count \in Surjection(P, 1 .. C)
  <2>1. IsFiniteSet(1 .. C) /\ Cardinality(1 .. C) = C
    BY <1>1, FS_Interval
  <2> HIDE DEF count
  <2> QED BY <1>5, <2>1, FS_Injection
<1>7. \A n \in 1 .. C : \E k \in P : count[k] = n
  <2> HIDE DEF count
  <2> QED BY <1>6 DEF Surjection
<1> QED BY <1>1, <1>2, <1>4, <1>7

LEMMA ItemsListed ==
  ASSUME NEW P \in SUBSET DOMAIN Source
  PROVE  /\ ItemsAt(P) \in Seq(Text)
         /\ \A n \in 1 .. Len(ItemsAt(P)) : \E k \in P : ItemsAt(P)[n] = Source[k]
         /\ \A k \in P : \E n \in 1 .. Len(ItemsAt(P)) : ItemsAt(P)[n] = Source[k]
<1> DEFINE C == Cardinality(P)
           At(n) == CHOOSE k \in P : Cardinality({j \in P : j <= k}) = n
<1>1. Len(Source) \in Nat /\ DOMAIN Source = 1 .. Len(Source)
      /\ \A k \in DOMAIN Source : Source[k] \in Text
  BY TypeaheadAssumption
<1>2. P \in SUBSET Nat /\ IsFiniteSet(P)
  <2>1. IsFiniteSet(1 .. Len(Source))
    BY <1>1, FS_Interval
  <2> QED BY <1>1, <2>1, FS_Subset
<1>3. C \in Nat
  BY <1>2, PlacesCounted
<1>4. ASSUME NEW n \in 1 .. C
      PROVE  At(n) \in P /\ Cardinality({j \in P : j <= At(n)}) = n
  <2>1. \E k \in P : Cardinality({j \in P : j <= k}) = n
    BY <1>2, PlacesCounted
  <2> QED BY <2>1
<1>5. ItemsAt(P) = [n \in 1 .. C |-> Source[At(n)]]
  BY DEF ItemsAt
<1>6. ASSUME NEW k \in P
      PROVE  Cardinality({j \in P : j <= k}) \in 1 .. C
             /\ At(Cardinality({j \in P : j <= k})) = k
  <2>1. PICK n : n = Cardinality({j \in P : j <= k})
    OBVIOUS
  <2>2. n \in 1 .. C
    BY <1>2, <2>1, PlacesCounted
  <2>3. At(n) \in P /\ Cardinality({j \in P : j <= At(n)}) = Cardinality({j \in P : j <= k})
    BY <1>4, <2>1, <2>2
  <2>4. At(n) = k
    <3> HIDE DEF At
    <3> QED BY <1>2, <2>3, PlacesCounted
  <2> QED BY <2>1, <2>2, <2>4
<1> HIDE DEF C, At
<1>7. ItemsAt(P) \in Seq(Text) /\ Len(ItemsAt(P)) = C
  <2>1. ItemsAt(P) \in [1 .. C -> Text]
    BY <1>1, <1>4, <1>5
  <2> QED BY <1>3, <2>1
<1> QED BY <1>4, <1>5, <1>6, <1>7

(* Three passes one after the other: the best matches first, none missing.  *)
RankedFor(q, list) ==
  /\ list \in Seq(Text)
  /\ \A i \in 1 .. Len(list) : Rank[q][list[i]] # 0
  /\ \A i, j \in 1 .. Len(list) : i < j => Rank[q][list[i]] <= Rank[q][list[j]]

LEMMA SortedRanks ==
  ASSUME NEW q \in Text
  PROVE  /\ RankedFor(q, Sorted(q))
         /\ \A k \in DOMAIN Source : Rank[q][Source[k]] # 0 =>
              \E n \in 1 .. Len(Sorted(q)) : Sorted(q)[n] = Source[k]
<1> DEFINE Pass(r) == {k \in DOMAIN Source : Rank[q][Source[k]] = r}
           Lists(r, list) ==
             /\ list \in Seq(Text)
             /\ \A n \in 1 .. Len(list) : Rank[q][list[n]] = r
             /\ \A k \in DOMAIN Source :
                  Rank[q][Source[k]] = r => \E n \in 1 .. Len(list) : list[n] = Source[k]
<1>1. PICK a, b, c : a = ItemsAt(Pass(1)) /\ b = ItemsAt(Pass(2)) /\ c = ItemsAt(Pass(3))
  OBVIOUS
<1>passes. ASSUME NEW r PROVE Lists(r, ItemsAt(Pass(r)))
  <2>1. PICK P : P = Pass(r)
    OBVIOUS
  <2>2. P \in SUBSET DOMAIN Source
    BY <2>1
  <2>3. /\ ItemsAt(P) \in Seq(Text)
        /\ \A n \in 1 .. Len(ItemsAt(P)) : \E k \in P : ItemsAt(P)[n] = Source[k]
        /\ \A k \in P : \E n \in 1 .. Len(ItemsAt(P)) : ItemsAt(P)[n] = Source[k]
    BY <2>2, ItemsListed
  <2>4. \A k \in DOMAIN Source : k \in P <=> Rank[q][Source[k]] = r
    BY <2>1
  <2> HIDE DEF Pass
  <2> QED BY <2>1, <2>2, <2>3, <2>4
<1>2. Lists(1, a) /\ Lists(2, b) /\ Lists(3, c)
  <2>1. Lists(1, ItemsAt(Pass(1))) /\ Lists(2, ItemsAt(Pass(2))) /\ Lists(3, ItemsAt(Pass(3)))
    <3> HIDE DEF Pass, Lists
    <3> QED BY <1>passes
  <2> HIDE DEF Pass, Lists
  <2> QED BY <1>1, <2>1
<1>3. /\ a \in Seq(Text) /\ b \in Seq(Text) /\ c \in Seq(Text)
      /\ \A n \in 1 .. Len(a) : Rank[q][a[n]] = 1
      /\ \A n \in 1 .. Len(b) : Rank[q][b[n]] = 2
      /\ \A n \in 1 .. Len(c) : Rank[q][c[n]] = 3
  BY <1>2
<1>4. Sorted(q) = (a \o b) \o c
  BY <1>1 DEF Sorted
<1>5. PICK s : s = Sorted(q)
  OBVIOUS
<1>6. PICK la \in Nat, lb \in Nat, lc \in Nat : la = Len(a) /\ lb = Len(b) /\ lc = Len(c)
  BY <1>3
<1>7. /\ s \in Seq(Text) /\ Len(s) = la + lb + lc
      /\ \A n \in 1 .. la + lb + lc :
           s[n] = IF n <= la THEN a[n] ELSE IF n <= la + lb THEN b[n - la]
                  ELSE c[n - (la + lb)]
  BY <1>3, <1>4, <1>5, <1>6
<1>8. \A n \in 1 .. Len(s) :
        Rank[q][s[n]] = IF n <= la THEN 1 ELSE IF n <= la + lb THEN 2 ELSE 3
  <2> TAKE n \in 1 .. Len(s)
  <2>1. CASE n <= la
    BY <1>3, <1>6, <1>7, <2>1
  <2>2. CASE la < n /\ n <= la + lb
    <3>1. n - la \in 1 .. lb /\ ~(n <= la)
      BY <1>6, <1>7, <2>2
    <3>2. s[n] = b[n - la]
      BY <1>7, <2>2, <3>1
    <3> QED BY <1>3, <1>6, <2>2, <3>1, <3>2
  <2>3. CASE la + lb < n
    <3>1. n - (la + lb) \in 1 .. lc
      BY <1>6, <1>7, <2>3
    <3> QED BY <1>3, <1>6, <1>7, <2>3, <3>1
  <2> QED BY <1>6, <1>7, <2>1, <2>2, <2>3
<1>9. RankedFor(q, s)
  <2>1. \A i \in 1 .. Len(s) : Rank[q][s[i]] # 0
    BY <1>8
  <2>2. \A i, j \in 1 .. Len(s) : i < j => Rank[q][s[i]] <= Rank[q][s[j]]
    <3> SUFFICES ASSUME NEW i \in 1 .. Len(s), NEW j \in 1 .. Len(s), i < j
                 PROVE  Rank[q][s[i]] <= Rank[q][s[j]]
      OBVIOUS
    <3>1. i \in Nat /\ j \in Nat
      BY <1>6, <1>7
    <3>2. Rank[q][s[i]] = IF i <= la THEN 1 ELSE IF i <= la + lb THEN 2 ELSE 3
      BY <1>8
    <3>3. Rank[q][s[j]] = IF j <= la THEN 1 ELSE IF j <= la + lb THEN 2 ELSE 3
      BY <1>8
    <3> QED BY <1>6, <3>1, <3>2, <3>3
  <2> QED BY <1>7, <2>1, <2>2 DEF RankedFor
<1>10. ASSUME NEW k \in DOMAIN Source, Rank[q][Source[k]] # 0
       PROVE  \E n \in 1 .. Len(s) : s[n] = Source[k]
  <2>1. Rank[q][Source[k]] \in 0 .. 3
    BY TypeaheadAssumption
  <2>2. CASE Rank[q][Source[k]] = 1
    <3>1. PICK n \in 1 .. Len(a) : a[n] = Source[k]
      BY <1>2, <2>2
    <3>2. n \in 1 .. Len(s) /\ s[n] = a[n]
      BY <1>6, <1>7, <3>1
    <3> QED BY <3>1, <3>2
  <2>3. CASE Rank[q][Source[k]] = 2
    <3>1. PICK n \in 1 .. Len(b) : b[n] = Source[k]
      BY <1>2, <2>3
    <3>2. la + n \in 1 .. Len(s) /\ ~(la + n <= la) /\ la + n <= la + lb /\ (la + n) - la = n
      BY <1>6, <1>7, <3>1
    <3>3. s[la + n] = b[n]
      BY <1>7, <3>2
    <3> QED BY <3>1, <3>2, <3>3
  <2>4. CASE Rank[q][Source[k]] = 3
    <3>1. PICK n \in 1 .. Len(c) : c[n] = Source[k]
      BY <1>2, <2>4
    <3>2. la + lb + n \in 1 .. Len(s) /\ ~(la + lb + n <= la) /\ ~(la + lb + n <= la + lb)
          /\ (la + lb + n) - (la + lb) = n
      BY <1>6, <1>7, <3>1
    <3>3. s[la + lb + n] = c[n]
      BY <1>7, <3>2
    <3> QED BY <3>1, <3>2, <3>3
  <2> QED BY <1>10, <2>1, <2>2, <2>3, <2>4
<1> QED BY <1>5, <1>9, <1>10

LEMMA MatchingBest ==
  ASSUME NEW q \in Text
  PROVE  /\ RankedFor(q, Matching(q)) /\ Len(Matching(q)) <= MaxShown
         /\ \A k \in DOMAIN Source :
              Rank[q][Source[k]] # 0
              /\ (\A i \in 1 .. Len(Matching(q)) : Matching(q)[i] # Source[k]) =>
                /\ Len(Matching(q)) = MaxShown
                /\ Rank[q][Source[k]] >= Rank[q][Matching(q)[MaxShown]]
<1>1. PICK s, m : s = Sorted(q) /\ m = Matching(q)
  OBVIOUS
<1>2. RankedFor(q, s) /\ s \in Seq(Text) /\ Len(s) \in Nat
  <2>1. RankedFor(q, s)
    BY <1>1, SortedRanks
  <2>2. s \in Seq(Text)
    BY <2>1 DEF RankedFor
  <2> QED BY <2>1, <2>2
<1>3. MaxShown \in Nat /\ MaxShown > 0 /\ MaxShown \in 1 .. MaxShown
  BY TypeaheadAssumption
<1>4. CASE Len(s) <= MaxShown
  <2>1. m = s
    BY <1>1, <1>4 DEF Matching
  <2>2. ASSUME NEW k \in DOMAIN Source, Rank[q][Source[k]] # 0,
               \A i \in 1 .. Len(m) : m[i] # Source[k]
        PROVE  FALSE
    BY <1>1, <2>1, <2>2, SortedRanks
  <2> QED BY <1>1, <1>2, <1>4, <2>1, <2>2
<1>5. CASE ~(Len(s) <= MaxShown)
  <2>1. m = SubSeq(s, 1, MaxShown)
    BY <1>1, <1>5 DEF Matching
  <2>2. m \in Seq(Text) /\ Len(m) = MaxShown /\ \A i \in 1 .. MaxShown : m[i] = s[i]
    BY <1>2, <1>3, <1>5, <2>1
  <2>3. 1 .. MaxShown \subseteq 1 .. Len(s)
    BY <1>2, <1>3, <1>5
  <2>4. RankedFor(q, m)
    BY <1>2, <2>2, <2>3 DEF RankedFor
  <2>5. ASSUME NEW k \in DOMAIN Source, Rank[q][Source[k]] # 0,
               \A i \in 1 .. Len(m) : m[i] # Source[k]
        PROVE  Rank[q][Source[k]] >= Rank[q][m[MaxShown]]
    <3>1. PICK n \in 1 .. Len(s) : s[n] = Source[k]
      BY <1>1, <2>5, SortedRanks
    <3>2. ~(n <= MaxShown)
      BY <1>2, <1>3, <2>2, <2>5, <3>1
    <3>3. Rank[q][s[MaxShown]] <= Rank[q][s[n]]
      BY <1>2, <1>3, <2>3, <3>1, <3>2 DEF RankedFor
    <3>4. Rank[q][s[MaxShown]] \in 0 .. 3 /\ Rank[q][s[n]] \in 0 .. 3
      <4>1. s[MaxShown] \in Text /\ s[n] \in Text
        BY <1>2, <1>3, <2>3, <3>1
      <4> QED BY <4>1, TypeaheadAssumption
    <3> QED BY <1>3, <2>2, <3>1, <3>3, <3>4
  <2> QED BY <1>1, <1>3, <2>2, <2>4, <2>5
<1> QED BY <1>4, <1>5

(* While the menu is shown it is the best matches of its query, not none,   *)
(* and its active item is one of them.                                      *)
MenuShown ==
  shown =>
    /\ menu # << >> /\ chosen \in 1 .. Len(menu)
    /\ query \notin Broken => menu = Matching(query)
    /\ \E q \in Text \ Broken : menu = Matching(q)

MenuInv == TypeaheadTypeOK /\ MenuShown

LEMMA MenuInvInit == TypeaheadInit => MenuInv
<1> SUFFICES ASSUME TypeaheadInit PROVE MenuInv
  OBVIOUS
<1>1. menu \in Seq(Text) /\ Len(menu) = 0 /\ chosen = 0 /\ blurs = 0
  BY DEF TypeaheadInit
<1>2. Len(menu) <= MaxShown /\ chosen \in 0 .. MaxShown /\ blurs \in 0 .. MaxBlurs
  BY <1>1, TypeaheadAssumption
<1>3. value \in Text /\ query \in Text /\ shown = FALSE /\ focused = TRUE
  BY TypeaheadAssumption DEF TypeaheadInit
<1> QED BY <1>1, <1>2, <1>3 DEF MenuInv, TypeaheadTypeOK, MenuShown

LEMMA LookupKeeps ==
  ASSUME MenuInv, Lookup
  PROVE  MenuInv'
<1>1. PICK q, m : q = value /\ m = Matching(q)
  OBVIOUS
<1>2. q \in Text /\ query' = q /\ UNCHANGED << value, focused, blurs >>
  BY <1>1 DEF Lookup, MenuInv, TypeaheadTypeOK
<1>3. m \in Seq(Text) /\ Len(m) <= MaxShown
  <2>1. RankedFor(q, m) /\ Len(m) <= MaxShown
    BY <1>1, <1>2, MatchingBest
  <2> QED BY <2>1 DEF RankedFor
<1>4. CASE value = Empty \/ m = << >>
  <2>1. shown' = FALSE /\ UNCHANGED << menu, chosen >>
    BY <1>1, <1>4 DEF Lookup
  <2> QED BY <1>2, <2>1 DEF MenuInv, TypeaheadTypeOK, MenuShown
<1>5. CASE ~(value = Empty \/ m = << >>) /\ q \in Broken
  <2>1. UNCHANGED << shown, menu, chosen >>
    BY <1>1, <1>5 DEF Lookup
  <2> QED BY <1>2, <1>5, <2>1 DEF MenuInv, TypeaheadTypeOK, MenuShown
<1>6. CASE ~(value = Empty \/ m = << >>) /\ q \notin Broken
  <2>1. shown' = TRUE /\ menu' = m /\ chosen' = 1
    BY <1>1, <1>6 DEF Lookup
  <2>2. 1 \in 1 .. Len(m)
    BY <1>3, <1>6
  <2>3. chosen' \in 0 .. MaxShown
    BY <2>1, TypeaheadAssumption
  <2>4. MenuShown'
    BY <1>1, <1>2, <1>6, <2>1, <2>2 DEF MenuShown
  <2> QED BY <1>2, <1>3, <2>1, <2>3, <2>4 DEF MenuInv, TypeaheadTypeOK
<1> QED BY <1>4, <1>5, <1>6

LEMMA MenuInvStep == MenuInv /\ [TypeaheadStep]_typeaheadVars => MenuInv'
<1> SUFFICES ASSUME MenuInv, [TypeaheadStep]_typeaheadVars PROVE MenuInv'
  OBVIOUS
<1>1. menu \in Seq(Text) /\ Len(menu) \in Nat /\ Len(menu) <= MaxShown
      /\ DOMAIN menu = 1 .. Len(menu)
  BY DEF MenuInv, TypeaheadTypeOK
<1>2. MaxShown \in Nat /\ 1 .. Len(menu) \subseteq 0 .. MaxShown
  BY <1>1, TypeaheadAssumption
<1>3. ASSUME NEW q \in Text, TypeText(q) PROVE MenuInv'
  BY <1>3 DEF TypeText, MenuInv, TypeaheadTypeOK, MenuShown
<1>4. CASE Lookup
  BY <1>4, LookupKeeps
<1>5. CASE Select
  <2>1. value' \in Text
    <3>1. CASE chosen \in DOMAIN menu
      BY <1>1, <1>5, <3>1 DEF Select
    <3>2. CASE chosen \notin DOMAIN menu
      BY <1>5, <3>2, TypeaheadAssumption DEF Select
    <3> QED BY <3>1, <3>2
  <2> QED BY <1>5, <2>1 DEF Select, MenuInv, TypeaheadTypeOK, MenuShown
<1>6. CASE Escape
  BY <1>6 DEF Escape, MenuInv, TypeaheadTypeOK, MenuShown
<1>7. CASE Arrow
  <2>1. chosen \in 1 .. Len(menu)
    BY <1>7 DEF Arrow, MenuInv, MenuShown
  <2>2. NextItem \in 1 .. Len(menu) /\ PrevItem \in 1 .. Len(menu)
    BY <1>1, <2>1 DEF NextItem, PrevItem
  <2>3. chosen' \in 1 .. Len(menu) /\ chosen' \in 0 .. MaxShown
    BY <1>2, <1>7, <2>2 DEF Arrow
  <2> QED BY <1>7, <2>3 DEF Arrow, MenuInv, TypeaheadTypeOK, MenuShown
<1>8. ASSUME NEW i \in 1 .. MaxShown, MouseOver(i) PROVE MenuInv'
  <2>1. chosen' \in 1 .. Len(menu) /\ chosen' \in 0 .. MaxShown
    BY <1>1, <1>2, <1>8 DEF MouseOver
  <2> QED BY <1>8, <2>1 DEF MouseOver, MenuInv, TypeaheadTypeOK, MenuShown
<1>9. CASE Blur
  <2>1. blurs' \in 0 .. MaxBlurs
    BY <1>9, TypeaheadAssumption DEF Blur, MenuInv, TypeaheadTypeOK
  <2> QED BY <1>9, <2>1 DEF Blur, MenuInv, TypeaheadTypeOK, MenuShown
<1>10. CASE Focus
  BY <1>10 DEF Focus, MenuInv, TypeaheadTypeOK, MenuShown
<1>11. CASE BlurEnds
  <2>1. blurs' \in 0 .. MaxBlurs
    BY <1>11, TypeaheadAssumption DEF BlurEnds, MenuInv, TypeaheadTypeOK
  <2> QED BY <1>11, <2>1 DEF BlurEnds, MenuInv, TypeaheadTypeOK, MenuShown
<1>12. CASE UNCHANGED typeaheadVars
  BY <1>12 DEF typeaheadVars, MenuInv, TypeaheadTypeOK, MenuShown
<1> QED BY <1>3, <1>4, <1>5, <1>6, <1>7, <1>8, <1>9, <1>10, <1>11, <1>12 DEF TypeaheadStep

LEMMA MatchingServes ==
  ASSUME NEW q \in Text, menu = Matching(q), menu \in Seq(Text)
  PROVE  Serves(q)
<1>1. PICK m : m = menu
  OBVIOUS
<1>2. m = Matching(q) /\ DOMAIN m = 1 .. Len(m)
  BY <1>1
<1>3. RankedFor(q, m)
  BY <1>2, MatchingBest
<1>4. /\ \A i \in DOMAIN m : Rank[q][m[i]] # 0
      /\ \A i, j \in DOMAIN m : i < j => Rank[q][m[i]] <= Rank[q][m[j]]
  BY <1>2, <1>3 DEF RankedFor
<1>5. \A k \in DOMAIN Source :
        Rank[q][Source[k]] # 0 /\ (\A i \in DOMAIN m : m[i] # Source[k]) =>
          /\ Len(m) = MaxShown
          /\ Rank[q][Source[k]] >= Rank[q][m[MaxShown]]
  BY <1>2, MatchingBest
<1> QED BY <1>1, <1>4, <1>5 DEF Serves

(* For any source, any ranks and any texts that break the highlighter:      *)
(* whatever keys, mouse and timers do, the menu on screen has an active     *)
(* item and holds the best matches, in order, of its query, or, where that  *)
(* one is no regular expression, of another one (lookup, matcher, sorter,   *)
(* highlighter, render, next, prev).                                        *)
THEOREM MenuIsServed == TypeaheadSpec => []MenuServes
<1>1. MenuInv => MenuServes
  <2> SUFFICES ASSUME MenuInv, shown PROVE MenuServes
    BY DEF MenuServes
  <2>1. menu \in Seq(Text) /\ chosen \in DOMAIN menu /\ query \in Text
    BY DEF MenuInv, MenuShown, TypeaheadTypeOK
  <2>2. CASE query \in Broken
    <3>1. PICK q \in Text \ Broken : menu = Matching(q)
      BY DEF MenuInv, MenuShown
    <3> QED BY <2>1, <2>2, <3>1, MatchingServes DEF MenuServes
  <2>3. CASE query \notin Broken
    <3>1. PICK q : q = query
      OBVIOUS
    <3>2. Serves(q)
      BY <2>1, <2>3, <3>1, MatchingServes DEF MenuInv, MenuShown
    <3> QED BY <2>1, <2>3, <3>1, <3>2 DEF MenuServes
  <2> QED BY <2>2, <2>3
<1> QED BY <1>1, MenuInvInit, MenuInvStep, PTL DEF TypeaheadSpec

-----------------------------------------------------------------------------
(* The types of the page.  The form, its alerts and the questions under     *)
(* way.                                                                     *)
LEMMA AlertsTypesStep ==
  AlertsTypeOK /\ (AlertStep \/ ShowError \/ UNCHANGED alertVars) => AlertsTypeOK'
<1> SUFFICES ASSUME AlertsTypeOK, AlertStep \/ ShowError \/ UNCHANGED alertVars
             PROVE  AlertsTypeOK'
  OBVIOUS
<1>1. CASE CloseAlerts
  BY <1>1 DEF CloseAlerts, AlertsTypeOK
<1>2. ASSUME NEW a \in Alert, Close(a) PROVE AlertsTypeOK'
  BY <1>2 DEF Close, RemoveElement, AlertsTypeOK
<1>3. ASSUME NEW a \in Alert, TransitionEnds(a) \/ FadeEnds(a) PROVE AlertsTypeOK'
  BY <1>3 DEF TransitionEnds, FadeEnds, RemoveElement, AlertsTypeOK
<1>4. CASE ShowError \/ UNCHANGED alertVars
  BY <1>4, AlertAssumption DEF ShowError, alertVars, AlertsTypeOK
<1> QED BY <1>1, <1>2, <1>3, <1>4 DEF AlertStep

LEMMA PageTypesStep == GeolocTypeOK /\ [PageNext]_pageVars => GeolocTypeOK'
<1> SUFFICES ASSUME GeolocTypeOK, [PageNext]_pageVars PROVE GeolocTypeOK'
  OBVIOUS
<1> DEFINE FormTypes ==
             /\ ready \in BOOLEAN /\ osm \in BOOLEAN /\ locked \in BOOLEAN
             /\ lat \in Place /\ lon \in Place
             /\ position \in Place \X Place
             /\ asking \in SUBSET ((1 .. MaxAsked) \X Address)
             /\ asked \in 0 .. MaxAsked
             /\ told \in BOOLEAN
<1>1. AlertsTypeOK'
  <2>1. AlertsTypeOK
    BY DEF GeolocTypeOK
  <2>2. AlertStep \/ ShowError \/ UNCHANGED alertVars
    BY DEF PageNext, GeolocStep, DocumentReady, TypeCoordinate, ResetCoordinates,
           AskCoordinates, Answer, AnswerOne, AnswerUnclear, AnswerFails, pageVars
  <2> QED BY <2>1, <2>2, AlertsTypesStep
<1>2. FormTypes /\ asked \in Nat
  BY GeolocAssumption DEF GeolocTypeOK
<1>3. {None, Typed} \subseteq Place /\ Address \subseteq Place
  BY DEF Place
<1>4. ASSUME DocumentReady \/ TypeCoordinate \/ ResetCoordinates PROVE FormTypes'
  <2>1. CASE DocumentReady
    <3>1. locked' \in BOOLEAN
      BY <1>2, <2>1 DEF DocumentReady
    <3>2. position' \in Place \X Place
      BY <1>2, <2>1 DEF DocumentReady
    <3> QED BY <1>2, <2>1, <3>1, <3>2 DEF DocumentReady
  <2>2. CASE TypeCoordinate
    BY <1>2, <1>3, <2>2 DEF TypeCoordinate
  <2>3. CASE ResetCoordinates
    BY <1>2, <1>3, <2>3 DEF ResetCoordinates
  <2> QED BY <1>4, <2>1, <2>2, <2>3
<1>5. ASSUME NEW a \in Address, AskCoordinates(a) PROVE FormTypes'
  <2>1. asked' \in 0 .. MaxAsked /\ asked + 1 \in 1 .. MaxAsked
    BY <1>2, <1>5, GeolocAssumption DEF AskCoordinates
  <2>2. asking' \in SUBSET ((1 .. MaxAsked) \X Address)
    BY <1>2, <1>5, <2>1 DEF AskCoordinates
  <2> QED BY <1>2, <1>5, <2>1, <2>2 DEF AskCoordinates, formVars
<1>6. ASSUME NEW q \in asking, Answer(q) PROVE FormTypes'
  <2>1. q[2] \in Place
    BY <1>2, <1>3
  <2>2. asking' \in SUBSET ((1 .. MaxAsked) \X Address)
    BY <1>2, <1>6 DEF Answer, AnswerOne, AnswerUnclear, AnswerFails
  <2>3. CASE AnswerOne(q)
    BY <1>2, <2>1, <2>2, <2>3 DEF AnswerOne
  <2>4. CASE AnswerUnclear(q)
    BY <1>2, <2>2, <2>4 DEF AnswerUnclear, formVars
  <2>5. CASE AnswerFails(q)
    BY <1>2, <2>2, <2>5 DEF AnswerFails, formVars
  <2> QED BY <1>6, <2>3, <2>4, <2>5 DEF Answer
<1>7. ASSUME UNCHANGED geolocVars PROVE FormTypes'
  BY <1>2, <1>7 DEF geolocVars, formVars
<1>8. FormTypes'
  <2>1. CASE UNCHANGED geolocVars
    BY <1>7, <2>1
  <2>2. CASE ~UNCHANGED geolocVars
    <3>1. GeolocStep
      BY <2>2 DEF PageNext, pageVars
    <3> QED BY <1>4, <1>5, <1>6, <3>1 DEF GeolocStep
  <2> QED BY <2>1, <2>2
<1> QED BY <1>1, <1>8 DEF GeolocTypeOK

(* The carousel: what waits for a transition or for slid names items it     *)
(* has.                                                                     *)
CarouselTypes ==
  /\ CarouselTypeOK
  /\ wanted = -1 \/ wanted \in 0 .. items - 1
  /\ onEnd \in SUBSET ((0 .. items - 1) \X (0 .. items - 1))

SlideTypes ==
  /\ sliding \in BOOLEAN /\ active \in SUBSET (0 .. items - 1)
  /\ interval \in Timer \cup {0} /\ intervals \in SUBSET Timer
  /\ onEnd \in SUBSET ((0 .. items - 1) \X (0 .. items - 1))

LEMMA CycleTypes ==
  ASSUME NEW others \in SUBSET Timer, Cycle(others)
  PROVE  interval' \in Timer \cup {0} /\ intervals' \in SUBSET Timer
BY DEF Cycle

LEMMA SlideKeepsTypes ==
  ASSUME CarouselTypes, NEW from \in active, NEW to \in 0 .. items - 1, Slide(from, to),
         items' = items
  PROVE  SlideTypes'
<1>1. SlideTypes /\ from \in 0 .. items - 1
  BY DEF CarouselTypes, CarouselTypeOK, SlideTypes
<1>2. sliding' \in BOOLEAN
  BY DEF Slide
<1>3. active' \in SUBSET (0 .. items - 1)
  BY <1>1 DEF Slide, SlideTypes
<1>4. onEnd' \in SUBSET ((0 .. items - 1) \X (0 .. items - 1))
  BY <1>1 DEF Slide, SlideTypes
<1>5. interval' \in Timer \cup {0} /\ intervals' \in SUBSET Timer
  <2>1. interval \in Timer \cup {0} /\ intervals \in SUBSET Timer
        /\ intervals \ {interval} \in SUBSET Timer
    BY <1>1 DEF SlideTypes
  <2>2. KeepCycling \/ (interval' = 0 /\ intervals' = intervals \ {interval})
    BY DEF Slide
  <2>3. CASE KeepCycling
    BY <2>1, <2>3, CycleTypes DEF KeepCycling
  <2> QED BY <2>1, <2>2, <2>3
<1> QED BY <1>2, <1>3, <1>4, <1>5 DEF SlideTypes

LEMMA NeighbourIsItem ==
  ASSUME CarouselTypes, NEW by \in Int
  PROVE  Neighbour(by) \subseteq 0 .. items - 1
<1>1. items \in Nat /\ items > 0 /\ active \in SUBSET (0 .. items - 1)
  BY CarouselAssumption DEF CarouselTypes, CarouselTypeOK
<1>2. ASSUME NEW i \in active PROVE (i + by) % items \in 0 .. items - 1
  <2>1. i + by \in Int
    BY <1>1
  <2> QED BY <1>1, <2>1
<1> QED BY <1>2 DEF Neighbour

LEMMA StepKeepsTypes ==
  ASSUME CarouselTypes, NEW by \in Int, Step(by), items' = items
  PROVE  SlideTypes'
<1>1. PICK from \in active, to \in Neighbour(by) : Slide(from, to)
  BY DEF Step
<1>2. to \in 0 .. items - 1
  BY NeighbourIsItem
<1> QED BY <1>1, <1>2, SlideKeepsTypes

LEMMA GoToKeepsTypes ==
  ASSUME CarouselTypes, NEW pos \in 0 .. items - 1, GoTo(pos), items' = items
  PROVE  SlideTypes'
<1>1. SlideTypes /\ intervals \ {interval} \in SUBSET Timer
  BY DEF CarouselTypes, CarouselTypeOK, SlideTypes
<1>2. CASE pos \in active
  <2>1. Cycle(intervals \ {interval}) /\ UNCHANGED << active, sliding, onEnd >>
    BY <1>2 DEF GoTo
  <2>2. interval' \in Timer \cup {0} /\ intervals' \in SUBSET Timer
    BY <1>1, <2>1, CycleTypes
  <2> QED BY <1>1, <2>1, <2>2 DEF SlideTypes
<1>3. CASE pos \notin active
  BY <1>3, SlideKeepsTypes DEF GoTo
<1> QED BY <1>2, <1>3

LEMMA CarouselTypesStep == CarouselTypes /\ [CarouselStep]_carouselVars => CarouselTypes'
<1> SUFFICES ASSUME CarouselTypes, [CarouselStep]_carouselVars PROVE CarouselTypes'
  OBVIOUS
<1>1. items' = items /\ slides' = slides
  BY DEF CarouselStep, Tick, To, ClickSlide, SlideEnds, Slid, MouseEnter, MouseLeave, Kept,
         carouselVars
<1>2. items \in 1 .. MaxItems /\ items \in Nat /\ 0 .. items - 1 \subseteq Item /\ SlideTypes
  BY CarouselAssumption DEF CarouselTypes, CarouselTypeOK, SlideTypes, Item
<1>3. SlideTypes'
  <2>1. ASSUME NEW t \in Timer, Tick(t) PROVE SlideTypes'
    BY <1>1, <2>1, StepKeepsTypes DEF Tick
  <2>2. ASSUME NEW pos \in Item, To(pos) PROVE SlideTypes'
    <3>1. CASE sliding
      BY <1>1, <1>2, <2>2, <3>1 DEF To, SlideTypes
    <3>2. CASE ~sliding
      <4>1. GoTo(pos) /\ pos \in 0 .. items - 1
        BY <1>2, <2>2, <3>2 DEF To, Item
      <4> QED BY <1>1, <4>1, GoToKeepsTypes
    <3> QED BY <3>1, <3>2
  <2>3. CASE ClickSlide
    <3>1. ASSUME NEW by \in {1, -1}, Step(by) PROVE SlideTypes'
      BY <1>1, <3>1, StepKeepsTypes
    <3>2. ASSUME NEW by \in {2, -2}, active' = Neighbour(by),
                 UNCHANGED << sliding, interval, intervals, onEnd >>
          PROVE  SlideTypes'
      <4>1. Neighbour(by) \subseteq 0 .. items - 1
        BY NeighbourIsItem
      <4> QED BY <1>1, <1>2, <3>2, <4>1 DEF SlideTypes
    <3> QED BY <2>3, <3>1, <3>2 DEF ClickSlide
  <2>4. CASE SlideEnds
    <3>1. {m[2] : m \in onEnd} \subseteq 0 .. items - 1
      BY <1>2 DEF SlideTypes
    <3>2. active' \in SUBSET (0 .. items - 1)
      BY <1>2, <2>4, <3>1 DEF SlideEnds, SlideTypes
    <3> QED BY <1>1, <1>2, <2>4, <3>2 DEF SlideEnds, SlideTypes
  <2>5. CASE Slid
    <3>1. CASE wanted = -1 \/ sliding
      BY <1>1, <1>2, <2>5, <3>1 DEF Slid, SlideTypes
    <3>2. CASE ~(wanted = -1 \/ sliding)
      <4>1. PICK pos : pos = wanted
        OBVIOUS
      <4>2. GoTo(pos) /\ pos \in 0 .. items - 1
        BY <2>5, <3>2, <4>1 DEF Slid, CarouselTypes
      <4> QED BY <1>1, <4>2, GoToKeepsTypes
    <3> QED BY <3>1, <3>2
  <2>6. CASE MouseEnter
    BY <1>1, <1>2, <2>6 DEF MouseEnter, SlideTypes
  <2>7. CASE MouseLeave
    <3>1. interval' \in Timer \cup {0} /\ intervals' \in SUBSET Timer
      BY <1>2, <2>7, CycleTypes DEF MouseLeave, SlideTypes
    <3> QED BY <1>1, <1>2, <2>7, <3>1 DEF MouseLeave, SlideTypes
  <2>8. CASE UNCHANGED carouselVars
    BY <1>2, <2>8 DEF carouselVars, SlideTypes
  <2> QED BY <2>1, <2>2, <2>3, <2>4, <2>5, <2>6, <2>7, <2>8 DEF CarouselStep
<1>4. {slidDue, over, made}' \subseteq BOOLEAN
  BY DEF CarouselTypes, CarouselTypeOK, CarouselStep, Tick, To, ClickSlide, SlideEnds, Slid,
         MouseEnter, MouseLeave, Kept, carouselVars
<1>5. wanted' = -1 \/ wanted' \in 0 .. items - 1
  <2>1. ASSUME NEW pos \in Item, To(pos) PROVE wanted' = -1 \/ wanted' \in 0 .. items - 1
    <3>1. pos \in 0 .. items - 1
      BY <1>2, <2>1 DEF To, Item
    <3> QED BY <2>1, <3>1 DEF To, CarouselTypes
  <2> QED BY <2>1 DEF CarouselTypes, CarouselStep, Tick, ClickSlide, SlideEnds, Slid,
                      MouseEnter, MouseLeave, carouselVars
<1>6. wanted' \in Item \cup {-1} /\ onEnd' \in SUBSET (Item \X Item)
  BY <1>1, <1>2, <1>3, <1>5 DEF SlideTypes
<1>7. slides \in BOOLEAN
  BY DEF CarouselTypes, CarouselTypeOK
<1> QED BY <1>1, <1>2, <1>3, <1>4, <1>5, <1>6, <1>7
        DEF CarouselTypes, CarouselTypeOK, SlideTypes

LEMMA ButtonTypesStep ==
  ButtonTypeOK /\ ButtonInv /\ [ButtonStep]_buttonVars => ButtonTypeOK'
<1> SUFFICES ASSUME ButtonTypeOK, ButtonInv, [ButtonStep]_buttonVars PROVE ButtonTypeOK'
  OBVIOUS
<1>1. turns' \in Seq(State)
  BY ButtonInvStep DEF ButtonInv
<1>2. ASSUME NEW s \in State, SetState(s) PROVE ButtonTypeOK'
  BY <1>1, <1>2 DEF SetState, ButtonTypeOK
<1>3. CASE TurnRuns
  BY <1>1, <1>3 DEF TurnRuns, ButtonTypeOK
<1>4. ASSUME NEW k \in Knob, ToggleKnob(k) PROVE ButtonTypeOK'
  BY <1>4 DEF ToggleKnob, ButtonTypeOK
<1>5. CASE UNCHANGED buttonVars
  BY <1>5 DEF buttonVars, ButtonTypeOK
<1> QED BY <1>2, <1>3, <1>4, <1>5 DEF ButtonStep

-----------------------------------------------------------------------------
(* The whole front end: one of its widgets takes a step, the others and the *)
(* browser's support of transitions stay as they are.                       *)
FrontendInv ==
  /\ support \in BOOLEAN
  /\ GeolocTypeOK /\ SettleInv /\ ModalInv /\ CarouselTypes /\ TooltipInv
  /\ TabInv /\ SpyInv /\ MenuInv /\ ButtonTypeOK /\ ButtonInv
  /\ ClickInv

LEMMA CarouselTypesInit == CarouselInit => CarouselTypes
<1> SUFFICES ASSUME CarouselInit PROVE CarouselTypes
  OBVIOUS
<1>1. items \in 1 .. MaxItems /\ items \in Nat /\ items >= 1 /\ MaxItems \in Nat
      /\ 1 \in Timer
  BY CarouselAssumption DEF CarouselInit, Timer
<1>2. active = {0} /\ 0 \in 0 .. items - 1
  BY <1>1 DEF CarouselInit
<1>3. interval \in Timer \cup {0} /\ intervals \in SUBSET Timer
  BY <1>1 DEF CarouselInit
<1>4. {slides, sliding, slidDue, over, made} \subseteq BOOLEAN
  BY DEF CarouselInit
<1> QED BY <1>1, <1>2, <1>3, <1>4 DEF CarouselInit, CarouselTypes, CarouselTypeOK

LEMMA GeolocTypesInit == AlertsInit /\ GeolocInit => GeolocTypeOK
<1> SUFFICES ASSUME AlertsInit, GeolocInit PROVE GeolocTypeOK
  OBVIOUS
<1>1. AlertsTypeOK
  BY DEF AlertsInit, AlertsTypeOK
<1>2. asked \in 0 .. MaxAsked
  BY GeolocAssumption DEF GeolocInit
<1>3. {None, Saved} \subseteq Place
  BY DEF Place
<1> QED BY <1>1, <1>2, <1>3 DEF GeolocInit, GeolocTypeOK

LEMMA ButtonInvInit == ButtonInit => ButtonInv /\ ButtonTypeOK
<1> SUFFICES ASSUME ButtonInit PROVE ButtonInv /\ ButtonTypeOK
  OBVIOUS
<1>1. turns = << >> /\ turns \in Seq(State) /\ resetText = Original /\ text = Original
      /\ last = "reset" /\ last \in State
  BY ButtonAssumption DEF ButtonInit
<1>2. disabled <=> last = "loading"
  <2>1. ~disabled
    BY DEF ButtonInit
  <2>2. last # "loading"
    BY <1>1
  <2> QED BY <2>1, <2>2
<1>3. {kept, disabled, radio} \subseteq BOOLEAN
  BY DEF ButtonInit
<1> QED BY <1>1, <1>2, <1>3 DEF ButtonInit, ButtonInv, ButtonTypeOK

LEMMA FrontendInvInit == FrontendInit => FrontendInv
<1> SUFFICES ASSUME FrontendInit PROVE FrontendInv
  OBVIOUS
<1>1. support \in BOOLEAN
  BY DEF FrontendInit, SupportInit
<1>2. GeolocTypeOK
  BY GeolocTypesInit DEF FrontendInit
<1>3. SettleInv /\ ModalInv /\ CarouselTypes /\ TooltipInv
  BY SettleInvInit, ModalInvInit, CarouselTypesInit, TooltipInvInit DEF FrontendInit
<1>4. TabInv /\ SpyInv /\ MenuInv
  BY TabInvInit, SpyInvInit, MenuInvInit DEF FrontendInit
<1>5. ButtonInv /\ ButtonTypeOK /\ ClickInv
  BY ButtonInvInit, ClickInvInit DEF FrontendInit
<1> QED BY <1>1, <1>2, <1>3, <1>4, <1>5 DEF FrontendInv

(* A step of the page, as each of its parts sees it.                        *)
LEMMA FrontendStepParts ==
  ASSUME [FrontendNext]_frontendVars
  PROVE  /\ [PageNext]_pageVars /\ support' = support
         /\ [CollapseStep]_collapseVars /\ [ModalStep]_modalVars
         /\ [CarouselStep]_carouselVars /\ [TooltipStep]_tooltipVars
         /\ [TabStep]_tabVars /\ [SpyStep]_spyVars /\ [TypeaheadStep]_typeaheadVars
         /\ [ButtonStep]_buttonVars /\ [DropdownStep]_dropdownVars
<1>1. CASE UNCHANGED frontendVars
  BY <1>1 DEF frontendVars, pageVars
<1>2. CASE FrontendNext
  <2>1. PageNext => support' = support
    BY DEF PageNext
  <2>2. UNCHANGED pageVars => support' = support
    BY DEF pageVars
  <2> QED BY <1>2, <2>1, <2>2 DEF FrontendNext, Runs
<1> QED BY <1>1, <1>2

LEMMA FrontendInvStep == FrontendInv /\ [FrontendNext]_frontendVars => FrontendInv'
<1> SUFFICES ASSUME FrontendInv, [FrontendNext]_frontendVars PROVE FrontendInv'
  OBVIOUS
<1>1. /\ [PageNext]_pageVars /\ support' = support
      /\ [CollapseStep]_collapseVars /\ [ModalStep]_modalVars
      /\ [CarouselStep]_carouselVars /\ [TooltipStep]_tooltipVars
      /\ [TabStep]_tabVars /\ [SpyStep]_spyVars /\ [TypeaheadStep]_typeaheadVars
      /\ [ButtonStep]_buttonVars /\ [DropdownStep]_dropdownVars
  BY FrontendStepParts
<1>2. (support \in BOOLEAN)' /\ GeolocTypeOK'
  BY <1>1, PageTypesStep DEF FrontendInv
<1>3. /\ [ModalStep /\ UNCHANGED support]_<< support, modalVars >>
      /\ [CollapseStep /\ UNCHANGED support]_<< support, collapseVars >>
  BY <1>1
<1>4. SettleInv' /\ ModalInv' /\ CarouselTypes' /\ TooltipInv'
  BY <1>1, <1>3, SettleInvStep, ModalInvStep, CarouselTypesStep, TooltipInvStep
     DEF FrontendInv
<1>5. TabInv' /\ SpyInv' /\ MenuInv'
  BY <1>1, TabInvStep, SpyInvStep, MenuInvStep DEF FrontendInv
<1>6. ButtonTypeOK' /\ ButtonInv' /\ ClickInv'
  BY <1>1, ButtonTypesStep, ButtonInvStep, ClickInvStep DEF FrontendInv
<1> QED BY <1>2, <1>4, <1>5, <1>6 DEF FrontendInv

(* Whatever the user, the timers and the answers do to whichever part of    *)
(* the page, every variable keeps its type, and no bound on timers and      *)
(* calls is passed by what is pending (the widgets of bootstrap.js and the  *)
(* scripts of the datastores page).                                         *)
THEOREM WidgetsKeepTypes == FrontendSpec => []FrontendTypeOK
<1>1. FrontendInv => FrontendTypeOK
  BY TooltipTypeHolds
     DEF FrontendInv, FrontendTypeOK, SettleInv, ModalInv, CarouselTypes,
         TabInv, SpyInv, MenuInv, ClickInv
<1> QED BY <1>1, FrontendInvInit, FrontendInvStep, PTL DEF FrontendSpec
=============================================================================
