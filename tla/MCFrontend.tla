------------------------------ MODULE MCFrontend ------------------------------
(***************************************************************************)
(* The scripts of the web interface, for TLC: the datastores page and one  *)
(* of each widget of bootstrap.js.  They share nothing but the question    *)
(* whether the browser has transitions, so a behaviour runs one of them    *)
(* and leaves the others as a page may have written them.                  *)
(***************************************************************************)
EXTENDS Geoloc, Collapse, Modal, Carousel, Tooltip, Tab, ScrollSpy, Typeahead,
        Button, Dropdown

VARIABLE running_widget

Deferred == {"page", "collapse", "modal", "carousel", "tooltip", "tab"}
Immediate == {"scrollspy", "typeahead", "button", "dropdown"}

SampleSource == << "Berlin", "Paris", "C++ Bar", "Albi", "Calais" >>

(* What is typed against the items: "a" begins one, is in others, and in    *)
(* another case in none; "B" begins one, is in one, and in "Albi" in        *)
(* another case; "C++" begins one and is no regular expression.             *)
SampleRank ==
  [q \in Text |-> [item \in Text |->
     CASE q = item -> 1
       [] << q, item >> \in {<< "a", "Albi" >>, << "B", "Berlin" >>,
                             << "C++", "C++ Bar" >>} -> 1
       [] \/ q = "a" /\ item \in {"Paris", "Calais", "C++ Bar"}
          \/ q = "B" /\ item = "C++ Bar"
          \/ q = "i" /\ item \in {"Berlin", "Paris", "Albi", "Calais"} -> 2
       [] << q, item >> = << "B", "Albi" >> -> 3
       [] OTHER -> 0]]

(* Any menu, for toggles nobody clicks.                                     *)
IdleMenu == CHOOSE m \in Menu : TRUE

Idle(w) == running_widget # w

FrontendInit ==
  /\ running_widget \in Deferred \cup Immediate
  /\ SupportInit /\ (running_widget \in Immediate => support)
  /\ AlertsInit /\ (Idle("page") => present = Alert)
  /\ GeolocInit /\ (Idle("page") => osm /\ lat = None /\ lon = None)
  /\ CollapseInit /\ (Idle("collapse") => clipped = Panel /\ open = {})
  /\ ModalInit /\ (Idle("modal") => faded /\ withBackdrop)
  /\ CarouselInit /\ (Idle("carousel") => items = 1 /\ slides /\ made /\ over)
  /\ TooltipInit
  /\ Idle("tooltip") =>
       manual /\ animation /\ type = "tooltip" /\ title /\ body /\ delay = {}
  /\ TabInit /\ (Idle("tab") => marked = 1 /\ fadePanes = {})
  /\ SpyInit /\ (Idle("scrollspy") => sections = << >> /\ scrollTop = 0)
  /\ TypeaheadInit
  /\ ButtonInit /\ (Idle("button") => radio)
  /\ DropdownInit
  /\ Idle("dropdown") =>
       attributed = {} /\ \A t \in Toggle : parent[t] = IdleMenu /\ target[t] = IdleMenu

(* What the step of one widget leaves alone.                                *)
Runs(w) ==
  /\ running_widget = w /\ UNCHANGED running_widget
  /\ IF w = "page" THEN TRUE ELSE UNCHANGED pageVars
  /\ IF w = "collapse" THEN TRUE ELSE UNCHANGED collapseVars
  /\ IF w = "modal" THEN TRUE ELSE UNCHANGED modalVars
  /\ IF w = "carousel" THEN TRUE ELSE UNCHANGED carouselVars
  /\ IF w = "tooltip" THEN TRUE ELSE UNCHANGED tooltipVars
  /\ IF w = "tab" THEN TRUE ELSE UNCHANGED tabVars
  /\ IF w = "scrollspy" THEN TRUE ELSE UNCHANGED spyVars
  /\ IF w = "typeahead" THEN TRUE ELSE UNCHANGED typeaheadVars
  /\ IF w = "button" THEN TRUE ELSE UNCHANGED buttonVars
  /\ IF w = "dropdown" THEN TRUE ELSE UNCHANGED dropdownVars

FrontendNext ==
  \/ PageNext /\ Runs("page")
  \/ CollapseStep /\ Runs("collapse")
  \/ ModalStep /\ Runs("modal")
  \/ CarouselStep /\ Runs("carousel")
  \/ TooltipStep /\ Runs("tooltip")
  \/ TabStep /\ Runs("tab")
  \/ SpyStep /\ Runs("scrollspy")
  \/ TypeaheadStep /\ Runs("typeahead")
  \/ ButtonStep /\ Runs("button")
  \/ DropdownStep /\ Runs("dropdown")

frontendVars == << running_widget, pageVars, collapseVars, modalVars, carouselVars,
                   tooltipVars, tabVars, spyVars, typeaheadVars, buttonVars,
                   dropdownVars >>

(* The fairness of ModalSpec: timers run out.                               *)
FrontendSpec ==
  /\ FrontendInit /\ [][FrontendNext]_frontendVars
  /\ \A t \in Id : WF_frontendVars(TimerFires(t) /\ Runs("modal"))

(* Every variable of the page and of the widgets keeps its type.            *)
FrontendTypeOK ==
  /\ support \in BOOLEAN
  /\ GeolocTypeOK /\ CollapseTypeOK /\ ModalTypeOK /\ CarouselTypeOK
  /\ TooltipTypeOK /\ TabTypeOK /\ SpyTypeOK /\ TypeaheadTypeOK
  /\ ButtonTypeOK /\ DropdownTypeOK
=============================================================================
