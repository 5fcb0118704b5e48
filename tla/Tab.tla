--------------------------------- MODULE Tab ---------------------------------
(***************************************************************************)
(* The tab plugin of bootstrap.js: the clicked tab is marked at once, its  *)
(* pane follows when the pane on screen has faded, if that one has the     *)
(* class fade.                                                             *)
(***************************************************************************)
EXTENDS Transition, Naturals, FiniteSets

CONSTANTS Pane,        \* the tabs of a list and, by the same names, their panes
          MaxWaiting   \* bound: clicks that wait for the end of one pane

VARIABLES marked,        \* the tab whose list item is active
          shownPanes,    \* panes with the class active
          litPanes,      \* panes with the class in
          fadePanes,     \* panes with the class fade
          fadingPanes,   \* panes whose transition is under way
          next,          \* bound to a pane's end: <<panes to leave, pane to show>>
          tabRushed      \* a tab was clicked while a pane was fading

tabVars == << marked, shownPanes, litPanes, fadePanes, fadingPanes, next, tabRushed >>

TabTypeOK ==
  /\ marked \in Pane /\ tabRushed \in BOOLEAN
  /\ {shownPanes, litPanes, fadePanes, fadingPanes} \subseteq SUBSET Pane
  /\ next \in [Pane -> SUBSET ((SUBSET Pane) \X Pane)]

TabInit ==
  /\ marked \in Pane /\ shownPanes = {marked} /\ litPanes = {marked}
  /\ fadePanes \in SUBSET Pane
  /\ fadingPanes = {} /\ next = [p \in Pane |-> {}]
  /\ tabRushed = FALSE

Replace_KeepsActive(actives, shown) ==  \* mutant: no removeClass('active')
  /\ shownPanes' = shownPanes \cup shown
  /\ litPanes' = litPanes \cup shown

(* next of activate, for the panes on screen when the click came.           *)
Replace(actives, shown) ==
  /\ shownPanes' = (shownPanes \ actives) \cup shown
  /\ litPanes' = litPanes \cup shown

(* show of a tab that is not active already: the list item, then the pane.  *)
ShowTab(t) ==
  /\ t # marked /\ marked' = t
  /\ \A p \in shownPanes : Cardinality(next[p]) < MaxWaiting
  /\ tabRushed' = (tabRushed \/ fadingPanes # {})
  /\ IF support /\ shownPanes \cap fadePanes # {}
     THEN /\ next' = [p \in Pane |-> IF p \in shownPanes
                                     THEN next[p] \cup {<< shownPanes, t >>} ELSE next[p]]
          /\ fadingPanes' = fadingPanes \cup (shownPanes \cap litPanes \cap fadePanes)
          /\ litPanes' = litPanes \ shownPanes
          /\ UNCHANGED << shownPanes, fadePanes >>
     ELSE /\ shownPanes' = {t}
          /\ fadePanes' = fadePanes \ {t}
          /\ litPanes' = litPanes \ shownPanes
          /\ UNCHANGED << next, fadingPanes >>

(* The end of a pane's transition, after which the new one fades in.        *)
PaneFaded(p) ==
  /\ p \in fadingPanes
  /\ LET shown == {n[2] : n \in next[p]}
     IN  /\ Replace(UNION {n[1] : n \in next[p]}, shown)
         /\ fadingPanes' = (fadingPanes \ {p}) \cup (shown \cap fadePanes)
  /\ next' = [next EXCEPT ![p] = {}]
  /\ UNCHANGED << marked, fadePanes, tabRushed >>

TabStep == \E t \in Pane : ShowTab(t) \/ PaneFaded(t)

TabSpec ==
  /\ SupportInit /\ TabInit
  /\ [][TabStep /\ UNCHANGED support]_<< support, tabVars >>

-----------------------------------------------------------------------------
(* Clicks that leave the panes the time to fade end on the pane of the      *)
(* marked tab, and on that alone (show, activate).                          *)
PaneOfTab == ~tabRushed /\ fadingPanes = {} => shownPanes = {marked}
=============================================================================
