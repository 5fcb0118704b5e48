------------------------------ MODULE Collapse ------------------------------
(***************************************************************************)
(* The panels of one accordion (collapse plugin of bootstrap.js), opened   *)
(* and closed by the links of the page.  A panel's Collapse object is made *)
(* by the first click on its link, or, when another panel opens before     *)
(* that, by the call that hides it: that one is dropped again, because it  *)
(* does not know its parent.                                               *)
(***************************************************************************)
EXTENDS Transition

CONSTANT Panel

VARIABLES object,   \* its Collapse object: none, with its parent, an orphan
          open,     \* panels with the class in
          clipped,  \* panels with the class collapse: overflow is hidden
          size,     \* the height written on the element
          running,  \* panels whose height is in transition
          waiting,  \* what their end will complete
          touched,  \* panels opened or closed since the page was loaded
          hurried,  \* a panel was moved while it was moving
          evicted   \* panels hidden last by a call that made their object

collapseVars == << object, open, clipped, size, running, waiting, touched,
                   hurried, evicted >>

CollapseTypeOK ==
  /\ object \in [Panel -> {"none", "parented", "orphan"}]
  /\ open \in SUBSET Panel /\ clipped \in SUBSET Panel
  /\ size \in [Panel -> {"zero", "full", "auto"}]
  /\ {running, touched, evicted} \subseteq SUBSET Panel
  /\ waiting \in [Panel -> SUBSET {"show", "hide"}]
  /\ hurried \in BOOLEAN

(* A page writes at most one panel open.  A closed panel may lack the class *)
(* collapse: sensors.tpl misspells the attribute.                           *)
CollapseInit ==
  /\ object = [p \in Panel |-> "none"]
  /\ open \in SUBSET Panel /\ \A p, q \in open : p = q
  /\ \E bare \in SUBSET (Panel \ open) :
       /\ clipped = Panel \ bare
       /\ size = [p \in Panel |-> IF p \in open \cup bare THEN "auto" ELSE "zero"]
  /\ running = {} /\ waiting = [p \in Panel |-> {}]
  /\ touched = {} /\ hurried = FALSE /\ evicted = {}

Move_KeepsSize(opened, closed, flat) ==  \* mutant: hide does not set the height to 0
  LET moving == IF support THEN (opened \cap clipped) \cup (closed \ flat) ELSE {}
  IN  /\ open' = (open \ closed) \cup opened
      /\ clipped' = ((clipped \cup closed) \ flat) \ (opened \ moving)
      /\ size' = [p \in Panel |-> IF p \in opened \cup closed THEN "full" ELSE size[p]]
      /\ running' = (running \cup moving) \ flat
      /\ waiting' = [p \in Panel |->
                       waiting[p] \cup (IF p \notin moving THEN {}
                                        ELSE IF p \in opened THEN {"show"} ELSE {"hide"})]
      /\ touched' = touched \cup opened \cup closed
      /\ hurried' = (hurried \/ (opened \cup closed) \cap running # {})

(* The panels of opened are shown and those of closed hidden: class,        *)
(* height, and, where there is a transition to wait for, the handler of its *)
(* end.  A panel hidden while it has no height (flat) loses the class       *)
(* collapse, and with it the transition under way.                          *)
Move(opened, closed, flat) ==
  LET moving == IF support THEN (opened \cap clipped) \cup (closed \ flat) ELSE {}
  IN  /\ open' = (open \ closed) \cup opened
      /\ clipped' = ((clipped \cup closed) \ flat) \ (opened \ moving)
      /\ size' = [p \in Panel |-> IF p \in opened THEN "full"
                                  ELSE IF p \in closed THEN "zero" ELSE size[p]]
      /\ running' = (running \cup moving) \ flat
      /\ waiting' = [p \in Panel |->
                       waiting[p] \cup (IF p \notin moving THEN {}
                                        ELSE IF p \in opened THEN {"show"} ELSE {"hide"})]
      /\ touched' = touched \cup opened \cup closed
      /\ hurried' = (hurried \/ (opened \cup closed) \cap running # {})

(* collapse('hide') hides a panel that has no object twice, for the object  *)
(* it makes toggles at once.  The first time leaves no height, unless a     *)
(* transition has to run down to it; without, the second finds the panel    *)
(* flat.                                                                    *)
Unmade(actives) == {q \in actives : object[q] = "none"}
Flat(actives) ==
  IF support THEN SUBSET (actives \cap running) ELSE {Unmade(actives)}

ShowPanel_KeepsOrphans(p, own) ==  \* mutant: no data('collapse', null)
  LET actives == IF own = "parented" THEN open ELSE {}
  IN  /\ \E flat \in Flat(actives) : Move({p}, actives, flat)
      /\ evicted' = (evicted \cup Unmade(actives)) \ {p}
      /\ object' = [q \in Panel |-> IF q = p THEN own
                                    ELSE IF q \in Unmade(actives) THEN "orphan"
                                    ELSE object[q]]

(* show hides the open panels of the accordion first, if it knows its       *)
(* parent.  collapse('hide') makes an object without a parent for one that  *)
(* has none; all are forgotten when the first had none.                     *)
ShowPanel(p, own) ==
  LET actives == IF own = "parented" THEN open ELSE {}
      kept(first, q) == IF object[first] = "none" THEN "none"
                        ELSE IF object[q] = "none" THEN "orphan" ELSE object[q]
  IN  /\ \E flat \in Flat(actives) : Move({p}, actives, flat)
      /\ evicted' = (evicted \cup Unmade(actives)) \ {p}
      /\ \E first \in IF actives = {} THEN {p} ELSE actives :
            object' = [q \in Panel |-> IF q = p THEN own
                                      ELSE IF q \in actives THEN kept(first, q)
                                      ELSE object[q]]

HidePanel(p, own) ==
  /\ \E flat \in SUBSET ({p} \cap running) : Move({}, {p}, flat)
  /\ object' = [object EXCEPT ![p] = own]
  /\ evicted' = evicted \ {p}

(* The click on the link of panel p: a new object toggles at once.          *)
TogglePanel(p) ==
  LET own == IF object[p] = "none" THEN "parented" ELSE object[p]
  IN  IF p \in open THEN HidePanel(p, own) ELSE ShowPanel(p, own)

(* The end of a transition runs every handler bound to the panel; the one   *)
(* of show gives the panel its natural height (reset).                      *)
HeightReached(p) ==
  /\ p \in running
  /\ running' = running \ {p}
  /\ waiting' = [waiting EXCEPT ![p] = {}]
  /\ clipped' = IF "show" \in waiting[p] THEN clipped \ {p} ELSE clipped
  /\ size' = IF "show" \in waiting[p] THEN [size EXCEPT ![p] = "auto"] ELSE size
  /\ UNCHANGED << object, open, touched, hurried, evicted >>

CollapseStep == \E p \in Panel : TogglePanel(p) \/ HeightReached(p)

CollapseSpec ==
  /\ SupportInit /\ CollapseInit
  /\ [][CollapseStep /\ UNCHANGED support]_<< support, collapseVars >>

-----------------------------------------------------------------------------
OnScreen(p) == p \in clipped => size[p] # "zero"

(* An accordion never has two open panels, however fast the user clicks and *)
(* whichever objects exist (show, the reset of data after collapse('hide')).*)
OnePanelOpen == \A p, q \in open : p = q

(* A panel that was moved, and not moved again before it came to rest,      *)
(* shows its contents exactly when it is open.  One exception: without      *)
(* transitions a panel whose object the opening of another had to make is   *)
(* hidden twice, and stays on the screen at no height with its contents     *)
(* sticking out (show, hide, reset, transition, $.fn.collapse).             *)
PanelsSettle ==
  ~hurried => \A p \in touched \ running :
                OnScreen(p) <=> p \in open \/ (~support /\ p \in evicted)
=============================================================================
