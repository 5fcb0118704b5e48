------------------------------- MODULE Dropdown -------------------------------
(***************************************************************************)
(* The dropdown plugin of bootstrap.js.  The same function toggle is bound *)
(* to a toggle by its Dropdown object and to the body for all elements     *)
(* with data-toggle, and whatever reaches the document closes menus: one   *)
(* click bubbles through all of them, until a handler returns false.       *)
(***************************************************************************)
CONSTANTS Toggle,    \* elements that open a menu
          Menu       \* their parents and what data-target names

VARIABLES attributed,  \* toggles with data-toggle="dropdown"
          scripted,    \* toggles with a Dropdown object
          parent,      \* of each toggle
          target,      \* the menu it opens: the parent, or data-target's
          opened,      \* menus with the class open
          bubbling,    \* where the last click has come to
          clicked,     \* the toggle it hit, none if it hit something else
          wasOpen      \* and whether its menu was open

dropdownVars == << attributed, scripted, parent, target, opened, bubbling,
                   clicked, wasOpen >>

DropdownTypeOK ==
  /\ {attributed, scripted, clicked} \subseteq SUBSET Toggle
  /\ {parent, target} \subseteq [Toggle -> Menu] /\ opened \in SUBSET Menu
  /\ bubbling \in {"none", "element", "body", "html", "done"}
  /\ wasOpen \in BOOLEAN

DropdownInit ==
  /\ attributed \in SUBSET Toggle /\ scripted = {}
  /\ parent \in [Toggle -> Menu] /\ target \in [Toggle -> Menu]
  /\ opened = {} /\ bubbling = "none" /\ clicked = {} /\ wasOpen = FALSE

Parents(toggles) == {parent[t] : t \in toggles}
Waits == bubbling \in {"none", "done"}
Page == << attributed, parent, target >>

(* toggle: clearMenus closes the parents of all elements with data-toggle,  *)
(* wherever the menu that was open is.                                      *)
Toggles(t) ==
  opened' = (opened \ Parents(attributed))
              \cup (IF target[t] \in opened THEN {} ELSE {target[t]})

(* A click on a toggle, or elsewhere: on nothing that has handlers.         *)
Click(hit) ==
  /\ Waits /\ bubbling' = (IF hit = {} THEN "html" ELSE "element")
  /\ clicked' = hit /\ wasOpen' = (\E t \in hit : target[t] \in opened)
  /\ UNCHANGED << Page, scripted, opened >>

Bubbles_On(from, bound, to) ==  \* mutant: toggle does not return false
  /\ bubbling = from /\ bubbling' = to
  /\ \E t \in clicked : IF t \in bound THEN Toggles(t) ELSE UNCHANGED opened
  /\ UNCHANGED << Page, scripted, clicked, wasOpen >>

(* Where a handler is bound it toggles and ends the click (return false).   *)
Bubbles(from, bound, to) ==
  /\ bubbling = from
  /\ \E t \in clicked : IF t \in bound
                        THEN Toggles(t) /\ bubbling' = "done"
                        ELSE bubbling' = to /\ UNCHANGED opened
  /\ UNCHANGED << Page, scripted, clicked, wasOpen >>

OnElement == Bubbles("element", scripted, "body")
OnBody == Bubbles("body", attributed, "html")

(* The document closes the menus of all toggles: by clearMenus, and by a    *)
(* handler of each Dropdown object.                                         *)
OnDocument ==
  /\ bubbling = "html" /\ bubbling' = "done"
  /\ opened' = opened \ Parents(attributed \cup scripted)
  /\ UNCHANGED << Page, scripted, clicked, wasOpen >>

(* $.fn.dropdown makes the object, and with 'toggle' opens or closes.       *)
CallDropdown(t) ==
  /\ Waits /\ bubbling' = "none" /\ scripted' = scripted \cup {t}
  /\ Toggles(t) \/ UNCHANGED opened
  /\ clicked' = {} /\ wasOpen' = FALSE /\ UNCHANGED Page

DropdownStep ==
  \/ Click({}) \/ OnElement \/ OnBody \/ OnDocument
  \/ \E t \in Toggle : Click({t}) \/ CallDropdown(t)

DropdownSpec == DropdownInit /\ [][DropdownStep]_dropdownVars

-----------------------------------------------------------------------------
(* Whoever handles it, the object of the toggle, the body or nobody, a      *)
(* click on a toggle counts once: its menu is open if it was not, and       *)
(* closed if it was and clearMenus finds it; no other is open that          *)
(* clearMenus finds.  A click that nobody handles leaves open only what no  *)
(* toggle is in (toggle's return false, clearMenus, Dropdown).              *)
ClickCountsOnce ==
  bubbling = "done" =>
    IF clicked \cap (scripted \cup attributed) = {}
    THEN opened \cap Parents(attributed \cup scripted) = {}
    ELSE \A t \in clicked :
           /\ target[t] \in opened <=> ~wasOpen \/ target[t] \notin Parents(attributed)
           /\ opened \cap Parents(attributed) \subseteq {target[t]}
=============================================================================
