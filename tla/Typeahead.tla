------------------------------ MODULE Typeahead ------------------------------
(***************************************************************************)
(* The typeahead plugin of bootstrap.js: the menu of the source's items    *)
(* that match what is typed.  A key changes the field when it goes down    *)
(* and the menu when it comes up; the menu is hidden 150 ms after the      *)
(* field loses the focus, whatever has happened since.                     *)
(***************************************************************************)
EXTENDS Integers, Sequences, FiniteSets

CONSTANTS Text,       \* what the field may hold; the empty text is Empty
          Empty,
          Source,     \* the option source: a sequence of texts
          Rank,       \* Rank[q][item]: 1 begins with q in any case, 2 contains
                      \* q as it is written, 3 in another case, 0 does not match
          Broken,     \* texts that are no regular expression in parentheses
          MaxShown,   \* the option items
          MaxBlurs    \* bound: blurs whose 150 ms have not passed

ASSUME TypeaheadAssumption ==
  /\ Empty \in Text /\ Source \in Seq(Text \ {Empty})
  /\ Rank \in [Text -> [Text -> 0 .. 3]] /\ Broken \subseteq Text \ {Empty}
  /\ MaxShown \in Nat \ {0} /\ MaxBlurs \in Nat

VARIABLES value,       \* the field
          query,       \* what the menu was looked up for
          shown,
          menu,        \* the items of the menu
          chosen,      \* the active one, 0 for none
          focused,
          blurs        \* blurs whose timer is running

typeaheadVars == << value, query, shown, menu, chosen, focused, blurs >>

TypeaheadTypeOK ==
  /\ value \in Text /\ query \in Text /\ shown \in BOOLEAN /\ focused \in BOOLEAN
  /\ menu \in Seq(Text) /\ Len(menu) <= MaxShown
  /\ chosen \in 0 .. MaxShown /\ blurs \in 0 .. MaxBlurs

TypeaheadInit ==
  /\ value = Empty /\ query = Empty /\ shown = FALSE
  /\ menu = << >> /\ chosen = 0
  /\ focused = TRUE /\ blurs = 0

(* The items at some places of the source, in its order.                    *)
ItemsAt(places) ==
  [n \in 1 .. Cardinality(places) |->
     Source[CHOOSE k \in places : Cardinality({j \in places : j <= k}) = n]]

Sorted_AsListed(q) ==  \* mutant: matches in the order of the source
  ItemsAt({k \in DOMAIN Source : Rank[q][Source[k]] # 0})

(* matcher and sorter: three passes over the source, then a slice.          *)
Sorted(q) ==
  LET pass(r) == ItemsAt({k \in DOMAIN Source : Rank[q][Source[k]] = r})
  IN  pass(1) \o pass(2) \o pass(3)

Matching(q) ==
  LET all == Sorted(q)
  IN  IF Len(all) <= MaxShown THEN all ELSE SubSeq(all, 1, MaxShown)

(* A key types a text.                                                      *)
TypeText(q) ==
  /\ focused /\ value' = q
  /\ UNCHANGED << query, shown, menu, chosen, focused, blurs >>

(* lookup, when a key other than those below comes up.  The highlighter     *)
(* makes a regular expression of the query as it is: where that raises, the *)
(* menu stays as it was, whatever was looked up for it.                     *)
Lookup ==
  /\ focused
  /\ query' = value
  /\ IF value = Empty \/ Matching(value) = << >>
     THEN shown' = FALSE /\ UNCHANGED << menu, chosen >>
     ELSE IF value \in Broken
     THEN UNCHANGED << shown, menu, chosen >>
     ELSE shown' = TRUE /\ menu' = Matching(value) /\ chosen' = 1
  /\ UNCHANGED << value, focused, blurs >>

(* select: by enter or tab coming up, or a click on the menu; where no item *)
(* is active the field is emptied.                                          *)
Select ==
  /\ shown /\ shown' = FALSE
  /\ value' = IF chosen \in DOMAIN menu THEN menu[chosen] ELSE Empty
  /\ UNCHANGED << query, menu, chosen, focused, blurs >>

Escape ==
  /\ focused /\ shown /\ shown' = FALSE
  /\ UNCHANGED << value, query, menu, chosen, focused, blurs >>

(* The arrows, round the ends of the menu.                                  *)
NextItem == IF chosen + 1 \in DOMAIN menu THEN chosen + 1 ELSE 1
PrevItem == IF chosen - 1 \in DOMAIN menu THEN chosen - 1 ELSE Len(menu)

Arrow ==
  /\ focused /\ shown
  /\ chosen' \in {NextItem, PrevItem}
  /\ UNCHANGED << value, query, shown, menu, focused, blurs >>

MouseOver(i) ==
  /\ shown /\ i \in DOMAIN menu /\ chosen' = i
  /\ UNCHANGED << value, query, shown, menu, focused, blurs >>

Blur ==
  /\ focused /\ focused' = FALSE
  /\ blurs < MaxBlurs /\ blurs' = blurs + 1
  /\ UNCHANGED << value, query, shown, menu, chosen >>

Focus ==
  /\ ~focused /\ focused' = TRUE
  /\ UNCHANGED << value, query, shown, menu, chosen, blurs >>

BlurEnds ==
  /\ blurs > 0 /\ blurs' = blurs - 1
  /\ shown' = FALSE
  /\ UNCHANGED << value, query, menu, chosen, focused >>

TypeaheadStep ==
  \/ \E q \in Text : TypeText(q)
  \/ Lookup \/ Select \/ Escape \/ Arrow \/ Blur \/ Focus \/ BlurEnds
  \/ \E i \in 1 .. MaxShown : MouseOver(i)

TypeaheadSpec == TypeaheadInit /\ [][TypeaheadStep]_typeaheadVars

-----------------------------------------------------------------------------
(* The items of a menu match a text and are the best of those that do, in   *)
(* order of rank.                                                           *)
Serves(q) ==
  /\ \A i \in DOMAIN menu : Rank[q][menu[i]] # 0
  /\ \A i, j \in DOMAIN menu : i < j => Rank[q][menu[i]] <= Rank[q][menu[j]]
  /\ \A k \in DOMAIN Source :
       Rank[q][Source[k]] # 0 /\ (\A i \in DOMAIN menu : menu[i] # Source[k]) =>
         /\ Len(menu) = MaxShown
         /\ Rank[q][Source[k]] >= Rank[q][menu[MaxShown]]

(* A menu on screen has an active item, so that select never empties the    *)
(* field, whatever the arrows, the mouse and new look-ups do (render, next, *)
(* prev, mouseenter); its items serve its query (matcher, sorter, lookup).  *)
(* The menu of a query that is no regular expression is that of another     *)
(* query, looked up before (highlighter).                                   *)
MenuServes ==
  shown =>
    /\ chosen \in DOMAIN menu
    /\ IF query \in Broken THEN \E q \in Text \ Broken : Serves(q) ELSE Serves(query)
=============================================================================
