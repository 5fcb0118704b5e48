----------------------------- MODULE Transition -----------------------------
(***************************************************************************)
(* What bootstrap.js asks the browser once, when the document is ready:    *)
(* whether it runs CSS transitions.  Where it does, a widget defers the    *)
(* end of a change to the transition-end event; where it does not, the     *)
(* change ends at once.  The browser ends a transition it has begun unless *)
(* the element leaves the layout first, and then sends no event at all.    *)
(***************************************************************************)
VARIABLE support   \* $.support.transition

SupportInit == support \in BOOLEAN
=============================================================================
