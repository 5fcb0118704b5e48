------------------------------ MODULE ScrollSpy ------------------------------
(***************************************************************************)
(* The scrollspy plugin of bootstrap.js: it marks the link of the section  *)
(* the window has scrolled to, by the offsets the sections had when they   *)
(* were last looked up.                                                    *)
(***************************************************************************)
EXTENDS Integers, Sequences

CONSTANTS Top,         \* scroll positions, and offsets of sections
          MaxSections  \* bound: sections of a page

ASSUME ScrollSpyAssumption == Top \subseteq Nat /\ MaxSections \in Nat

VARIABLES sections,      \* where the sections are
          offsets,       \* where they were at the last refresh
          scrollTop,     \* the scroll position, with the option offset added
          activeTarget,  \* the marked section, 0 before the first
          processed      \* process has run on these offsets and this position

spyVars == << sections, offsets, scrollTop, activeTarget, processed >>

Layout == UNION {[1 .. n -> Top] : n \in 0 .. MaxSections}

SpyTypeOK ==
  /\ sections \in Layout /\ offsets \in Layout
  /\ scrollTop \in Top /\ activeTarget \in 0 .. MaxSections
  /\ processed \in BOOLEAN

Marks_NoNext(offs, top, marked, i) ==  \* mutant: the next offset is not looked at
  marked # i /\ top >= offs[i]

(* The section the loop of process marks last: it runs from the end, tests  *)
(* against the target that was marked before, and never stops early.  The   *)
(* next offset counts as missing when it is 0.                              *)
Marks(offs, top, marked, i) ==
  /\ marked # i /\ top >= offs[i]
  /\ i = Len(offs) \/ offs[i + 1] = 0 \/ top <= offs[i + 1]

Processed(offs, top, marked) ==
  LET hits == {i \in DOMAIN offs : Marks(offs, top, marked, i)}
  IN  IF hits = {} THEN marked ELSE CHOOSE i \in hits : \A j \in hits : i <= j

(* The constructor: refresh, then process.                                  *)
SpyInit ==
  /\ sections \in Layout /\ offsets = sections
  /\ scrollTop \in Top
  /\ activeTarget = Processed(offsets, scrollTop, 0)
  /\ processed = TRUE

(* The window scrolls, or one of the links is clicked: process.             *)
Scroll ==
  /\ scrollTop' \in Top
  /\ activeTarget' = Processed(offsets, scrollTop', activeTarget)
  /\ processed' = TRUE
  /\ UNCHANGED << sections, offsets >>

(* The page changes, which process does not notice.                         *)
MoveSections ==
  /\ \E i \in DOMAIN sections, there \in Top :
       sections' = [sections EXCEPT ![i] = there]
  /\ UNCHANGED << offsets, scrollTop, activeTarget, processed >>

(* refresh, called by the page; it does not process.                        *)
Refresh ==
  /\ offsets' = sections /\ processed' = FALSE
  /\ UNCHANGED << sections, scrollTop, activeTarget >>

SpyStep == Scroll \/ MoveSections \/ Refresh

SpySpec == SpyInit /\ [][SpyStep]_spyVars

-----------------------------------------------------------------------------
(* What the reader is looking at: the last section above the position.      *)
InOrder(offs) == \A i, j \in DOMAIN offs : i < j => offs[i] < offs[j]
LastAbove(top, offs, i) ==
  /\ offs[i] <= top
  /\ \A j \in DOMAIN offs : j > i => offs[j] > top

(* Once it has processed offsets that are true, of sections one below the  *)
(* other, the spy has marked the section the reader is in.  Exactly where a *)
(* section begins the test of process holds of the one before as well, and  *)
(* that one may stay marked.                                                *)
SpyMarksSection ==
  processed /\ offsets = sections /\ InOrder(offsets) =>
    \A i \in DOMAIN offsets :
      LastAbove(scrollTop, offsets, i) =>
        \/ activeTarget = i
        \/ offsets[i] = scrollTop /\ activeTarget = i - 1 /\ i > 1
=============================================================================
