----------------------------- MODULE AppliedFixes -----------------------------
(***************************************************************************)
(* What "apply a fix" promises: a review has a set of applied findings and *)
(* one corrected deck, and that deck is the original with exactly the      *)
(* edits of those findings.  To apply one more is a single atomic step.    *)
(* A request that another one overtakes leaves the two tangled, until the  *)
(* next one that is not overtaken makes the deck anew.                     *)
(***************************************************************************)
CONSTANTS
  Findings,   \* the automatically fixable findings of one review
  Edit,       \* Edit[f]: the change that the rule for f makes to its shape
  NoEdit,     \* Edit[f] when no rule or no shape fits f
  Unsafe,     \* sets of edits after which some shape sticks out of its slide
  NoDeck      \* there is no corrected deck (any more)

VARIABLES
  applied,    \* findings shown as fixed
  deck,       \* the edits in the deck on offer, or NoDeck
  kept,       \* the review has not been deleted
  tangled     \* an overtaken request has touched the deck since it was made
promise == <<applied, deck, kept, tangled>>

EditsOf(s) == {Edit[f] : f \in s} \ {NoEdit}

AppliedInit == applied = {} /\ deck = {} /\ kept = TRUE /\ tangled = FALSE

\* One more finding.  It is not shown as fixed when nothing fits it, and need
\* not be when an earlier finding has made the same edit.
ApplyOne(f) ==
  /\ kept = TRUE
  /\ EditsOf(applied \cup {f}) \notin Unsafe
  /\ deck' = EditsOf(applied \cup {f})
  /\ applied' \in {applied, applied \cup {f}}
  /\ EditsOf(applied') = deck'
  /\ tangled' = FALSE
  /\ UNCHANGED kept

\* The deck would fail its control check: back to the original.
RollBack(f) ==
  /\ kept = TRUE
  /\ EditsOf(applied \cup {f}) \in Unsafe
  /\ applied' = {} /\ deck' = {}
  /\ tangled' = FALSE
  /\ UNCHANGED kept

\* An overtaken request shows no other finding as fixed than its own.
Overlap(f) ==
  /\ kept = TRUE
  /\ applied' \subseteq applied \cup {f}
  /\ tangled' = TRUE
  /\ UNCHANGED kept

\* The files expire or are being deleted; which deck that leaves when there are
\* two of them is open ...
Withdraw == (deck' = NoDeck \/ tangled = TRUE) /\ UNCHANGED <<applied, kept, tangled>>

\* ... and the review is deleted.
Delete == kept' = FALSE /\ applied' = {} /\ deck' = NoDeck /\ UNCHANGED tangled

AppliedNext ==
  (\E f \in Findings : ApplyOne(f) \/ RollBack(f) \/ Overlap(f)) \/ Withdraw \/ Delete

\* Only findings that change the deck are ever shown as fixed.
ShownAsEdited == \A g \in applied : Edit[g] # NoEdit

AppliedSpec == AppliedInit /\ [][AppliedNext /\ ShownAsEdited']_promise
===============================================================================
