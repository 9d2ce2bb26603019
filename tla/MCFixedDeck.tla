----------------------------- MODULE MCFixedDeck ------------------------------
(***************************************************************************)
(* Instances of FixedDeck for TLC.                                         *)
(***************************************************************************)
EXTENDS FixedDeck, TLC

CONSTANTS f1, f2, f3, f4, e1, e2

\* f1 and f2 are about the same shape, f3 is about another one and f4 fits no
\* shape.  Each edit is safe alone, but not both of them.
Edits == (f1 :> e1) @@ (f2 :> e1) @@ (f3 :> e2) @@ (f4 :> NoEdit)
MCEdit == [f \in Findings |-> Edits[f]]
Keys == (f1 :> 2) @@ (f2 :> 1) @@ (f3 :> 3) @@ (f4 :> 0)
MCKey == [f \in Findings |-> Keys[f]]
MCMaxKey == 3
MCUnsafe == {{e1, e2}}

Clicks == Permutations(Requests)
===============================================================================
