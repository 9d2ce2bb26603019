-------------------------- MODULE MCReviewPipeline --------------------------
(***************************************************************************)
(* Instances of ReviewPipeline for TLC.                                    *)
(***************************************************************************)
EXTENDS ReviewPipeline

\* Boxes a, b and c in a row: b overlaps both of its neighbours.
MCOverlapping ==
  {<<"a", "a">>, <<"b", "b">>, <<"c", "c">>,
   <<"a", "b">>, <<"b", "a">>, <<"b", "c">>, <<"c", "b">>}

Item(box, severity) == [box |-> box, severity |-> severity]

Remark(slide, severity) == [slide |-> slide, severity |-> severity]

\* Overlapping findings of one slide meet in every order of severity, and one
\* slide can collect more than the cap.
MCAnswers ==
  [slide_analyzer |-> {<<>>, <<Item("a", "minor"), Item("c", "minor")>>},
   zoom_agent |-> {<<Item("b", "critical"), Item("b", "minor")>>},
   chart_checker |-> {<<Item("b", "critical")>>},
   crossmodal_analyzer |-> {<<Item("none", "minor")>>}]

\* Two remarks are about slides that the deck does not have.
MCRemarks ==
  [deck_analyzer |-> {<<Remark(1, "major"), Remark(NSlides + 1, "minor"),
                       Remark(NSlides + 2, "minor")>>},
   crossmodal_analyzer |-> {<<Remark(0, "minor"), Remark(1, "minor")>>}]

\* Slide 2 has a picture only.
MCTexts == {{1}}
==============================================================================
