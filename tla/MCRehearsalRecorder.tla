-------------------------- MODULE MCRehearsalRecorder --------------------------
(* Instance of RehearsalRecorder for TLC. *)
EXTENDS RehearsalRecorder

Said(start, end, words, fillers) == [start |-> start, end |-> end, words |-> words, fillers |-> fillers]

\* Two words a second, and a hurried talk with a pause in it.
MCTranscripts == {<<Said(0, 1, 2, 0), Said(1, 2, 2, 2)>>, <<Said(0, 0, 5, 0), Said(1, 2, 4, 0)>>}
===============================================================================
